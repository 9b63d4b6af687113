--------------------------- MODULE IncidentsProofs ---------------------------
(***************************************************************************)
(* What holds of the incidents of a key for every idle period, grid,       *)
(* number of partitions, findings and failures.                            *)
(***************************************************************************)
EXTENDS Incidents, SequenceTheorems, TLAPS

-----------------------------------------------------------------------------
(***************************************************************************)
(* Findings and incidents                                                  *)
(***************************************************************************)

Subtypes == {k.subtype : k \in Kinds}

\* The maximum of two numbers is the greater of them.
LEMMA MaxPair ==
  ASSUME NEW a \in Int, NEW b \in Int
  PROVE  Max({a, b}) \in {a, b} /\ Max({a, b}) >= a /\ Max({a, b}) >= b
<1>1. \E x \in {a, b} : \A y \in {a, b} : x >= y
  <2>1. CASE a >= b
    BY <2>1
  <2>2. CASE b >= a
    BY <2>2
  <2> QED
    BY <2>1, <2>2
<1> QED
  BY <1>1 DEF Max

\* So a set of numbers that holds both holds their maximum.
LEMMA MaxStays ==
  ASSUME NEW S \in SUBSET Int, NEW a \in S, NEW b \in S
  PROVE  Max({a, b}) \in S
<1>1. Max({a, b}) \in {a, b}
  BY MaxPair
<1> QED
  BY <1>1

\* The sets whose maxima an incident keeps: counts, times and ranks.
LEMMA NatInt == Nat \in SUBSET Int /\ 0 .. 4 \in SUBSET Int
OBVIOUS

\* The fields of a finding (alerts.py:31-66).
LEMMA ReportedType ==
  ASSUME NEW f \in Reported
  PROVE  /\ f.obs \in Nat /\ f.start \in Nat /\ f.rank \in 0 .. 4 /\ f.count \in Nat
         /\ f.subtype \in Subtypes
<1>1. PICK o \in 0 .. MaxObs, k \in Kinds :
        f = [obs |-> o, start |-> o - k.span, rank |-> k.rank, subtype |-> k.subtype,
             count |-> k.count]
  BY DEF Reported
<1>2. k \in [rank: 0 .. 4, subtype: STRING, count: Nat, span: Nat] /\ MaxObs \in Nat
  BY <1>1, IncidentsAssumption
<1>3. f.start >= 0
  BY DEF Reported
<1> QED
  BY <1>1, <1>2, <1>3 DEF Subtypes

\* A timer lies beyond the time it is set for (incidents.py:80).
LEMMA BucketAbove ==
  ASSUME NEW t \in Nat
  PROVE  BucketUp(t) \in Nat /\ BucketUp(t) > t
<1>1. Step \in Nat /\ Step > 0
  BY IncidentsAssumption
<1>2. t = Step * (t \div Step) + (t % Step) /\ t % Step < Step /\ t \div Step \in Nat
  BY <1>1
<1>3. (t \div Step + 1) * Step = Step * (t \div Step) + Step
  BY <1>1, <1>2
<1>4. Step * (t \div Step) \in Nat
  BY <1>1, <1>2
<1> QED
  BY <1>1, <1>2, <1>3, <1>4 DEF BucketUp

\* An incident that was just opened is one.
LEMMA OpenedType ==
  ASSUME NEW f \in Reported
  PROVE  Opened(f) \in Incident /\ Opened(f).obs = f.obs
<1>1. f.start \div Epoch \in Nat /\ Epoch \in Nat
  BY ReportedType, IncidentsAssumption
<1>2. IncidentId(f) \in Nat
  BY <1>1 DEF IncidentId
<1> QED
  BY <1>2, ReportedType DEF Opened, Incident, Subtypes

\* A finding's contribution to the open incident, field by field.
LEMMA MergedType ==
  ASSUME st \in Incident, NEW f \in Reported
  PROVE  Merged(f) \in Incident
<1> DEFINE m1 == [st EXCEPT !.obs = Max({st.obs, f.obs})]
           m2 == [m1 EXCEPT !.count = Max({st.count, f.count})]
           m3 == [m2 EXCEPT !.subtypes = st.subtypes \cup {f.subtype}]
           m4 == [m3 EXCEPT !.last = f]
<1> HIDE DEF m1, m2, m3, m4
<1>1. st.obs \in Nat /\ st.count \in Nat /\ st.subtypes \in SUBSET Subtypes
  BY DEF Incident, Subtypes
<1>2. f.obs \in Nat /\ f.count \in Nat /\ f.subtype \in Subtypes
  BY ReportedType
<1>3. Max({st.obs, f.obs}) \in Nat
  BY <1>1, <1>2, NatInt, MaxStays, Zenon
<1>4. Max({st.count, f.count}) \in Nat
  BY <1>1, <1>2, NatInt, MaxStays, Zenon
<1>5. m1 \in Incident
  BY <1>3 DEF m1, Incident
<1>6. m2 \in Incident
  BY <1>4, <1>5 DEF m2, Incident
<1>7. m3 \in Incident
  BY <1>1, <1>2, <1>6 DEF m3, Incident, Subtypes
<1>8. m4 \in Incident
  BY <1>7 DEF m4, Incident
<1>9. Merged(f) = m4
  BY Zenon DEF Merged, m1, m2, m3, m4
<1> QED
  BY <1>8, <1>9, Zenon

\* The same for an update.
LEMMA UpdatedType ==
  ASSUME st \in Incident, NEW f \in Reported
  PROVE  Updated(f) \in Incident
<1> DEFINE m == Merged(f)
           u1 == [m EXCEPT !.seq = m.seq + 1]
           u2 == [u1 EXCEPT !.rank = Max({m.rank, f.rank})]
           u3 == [u2 EXCEPT !.emit = f.obs]
           u4 == [u3 EXCEPT !.emitted = m.count]
<1>1. m \in Incident
  BY MergedType
<1> HIDE DEF m, u1, u2, u3, u4
<1>2. m.seq + 1 \in Nat \ {0} /\ m.rank \in 0 .. 4 /\ m.count \in Nat
  BY <1>1 DEF Incident
<1>3. f.obs \in Nat /\ f.rank \in 0 .. 4
  BY ReportedType
<1>4. Max({m.rank, f.rank}) \in 0 .. 4
  BY <1>2, <1>3, NatInt, MaxStays, Zenon
<1>5. u1 \in Incident
  BY <1>1, <1>2 DEF u1, Incident
<1>6. u2 \in Incident
  BY <1>4, <1>5 DEF u2, Incident
<1>7. u3 \in Incident
  BY <1>3, <1>6 DEF u3, Incident
<1>8. u4 \in Incident
  BY <1>2, <1>7 DEF u4, Incident
<1>9. Updated(f) = u4
  BY Zenon DEF Updated, m, u1, u2, u3, u4
<1> QED
  BY <1>8, <1>9, Zenon

-----------------------------------------------------------------------------
(***************************************************************************)
(* Timers                                                                  *)
(***************************************************************************)

\* The open incident, in the state and in the checkpoint, has the timer that
\* resolves it unless another finding comes.
Timed(s, registered) ==
  s # None => s \in Incident /\ BucketUp(s.obs + Idle) \in registered

TimerInv == wm \in Int /\ wm >= -1 /\ Timed(st, timers) /\ Timed(ckpt.st, ckpt.timers)

\* Every finding sets the timer for the incident that it leaves.
LEMMA BecomesTimed ==
  ASSUME NEW p, NEW s \in Incident, NEW out, Becomes(p, s, out), TimerInv
  PROVE  TimerInv'
BY DEF Becomes, Registered, TimerInv, Timed

\* No step leaves an open incident without its timer: those that fire and
\* resolve nothing are older than the incident's (incidents.py:98-107).
LEMMA TimerStep == TimerInv /\ [Next]_vars => TimerInv'
<1> SUFFICES ASSUME TimerInv, [Next]_vars PROVE TimerInv'
  OBVIOUS
<1>1. ASSUME NEW p \in Partitions, NEW f \in Reported, Open(p, f)
      PROVE  TimerInv'
  BY <1>1, OpenedType, BecomesTimed DEF Open
<1>2. ASSUME NEW p \in Partitions, NEW f \in Reported, Escalate(p, f)
      PROVE  TimerInv'
  BY <1>2, UpdatedType, BecomesTimed DEF Escalate, Joins, TimerInv, Timed
<1>3. ASSUME NEW p \in Partitions, NEW f \in Reported, Update(p, f)
      PROVE  TimerInv'
  BY <1>3, UpdatedType, BecomesTimed DEF Update, Joins, TimerInv, Timed
<1>4. ASSUME NEW p \in Partitions, NEW f \in Reported, Suppress(p, f)
      PROVE  TimerInv'
  BY <1>4, MergedType, BecomesTimed DEF Suppress, Joins, TimerInv, Timed
<1>5. ASSUME NEW w \in 0 .. MaxTime, Advance(w)
      PROVE  TimerInv'
  <2>1. wm' \in Int /\ wm' >= -1 /\ UNCHANGED ckpt
    BY <1>5 DEF Advance
  <2>2. CASE Expires(w)
    BY <1>5, <2>1, <2>2 DEF Advance, TimerInv, Timed
  <2>3. CASE ~Expires(w) /\ st # None
    <3>1. st \in Incident /\ st' = st /\ st.obs + Idle \in Nat
      BY <1>5, <2>3, IncidentsAssumption DEF Advance, TimerInv, Timed, Incident
    <3>2. BucketUp(st.obs + Idle) \in timers /\ BucketUp(st.obs + Idle) \in Nat
          /\ st.obs + Idle <= BucketUp(st.obs + Idle)
      BY <3>1, <2>3, BucketAbove DEF TimerInv, Timed
    <3>3. BucketUp(st.obs + Idle) > w
      BY <3>1, <3>2, <2>3 DEF Expires
    <3> QED
      BY <1>5, <2>1, <3>1, <3>2, <3>3 DEF Advance, TimerInv, Timed
  <2>4. CASE ~Expires(w) /\ st = None
    BY <1>5, <2>1, <2>4 DEF Advance, TimerInv, Timed
  <2> QED
    BY <2>2, <2>3, <2>4
<1>6. CASE Checkpoint
  BY <1>6 DEF Checkpoint, TimerInv, Timed
<1>7. CASE Restart
  BY <1>7 DEF Restart, TimerInv, Timed
<1>8. CASE UNCHANGED vars
  BY <1>8 DEF vars, TimerInv, Timed
<1> QED
  BY <1>1, <1>2, <1>3, <1>4, <1>5, <1>6, <1>7, <1>8 DEF Next, Process

\* An open incident always has its timer, after a failure too.
LEMMA TimerInvariant == Spec => []TimerInv
<1>1. Init => TimerInv
  BY DEF Init, TimerInv, Timed
<1> QED
  BY <1>1, TimerStep, PTL DEF Spec

\* Only the watermark itself and a failure move the watermark, and a failure
\* moves it back.
LEMMA WatermarkMoves ==
  ASSUME TimerInv, [Next]_vars, wm' > wm
  PROVE  \E w \in 0 .. MaxTime : Advance(w)
<1>1. wm' # wm
  BY DEF TimerInv
<1>2. ~Process /\ ~Checkpoint /\ ~UNCHANGED vars
  BY <1>1 DEF Process, vars, Open, Escalate, Update, Suppress, Becomes, Checkpoint
<1>3. ~Restart
  BY DEF Restart, TimerInv
<1> QED
  BY <1>2, <1>3 DEF Next

\* The watermark never passes the timer of an incident that stays open
\* (incidents.py:80, 98-107), whatever the findings and failures.
THEOREM NoneOverstaysEver == Spec => NoneOverstays
<1> DEFINE Resolves == wm' > wm => st' = None \/ wm' < BucketUp(st'.obs + Idle)
<1>1. TimerInv /\ [Next]_vars => [Resolves]_vars
  <2> SUFFICES ASSUME TimerInv, [Next]_vars, wm' > wm, st' # None
               PROVE  wm' < BucketUp(st'.obs + Idle)
    OBVIOUS
  <2>1. PICK w \in 0 .. MaxTime : Advance(w)
    BY WatermarkMoves
  <2>2. wm' = w /\ timers' = {t \in timers : t > w}
    BY <2>1 DEF Advance
  <2>3. BucketUp(st'.obs + Idle) \in timers'
    BY TimerStep DEF TimerInv, Timed
  <2> QED
    BY <2>2, <2>3
<1> QED
  BY <1>1, TimerInvariant, PTL DEF Spec, NoneOverstays

-----------------------------------------------------------------------------
(***************************************************************************)
(* Update numbers                                                          *)
(***************************************************************************)

Statuses == {"new", "escalated", "updated", "resolved"}

Sent ==
  [id: Nat, seq: Nat \ {0}, status: Statuses, rank: 0 .. 4, subtype: Subtypes, count: Nat, obs: Nat]

\* The updates 1 .. n of an incident are in the set T or among the first k
\* alerts of the sequence buf.
Covered(T, buf, k, id, n) ==
  \A m \in 1 .. n : \/ \E b \in T : b.id = id /\ b.seq = m
                    \/ \E j \in 1 .. k : buf[j].id = id /\ buf[j].seq = m

\* Every alert comes after the updates before it.
Chained(T, buf) ==
  /\ T \subseteq Sent /\ buf \in Seq(Sent)
  /\ \A a \in T : Covered(T, buf, 0, a.id, a.seq - 1)
  /\ \A i \in 1 .. Len(buf) : Covered(T, buf, i - 1, buf[i].id, buf[i].seq - 1)

UpdatesInv ==
  /\ Chained(topic, buffer)
  /\ st # None => Covered(topic, buffer, Len(buffer), st.id, st.seq)
  /\ ckpt.st # None => Covered(topic, buffer, 0, ckpt.st.id, ckpt.st.seq)

\* The next update of an incident may be sent, and no other incident loses one.
LEMMA SendNext ==
  ASSUME NEW T, NEW buf, NEW a \in Sent, Chained(T, buf),
         Covered(T, buf, Len(buf), a.id, a.seq - 1)
  PROVE  /\ Chained(T, Append(buf, a))
         /\ Len(Append(buf, a)) = Len(buf) + 1
         /\ Covered(T, Append(buf, a), Len(buf) + 1, a.id, a.seq)
         /\ \A id, n : Covered(T, buf, Len(buf), id, n)
              => Covered(T, Append(buf, a), Len(buf) + 1, id, n)
<1> DEFINE new == Append(buf, a)
<1>1. buf \in Seq(Sent) /\ Len(buf) \in Nat
  BY DEF Chained
<1>2. /\ new \in Seq(Sent) /\ Len(new) = Len(buf) + 1 /\ new[Len(buf) + 1] = a
      /\ \A i \in 1 .. Len(buf) : new[i] = buf[i]
  BY <1>1, AppendProperties
<1> HIDE DEF new
<1>3. \A id, n : \A k \in 0 .. Len(buf) : Covered(T, buf, k, id, n) => Covered(T, new, k, id, n)
  BY <1>1, <1>2 DEF Covered
<1>4. \A id, n : Covered(T, new, Len(buf), id, n) => Covered(T, new, Len(buf) + 1, id, n)
  BY <1>1 DEF Covered
<1>5. a.seq \in Nat \ {0}
  BY DEF Sent
<1>6. Covered(T, new, Len(buf), a.id, a.seq - 1)
  BY <1>1, <1>3
<1>7. Covered(T, new, Len(buf) + 1, a.id, a.seq)
  BY <1>1, <1>2, <1>5, <1>6 DEF Covered
<1>8. ASSUME NEW i \in 1 .. Len(new)
      PROVE  Covered(T, new, i - 1, new[i].id, new[i].seq - 1)
  <2>1. CASE i \in 1 .. Len(buf)
    BY <1>1, <1>2, <1>3, <2>1 DEF Chained
  <2>2. CASE i = Len(buf) + 1
    BY <1>1, <1>2, <1>6, <2>2
  <2> QED
    BY <1>1, <1>2, <2>1, <2>2
<1>9. \A b \in T : Covered(T, new, 0, b.id, b.seq - 1)
  BY <1>1, <1>3 DEF Chained
<1>10. Chained(T, new)
  BY <1>2, <1>8, <1>9 DEF Chained
<1> QED
  BY <1>1, <1>2, <1>3, <1>4, <1>7, <1>10 DEF new

\* The producer delivers in order: what a failure leaves in the topic has no gap.
LEMMA DeliverSome ==
  ASSUME NEW T, NEW buf, Chained(T, buf), NEW k \in 0 .. Len(buf)
  PROVE  LET U == T \cup ToSet(SubSeq(buf, 1, k)) IN
         /\ Chained(U, << >>)
         /\ \A id, n : Covered(T, buf, k, id, n) => Covered(U, << >>, 0, id, n)
<1> DEFINE U == T \cup ToSet(SubSeq(buf, 1, k))
<1>1. buf \in Seq(Sent) /\ T \subseteq Sent
  BY DEF Chained
<1>2. U = T \cup {buf[j] : j \in 1 .. k}
  <2>1. DOMAIN SubSeq(buf, 1, k) = 1 .. k /\ \A j \in 1 .. k : SubSeq(buf, 1, k)[j] = buf[j]
    BY <1>1
  <2> QED
    BY <2>1 DEF ToSet
<1>3. U \subseteq Sent
  BY <1>1, <1>2
<1> HIDE DEF U
<1>4. \A id, n : \A i \in 0 .. k : Covered(T, buf, i, id, n) => Covered(U, << >>, 0, id, n)
  BY <1>2 DEF Covered
<1>5. ASSUME NEW a \in U
      PROVE  Covered(U, << >>, 0, a.id, a.seq - 1)
  <2>1. CASE a \in T
    BY <1>4, <2>1 DEF Chained
  <2>2. ASSUME NEW j \in 1 .. k, a = buf[j]
        PROVE  Covered(U, << >>, 0, a.id, a.seq - 1)
    <3>1. Covered(T, buf, j - 1, buf[j].id, buf[j].seq - 1) /\ j - 1 \in 0 .. k
      BY <1>1 DEF Chained
    <3> QED
      BY <1>4, <2>2, <3>1
  <2> QED
    BY <1>2, <2>1, <2>2
<1>6. Chained(U, << >>)
  BY <1>3, <1>5 DEF Chained
<1>7. \A id, n : Covered(T, buf, k, id, n) => Covered(U, << >>, 0, id, n)
  BY <1>4
<1> QED
  BY <1>6, <1>7, Zenon DEF U

\* The fields of the open incident.
LEMMA ReadsReported ==
  ASSUME st \in Incident
  PROVE  st.last \in Reported /\ st.id \in Nat /\ st.seq \in Nat \ {0} /\ st.rank \in 0 .. 4
         /\ st.count \in Nat
BY DEF Incident

\* What an alert takes from the incident and the finding (alerts.py:69-118).
LEMMA AlertSent ==
  ASSUME NEW s, NEW f, NEW status \in Statuses, s.id \in Nat, s.seq \in Nat \ {0},
         s.rank \in 0 .. 4, s.count \in Nat, f.subtype \in Subtypes, f.obs \in Nat
  PROVE  /\ Alert(s, f, status) \in Sent
         /\ Alert(s, f, status).id = s.id /\ Alert(s, f, status).seq = s.seq
BY DEF Alert, Sent

\* Which update an incident is at.
LEMMA OpenedAt ==
  ASSUME NEW f \in Reported
  PROVE  LET a == Alert(Opened(f), f, "new") IN
         a \in Sent /\ a.id = Opened(f).id /\ a.seq = 1 /\ Opened(f).seq = 1
<1>1. Opened(f).seq = 1
  BY DEF Opened
<1>2. Opened(f).id \in Nat /\ Opened(f).rank \in 0 .. 4 /\ Opened(f).count \in Nat
  BY OpenedType DEF Incident
<1>3. f.subtype \in Subtypes /\ f.obs \in Nat /\ Opened(f).seq \in Nat \ {0}
  BY <1>1, ReportedType
<1>4. "new" \in Statuses
  BY DEF Statuses
<1> QED
  BY <1>1, <1>2, <1>3, <1>4, AlertSent, Zenon

\* A finding that is suppressed takes no update number.
LEMMA MergedAt ==
  ASSUME st \in Incident, NEW f \in Reported
  PROVE  Merged(f).id = st.id /\ Merged(f).seq = st.seq
<1> DEFINE m1 == [st EXCEPT !.obs = Max({st.obs, f.obs})]
           m2 == [m1 EXCEPT !.count = Max({st.count, f.count})]
           m3 == [m2 EXCEPT !.subtypes = st.subtypes \cup {f.subtype}]
           m4 == [m3 EXCEPT !.last = f]
<1> HIDE DEF m1, m2, m3, m4
<1>1. Merged(f) = m4
  BY Zenon DEF Merged, m1, m2, m3, m4
<1>2. DOMAIN st = {"id", "seq", "rank", "emit", "obs", "count", "emitted", "subtypes", "last"}
  BY DEF Incident
<1>3. m1.id = st.id /\ m1.seq = st.seq /\ DOMAIN m1 = DOMAIN st
  BY <1>2 DEF m1
<1>4. m2.id = st.id /\ m2.seq = st.seq /\ DOMAIN m2 = DOMAIN st
  BY <1>2, <1>3 DEF m2
<1>5. m3.id = st.id /\ m3.seq = st.seq /\ DOMAIN m3 = DOMAIN st
  BY <1>2, <1>4 DEF m3
<1>6. m4.id = st.id /\ m4.seq = st.seq
  BY <1>2, <1>5 DEF m4
<1> QED
  BY <1>1, <1>6, Zenon

\* An update takes one.
LEMMA UpdatedAt ==
  ASSUME st \in Incident, NEW f \in Reported
  PROVE  Updated(f).id = st.id /\ Updated(f).seq = st.seq + 1
<1> DEFINE m == Merged(f)
           u1 == [m EXCEPT !.seq = m.seq + 1]
           u2 == [u1 EXCEPT !.rank = Max({m.rank, f.rank})]
           u3 == [u2 EXCEPT !.emit = f.obs]
           u4 == [u3 EXCEPT !.emitted = m.count]
<1>1. m.id = st.id /\ m.seq = st.seq /\ m \in Incident
  BY MergedAt, MergedType
<1> HIDE DEF m, u1, u2, u3, u4
<1>2. DOMAIN m = {"id", "seq", "rank", "emit", "obs", "count", "emitted", "subtypes", "last"}
  BY <1>1 DEF Incident
<1>3. u1.id = st.id /\ u1.seq = st.seq + 1 /\ DOMAIN u1 = DOMAIN m
  BY <1>1, <1>2 DEF u1
<1>4. u2.id = st.id /\ u2.seq = st.seq + 1 /\ DOMAIN u2 = DOMAIN m
  BY <1>2, <1>3 DEF u2
<1>5. u3.id = st.id /\ u3.seq = st.seq + 1 /\ DOMAIN u3 = DOMAIN m
  BY <1>2, <1>4 DEF u3
<1>6. u4.id = st.id /\ u4.seq = st.seq + 1
  BY <1>2, <1>5 DEF u4
<1>7. Updated(f) = u4
  BY Zenon DEF Updated, m, u1, u2, u3, u4
<1> QED
  BY <1>6, <1>7, Zenon

\* So does the resolution.
LEMMA ResolvedAt ==
  ASSUME st \in Incident
  PROVE  \E a \in Sent : Resolved(st) = <<a>> /\ a.id = st.id /\ a.seq = st.seq + 1
<1> DEFINE s == [st EXCEPT !.seq = st.seq + 1]
           a == Alert(s, st.last, "resolved")
<1>1. DOMAIN st = {"id", "seq", "rank", "emit", "obs", "count", "emitted", "subtypes", "last"}
  BY DEF Incident
<1>2. s.id = st.id /\ s.seq = st.seq + 1 /\ s.rank = st.rank /\ s.count = st.count
  BY <1>1
<1>3. Resolved(st) = <<a>>
  BY Zenon DEF Resolved
<1> HIDE DEF s
<1>4. st.last.subtype \in Subtypes /\ st.last.obs \in Nat
  BY ReadsReported, ReportedType
<1>5. s.id \in Nat /\ s.seq \in Nat \ {0} /\ s.rank \in 0 .. 4 /\ s.count \in Nat
  BY <1>2, ReadsReported
<1>6. "resolved" \in Statuses
  BY DEF Statuses
<1>7. a \in Sent /\ a.id = st.id /\ a.seq = st.seq + 1
  BY <1>2, <1>4, <1>5, <1>6, AlertSent, Zenon
<1> QED
  BY <1>3, <1>7

\* The next alert joins the buffer.
LEMMA SendOne ==
  ASSUME NEW a \in Sent, Chained(topic, buffer), topic' = topic, buffer' = buffer \o <<a>>,
         Covered(topic, buffer, Len(buffer), a.id, a.seq - 1)
  PROVE  /\ Chained(topic, buffer)'
         /\ Covered(topic', buffer', Len(buffer'), a.id, a.seq)
         /\ \A id, n : Covered(topic, buffer, Len(buffer), id, n)
              => Covered(topic', buffer', Len(buffer'), id, n)
<1>1. buffer' = Append(buffer, a)
  BY AppendIsConcat DEF Chained
<1> QED
  BY <1>1, SendNext

\* Every step keeps the updates of an incident in order: each branch sends the
\* next one, a checkpoint moves all alerts to the topic, a failure a prefix.
LEMMA UpdatesStep ==
  TimerInv /\ UpdatesInv /\ [Next]_vars => UpdatesInv'
<1> SUFFICES ASSUME TimerInv, UpdatesInv, [Next]_vars PROVE UpdatesInv'
  OBVIOUS
<1>1. st # None => st \in Incident
  BY DEF TimerInv, Timed
<1>2. Chained(topic, buffer) /\ buffer \in Seq(Sent) /\ Len(buffer) \in Nat
  BY DEF UpdatesInv, Chained
<1>3. ASSUME NEW p \in Partitions, NEW f \in Reported, Open(p, f)
      PROVE  UpdatesInv'
  <2> DEFINE a == Alert(Opened(f), f, "new")
             o == Opened(f)
  <2>1. a \in Sent /\ a.id = o.id /\ a.seq = 1 /\ o.seq = 1
    BY OpenedAt
  <2>2. /\ st' = o /\ topic' = topic /\ ckpt' = ckpt
        /\ buffer' = buffer \o ((IF st = None THEN << >> ELSE Resolved(st)) \o <<a>>)
    BY <1>3 DEF Open, Becomes
  <2> HIDE DEF a, o
  <2>3. \A id : \A buf : Covered(topic, buf, Len(buf), id, 0)
    BY DEF Covered
  <2>4. ckpt.st # None => Covered(topic, buffer', 0, ckpt.st.id, ckpt.st.seq)
    BY DEF UpdatesInv, Covered
  <2>5. CASE st = None
    <3>1. buffer' = buffer \o <<a>>
      BY <2>1, <2>2, <2>5
    <3>2. Covered(topic, buffer, Len(buffer), a.id, a.seq - 1)
      BY <2>1, <2>3
    <3>3. Chained(topic, buffer)' /\ Covered(topic', buffer', Len(buffer'), o.id, o.seq)
      BY <1>2, <2>1, <2>2, <3>1, <3>2, SendOne
    <3> QED
      BY <2>2, <2>4, <3>3 DEF UpdatesInv
  <2>6. CASE st # None
    <3>1. PICK r \in Sent : Resolved(st) = <<r>> /\ r.id = st.id /\ r.seq = st.seq + 1
      BY <1>1, <2>6, ResolvedAt
    <3> DEFINE buf == Append(buffer, r)
    <3>2. Append(buf, a) = buffer'
      <4>1. buffer \o (<<r>> \o <<a>>) = (buffer \o <<r>>) \o <<a>>
        BY <1>2, <2>1, ConcatAssociative
      <4>2. buf = buffer \o <<r>> /\ buf \in Seq(Sent)
        BY <1>2, AppendIsConcat
      <4>3. Append(buf, a) = buf \o <<a>>
        BY <2>1, <4>2, AppendIsConcat
      <4> QED
        BY <2>2, <2>6, <3>1, <4>1, <4>2, <4>3
    <3>3. r.seq - 1 = st.seq
      BY <1>1, <2>6, <3>1, ReadsReported
    <3>4. Covered(topic, buffer, Len(buffer), r.id, r.seq - 1)
      BY <2>6, <3>1, <3>3 DEF UpdatesInv
    <3>5. Chained(topic, buf)
      BY <1>2, <3>4, SendNext
    <3> HIDE DEF buf
    <3>6. Covered(topic, buf, Len(buf), a.id, a.seq - 1)
      BY <2>1, <2>3
    <3>7. Chained(topic, buffer') /\ Covered(topic, buffer', Len(buffer'), o.id, o.seq)
      BY <2>1, <3>2, <3>5, <3>6, SendNext
    <3> QED
      BY <2>2, <2>4, <3>7 DEF UpdatesInv
  <2> QED
    BY <2>5, <2>6
<1>4. ASSUME NEW p \in Partitions, NEW f \in Reported, NEW status \in Statuses, st # None,
             Becomes(p, Updated(f), <<Alert(Updated(f), f, status)>>)
      PROVE  UpdatesInv'
  <2> DEFINE u == Updated(f)
             a == Alert(u, f, status)
  <2>1. u.id = st.id /\ u.seq = st.seq + 1 /\ u \in Incident /\ st.seq \in Nat
    BY <1>1, <1>4, UpdatedAt, UpdatedType, ReadsReported
  <2>2. st' = u /\ topic' = topic /\ ckpt' = ckpt /\ buffer' = buffer \o <<a>>
    BY <1>4 DEF Becomes
  <2> HIDE DEF u
  <2>3. u.id \in Nat /\ u.seq \in Nat \ {0} /\ u.rank \in 0 .. 4 /\ u.count \in Nat
    BY <2>1 DEF Incident
  <2>4. f.subtype \in Subtypes /\ f.obs \in Nat
    BY ReportedType
  <2>5. a \in Sent /\ a.id = u.id /\ a.seq = u.seq
    BY <1>4, <2>3, <2>4, AlertSent
  <2> HIDE DEF a
  <2>6. Covered(topic, buffer, Len(buffer), a.id, a.seq - 1)
    <3>1. a.seq - 1 = st.seq
      BY <2>1, <2>5
    <3> QED
      BY <1>4, <2>1, <2>5, <3>1 DEF UpdatesInv
  <2>7. Chained(topic, buffer)' /\ Covered(topic', buffer', Len(buffer'), u.id, u.seq)
    BY <1>2, <2>2, <2>5, <2>6, SendOne
  <2> QED
    BY <2>2, <2>7 DEF UpdatesInv, Covered
<1>5. ASSUME NEW p \in Partitions, NEW f \in Reported, Escalate(p, f)
      PROVE  UpdatesInv'
  <2>1. "escalated" \in Statuses
    BY DEF Statuses
  <2>2. /\ st # None
        /\ Becomes(p, Updated(f), <<Alert(Updated(f), f, "escalated")>>)
    BY <1>5 DEF Escalate, Joins
  <2> QED
    BY <1>4, <2>1, <2>2, Zenon
<1>6. ASSUME NEW p \in Partitions, NEW f \in Reported, Update(p, f)
      PROVE  UpdatesInv'
  <2>1. "updated" \in Statuses
    BY DEF Statuses
  <2>2. /\ st # None
        /\ Becomes(p, Updated(f), <<Alert(Updated(f), f, "updated")>>)
    BY <1>6 DEF Update, Joins
  <2> QED
    BY <1>4, <2>1, <2>2, Zenon
<1>7. ASSUME NEW p \in Partitions, NEW f \in Reported, Suppress(p, f)
      PROVE  UpdatesInv'
  <2>1. st # None /\ st' = Merged(f) /\ UNCHANGED <<topic, ckpt>> /\ buffer' = buffer \o << >>
    BY <1>7 DEF Suppress, Joins, Becomes
  <2>2. buffer' = buffer
    BY <1>2, <2>1
  <2>3. st'.id = st.id /\ st'.seq = st.seq
    BY <1>1, <2>1, MergedAt
  <2> QED
    BY <2>1, <2>2, <2>3 DEF UpdatesInv
<1>8. ASSUME NEW w \in 0 .. MaxTime, Advance(w)
      PROVE  UpdatesInv'
  <2>1. UNCHANGED <<topic, ckpt>>
    BY <1>8 DEF Advance
  <2>2. CASE Expires(w)
    <3>1. st # None /\ st' = None /\ buffer' = buffer \o Resolved(st)
      BY <1>8, <2>2 DEF Advance, Expires
    <3>2. PICK r \in Sent : Resolved(st) = <<r>> /\ r.id = st.id /\ r.seq = st.seq + 1
      BY <1>1, <3>1, ResolvedAt
    <3>3. r.seq - 1 = st.seq
      BY <1>1, <3>1, <3>2, ReadsReported
    <3>4. Covered(topic, buffer, Len(buffer), r.id, r.seq - 1)
      BY <3>1, <3>2, <3>3 DEF UpdatesInv
    <3>5. Chained(topic, buffer)'
      BY <1>2, <2>1, <3>1, <3>2, <3>4, SendOne
    <3> QED
      BY <2>1, <3>1, <3>5 DEF UpdatesInv, Covered
  <2>3. CASE ~Expires(w)
    BY <1>8, <2>1, <2>3 DEF Advance, UpdatesInv
  <2> QED
    BY <2>2, <2>3
<1>9. CASE Checkpoint
  <2>1. /\ st' = st /\ ckpt'.st = st /\ buffer' = << >>
        /\ topic' = topic \cup ToSet(SubSeq(buffer, 1, Len(buffer)))
    BY <1>2, <1>9, SubSeqFull DEF Checkpoint
  <2>2. /\ Chained(topic', << >>)
        /\ \A id, n : Covered(topic, buffer, Len(buffer), id, n) => Covered(topic', << >>, 0, id, n)
    BY <1>2, <2>1, DeliverSome
  <2> QED
    BY <2>1, <2>2 DEF UpdatesInv
<1>10. CASE Restart
  <2>1. PICK n \in 0 .. Len(buffer) : topic' = topic \cup ToSet(SubSeq(buffer, 1, n))
    BY <1>10 DEF Restart
  <2>2. st' = ckpt.st /\ ckpt' = ckpt /\ buffer' = << >>
    BY <1>10 DEF Restart
  <2>3. Chained(topic', << >>)
    BY <1>2, <2>1, DeliverSome
  <2>4. topic \subseteq topic'
    BY <2>1
  <2>5. ckpt.st # None => Covered(topic', << >>, 0, ckpt.st.id, ckpt.st.seq)
    BY <2>4 DEF UpdatesInv, Covered
  <2> QED
    BY <2>2, <2>3, <2>5 DEF UpdatesInv
<1>11. CASE UNCHANGED vars
  BY <1>11 DEF vars, UpdatesInv
<1> QED
  BY <1>3, <1>5, <1>6, <1>7, <1>8, <1>9, <1>10, <1>11 DEF Next, Process

\* An update that reached the topic was preceded there by all updates before it,
\* whatever the failures (job.py:43, incidents.py:38-113).
THEOREM NoUpdateMissingEver == Spec => []NoUpdateMissing
<1>1. Init => UpdatesInv
  BY DEF Init, UpdatesInv, Chained
<1>2. UpdatesInv => NoUpdateMissing
  BY DEF UpdatesInv, Chained, Covered, Sent, NoUpdateMissing
<1> QED
  BY <1>1, <1>2, UpdatesStep, TimerInvariant, PTL DEF Spec

-----------------------------------------------------------------------------
(***************************************************************************)
(* What the alerts show                                                    *)
(***************************************************************************)

\* The alerts A show an incident: its severity and its subtypes.
Told(s, A) ==
  /\ \E a \in A : a.id = s.id /\ a.rank >= s.rank
  /\ \A t \in s.subtypes : \E a \in A : a.id = s.id /\ a.subtype = t

\* Every finding that was processed has its incident, and none before the checkpoint
\* is ahead of those after it.
PositionsInv ==
  /\ log \in [Partitions -> Seq(Reported)] /\ member \in [Partitions -> Seq(Nat)]
  /\ pos \in [Partitions -> Nat] /\ ckpt.pos \in [Partitions -> Nat]
  /\ \A p \in Partitions :
       ckpt.pos[p] <= pos[p] /\ pos[p] <= Len(log[p]) /\ Len(member[p]) = pos[p]

\* The alerts of the open incident may be in the buffer; those of the incident that a
\* failure brings back are in the topic.
ShownInv ==
  /\ PositionsInv
  /\ st # None => Told(st, Alerts)
  /\ ckpt.st # None => Told(ckpt.st, topic)
  /\ EveryFindingShown

\* More alerts show more.
LEMMA ToldStays ==
  ASSUME NEW s, NEW A, NEW B, A \subseteq B, Told(s, A)
  PROVE  Told(s, B)
BY DEF Told

\* The alerts of two buffers.
LEMMA ToSetConcat ==
  ASSUME NEW S, NEW s \in Seq(S), NEW t \in Seq(S)
  PROVE  ToSet(s \o t) = ToSet(s) \cup ToSet(t)
<1> DEFINE u == s \o t
<1>1. /\ Len(u) = Len(s) + Len(t) /\ DOMAIN u = 1 .. Len(u) /\ Len(s) \in Nat /\ Len(t) \in Nat
      /\ DOMAIN s = 1 .. Len(s) /\ DOMAIN t = 1 .. Len(t)
      /\ \A i \in 1 .. Len(s) + Len(t) : u[i] = IF i <= Len(s) THEN s[i] ELSE t[i - Len(s)]
  BY ConcatProperties
<1> HIDE DEF u
<1>2. ASSUME NEW i \in 1 .. Len(u) PROVE u[i] \in ToSet(s) \cup ToSet(t)
  <2>1. CASE i <= Len(s)
    BY <1>1, <2>1 DEF ToSet
  <2>2. CASE ~(i <= Len(s))
    <3>1. i - Len(s) \in 1 .. Len(t) /\ u[i] = t[i - Len(s)]
      BY <1>1, <2>2
    <3> QED BY <1>1, <3>1 DEF ToSet
  <2> QED BY <2>1, <2>2
<1>3. ASSUME NEW i \in 1 .. Len(s) PROVE s[i] \in ToSet(u)
  <2>1. i \in 1 .. Len(u) /\ u[i] = s[i]
    BY <1>1
  <2> QED BY <1>1, <2>1 DEF ToSet
<1>4. ASSUME NEW i \in 1 .. Len(t) PROVE t[i] \in ToSet(u)
  <2>1. Len(s) + i \in 1 .. Len(u) /\ u[Len(s) + i] = t[i]
    BY <1>1
  <2> QED BY <1>1, <2>1 DEF ToSet
<1> QED
  BY <1>1, <1>2, <1>3, <1>4 DEF ToSet, u

\* What an alert says of its incident and its finding.
LEMMA AlertSays ==
  ASSUME NEW s, NEW f, NEW status
  PROVE  LET a == Alert(s, f, status) IN
         a.id = s.id /\ a.rank = s.rank /\ a.subtype = f.subtype
BY DEF Alert

\* The severity and the subtypes of an incident that was just opened, ...
LEMMA OpenedShows ==
  ASSUME NEW f
  PROVE  Opened(f).rank = f.rank /\ Opened(f).subtypes = {f.subtype}
BY DEF Opened

\* ... after a further finding, ...
LEMMA MergedShows ==
  ASSUME st \in Incident, NEW f \in Reported
  PROVE  Merged(f).rank = st.rank /\ Merged(f).subtypes = st.subtypes \cup {f.subtype}
<1> DEFINE m1 == [st EXCEPT !.obs = Max({st.obs, f.obs})]
           m2 == [m1 EXCEPT !.count = Max({st.count, f.count})]
           m3 == [m2 EXCEPT !.subtypes = st.subtypes \cup {f.subtype}]
           m4 == [m3 EXCEPT !.last = f]
<1> HIDE DEF m1, m2, m3, m4
<1>1. Merged(f) = m4
  BY Zenon DEF Merged, m1, m2, m3, m4
<1>2. DOMAIN st = {"id", "seq", "rank", "emit", "obs", "count", "emitted", "subtypes", "last"}
  BY DEF Incident
<1>3. m1.rank = st.rank /\ DOMAIN m1 = DOMAIN st
  BY <1>2 DEF m1
<1>4. m2.rank = st.rank /\ DOMAIN m2 = DOMAIN st
  BY <1>2, <1>3 DEF m2
<1>5. m3.rank = st.rank /\ m3.subtypes = st.subtypes \cup {f.subtype} /\ DOMAIN m3 = DOMAIN st
  BY <1>2, <1>4 DEF m3
<1>6. m4.rank = st.rank /\ m4.subtypes = st.subtypes \cup {f.subtype}
  BY <1>2, <1>5 DEF m4
<1> QED
  BY <1>1, <1>6, Zenon

\* ... and after an update.
LEMMA UpdatedShows ==
  ASSUME st \in Incident, NEW f \in Reported
  PROVE  /\ Updated(f).rank >= f.rank
         /\ Updated(f).subtypes = st.subtypes \cup {f.subtype}
<1> DEFINE m == Merged(f)
           u1 == [m EXCEPT !.seq = m.seq + 1]
           u2 == [u1 EXCEPT !.rank = Max({m.rank, f.rank})]
           u3 == [u2 EXCEPT !.emit = f.obs]
           u4 == [u3 EXCEPT !.emitted = m.count]
<1>1. m.subtypes = st.subtypes \cup {f.subtype} /\ m \in Incident
  BY MergedShows, MergedType
<1> HIDE DEF m, u1, u2, u3, u4
<1>2. DOMAIN m = {"id", "seq", "rank", "emit", "obs", "count", "emitted", "subtypes", "last"}
      /\ m.rank \in 0 .. 4 /\ f.rank \in 0 .. 4
  BY <1>1, ReportedType DEF Incident
<1>3. Max({m.rank, f.rank}) >= f.rank
  BY <1>2, NatInt, MaxPair
<1>4. u1.subtypes = m.subtypes /\ DOMAIN u1 = DOMAIN m
  BY <1>2 DEF u1
<1>5. u2.subtypes = m.subtypes /\ u2.rank = Max({m.rank, f.rank}) /\ DOMAIN u2 = DOMAIN m
  BY <1>2, <1>4 DEF u2
<1>6. u3.subtypes = m.subtypes /\ u3.rank = u2.rank /\ DOMAIN u3 = DOMAIN m
  BY <1>2, <1>5 DEF u3
<1>7. u4.subtypes = m.subtypes /\ u4.rank = u2.rank
  BY <1>2, <1>6 DEF u4
<1>8. Updated(f) = u4
  BY Zenon DEF Updated, m, u1, u2, u3, u4
<1>9. u4.rank >= f.rank /\ u4.subtypes = st.subtypes \cup {f.subtype}
  BY <1>1, <1>3, <1>5, <1>7
<1> QED
  BY <1>8, <1>9, Zenon

\* Where the next finding stands.
LEMMA ArrivesAt ==
  ASSUME PositionsInv, NEW p \in Partitions, NEW f \in Reported, Arrives(p, f)
  PROVE  /\ log' \in [Partitions -> Seq(Reported)]
         /\ pos[p] + 1 <= Len(log'[p]) /\ log'[p][pos[p] + 1] = f
         /\ \A q \in Partitions :
              /\ Len(log[q]) <= Len(log'[q])
              /\ \A i \in 1 .. Len(log[q]) : log'[q][i] = log[q][i]
<1>1. /\ log[p] \in Seq(Reported) /\ pos[p] \in Nat /\ pos[p] <= Len(log[p])
      /\ \A q \in Partitions : Len(log[q]) \in Nat
  BY DEF PositionsInv
<1>2. CASE log' = log /\ pos[p] < Len(log[p]) /\ f = log[p][pos[p] + 1]
  BY <1>1, <1>2 DEF PositionsInv
<1>3. CASE pos[p] = Len(log[p]) /\ log' = [log EXCEPT ![p] = Append(log[p], f)]
  <2>1. log'[p] = Append(log[p], f) /\ \A q \in Partitions \ {p} : log'[q] = log[q]
    BY <1>3 DEF PositionsInv
  <2>2. /\ Append(log[p], f) \in Seq(Reported) /\ Len(Append(log[p], f)) = Len(log[p]) + 1
        /\ Append(log[p], f)[Len(log[p]) + 1] = f
        /\ \A i \in 1 .. Len(log[p]) : Append(log[p], f)[i] = log[p][i]
    BY <1>1, AppendProperties
  <2>3. log' \in [Partitions -> Seq(Reported)]
    BY <1>3, <2>2 DEF PositionsInv
  <2>4. ASSUME NEW q \in Partitions
        PROVE  /\ Len(log[q]) <= Len(log'[q])
               /\ \A i \in 1 .. Len(log[q]) : log'[q][i] = log[q][i]
    <3>1. CASE q = p
      BY <1>1, <2>1, <2>2, <3>1
    <3>2. CASE q # p
      BY <1>1, <2>1, <3>2
    <3> QED BY <3>1, <3>2
  <2> QED
    BY <1>1, <1>3, <2>1, <2>2, <2>3, <2>4
<1> QED
  BY <1>2, <1>3 DEF Arrives

LEMMA ResolvedIs ==
  ASSUME st \in Incident
  PROVE  Resolved(st) \in Seq(Sent)
<1>1. PICK a \in Sent : Resolved(st) = <<a>>
  BY ResolvedAt
<1> QED BY <1>1

\* A finding is processed: its incident and what goes out show it.
LEMMA BecomesShown ==
  ASSUME ShownInv, topic \subseteq Sent, buffer \in Seq(Sent), NEW p \in Partitions,
         NEW f \in Reported, Arrives(p, f),
         NEW s \in Incident, NEW out \in Seq(Sent), Becomes(p, s, out),
         Told(s, Alerts \cup ToSet(out)), s.rank >= f.rank, f.subtype \in s.subtypes
  PROVE  ShownInv'
<1>1. /\ st' = s /\ topic' = topic /\ ckpt' = ckpt /\ buffer' = buffer \o out
      /\ pos' = [pos EXCEPT ![p] = pos[p] + 1]
      /\ member' = [member EXCEPT ![p] = Append(member[p], s.id)]
  BY DEF Becomes
<1>2. Alerts' = Alerts \cup ToSet(out)
  BY <1>1, ToSetConcat DEF Alerts
<1>3. /\ pos \in [Partitions -> Nat] /\ member \in [Partitions -> Seq(Nat)]
      /\ \A q \in Partitions :
           /\ ckpt.pos[q] \in Nat /\ ckpt.pos[q] <= pos[q] /\ pos[q] <= Len(log[q])
           /\ Len(member[q]) = pos[q] /\ Len(log[q]) \in Nat
  BY DEF ShownInv, PositionsInv
<1>4. /\ log' \in [Partitions -> Seq(Reported)]
      /\ pos[p] + 1 <= Len(log'[p]) /\ log'[p][pos[p] + 1] = f
      /\ \A q \in Partitions :
           /\ Len(log[q]) <= Len(log'[q])
           /\ \A i \in 1 .. Len(log[q]) : log'[q][i] = log[q][i]
  BY ArrivesAt DEF ShownInv
<1>5. /\ s.id \in Nat /\ s.rank \in 0 .. 4 /\ f.rank \in 0 .. 4
  BY ReportedType DEF Incident
<1>6. /\ Append(member[p], s.id) \in Seq(Nat) /\ Len(Append(member[p], s.id)) = pos[p] + 1
      /\ Append(member[p], s.id)[pos[p] + 1] = s.id
      /\ \A i \in 1 .. pos[p] : Append(member[p], s.id)[i] = member[p][i]
  BY <1>3, <1>5, AppendProperties
<1>7. /\ pos' \in [Partitions -> Nat] /\ pos'[p] = pos[p] + 1
      /\ \A q \in Partitions \ {p} : pos'[q] = pos[q]
  BY <1>1, <1>3
<1>8. /\ member' \in [Partitions -> Seq(Nat)] /\ member'[p] = Append(member[p], s.id)
      /\ \A q \in Partitions \ {p} : member'[q] = member[q]
  BY <1>1, <1>3, <1>6
<1>9. \A q \in Partitions : \A i \in 1 .. pos[q] :
        log'[q][i] = log[q][i] /\ member'[q][i] = member[q][i]
  <2> TAKE q \in Partitions
  <2> TAKE i \in 1 .. pos[q]
  <2>1. i \in 1 .. Len(log[q])
    BY <1>3
  <2>2. CASE q = p
    BY <1>4, <1>6, <1>8, <2>1, <2>2
  <2>3. CASE q # p
    BY <1>4, <1>8, <2>1, <2>3
  <2> QED BY <2>2, <2>3
<1>10. PositionsInv'
  <2>1. ASSUME NEW q \in Partitions
        PROVE  ckpt.pos[q] <= pos'[q] /\ pos'[q] <= Len(log'[q]) /\ Len(member'[q]) = pos'[q]
    <3>1. Len(log'[q]) \in Nat
      BY <1>4
    <3>2. CASE q = p
      <4>1. ckpt.pos[p] <= pos[p] + 1
        BY <1>3
      <4> QED BY <1>4, <1>6, <1>7, <1>8, <3>2, <4>1
    <3>3. CASE q # p
      <4>1. pos'[q] = pos[q] /\ member'[q] = member[q]
        BY <1>7, <1>8, <3>3
      <4>2. pos[q] \in Nat /\ pos[q] <= Len(log[q]) /\ Len(log[q]) <= Len(log'[q])
        BY <1>3, <1>4
      <4>3. pos[q] <= Len(log'[q])
        BY <1>3, <3>1, <4>2
      <4> QED BY <1>3, <4>1, <4>3
    <3> QED BY <3>2, <3>3
  <2> QED
    BY <1>1, <1>4, <1>7, <1>8, <2>1 DEF ShownInv, PositionsInv
<1>11. ASSUME NEW q \in Partitions, NEW i \in 1 .. pos'[q]
       PROVE  Shows(Alerts, q, i)'
  <2>1. CASE i \in 1 .. pos[q]
    <3>1. Shows(Alerts, q, i)
      BY <2>1 DEF ShownInv, EveryFindingShown
    <3>2. log'[q][i] = log[q][i] /\ member'[q][i] = member[q][i]
      BY <1>9, <2>1
    <3> QED
      BY <1>2, <3>1, <3>2 DEF Shows
  <2>2. CASE i \notin 1 .. pos[q]
    <3>1. q = p /\ i = pos[p] + 1
      BY <1>3, <1>7, <2>2
    <3>2. log'[q][i] = f /\ member'[q][i] = s.id
      BY <1>4, <1>6, <1>8, <3>1
    <3>3. PICK a \in Alerts' : a.id = s.id /\ a.rank >= s.rank
      BY <1>2 DEF Told
    <3>4. a.rank \in Int
      <4>1. a \in Sent
        BY <1>2, <3>3 DEF Alerts, ToSet
      <4> QED BY <4>1 DEF Sent
    <3>5. a.rank >= f.rank
      BY <1>5, <3>3, <3>4
    <3>6. \E b \in Alerts' : b.id = s.id /\ b.subtype = f.subtype
      BY <1>2 DEF Told
    <3> QED
      BY <3>2, <3>3, <3>5, <3>6 DEF Shows
  <2> QED
    BY <2>1, <2>2
<1>12. ASSUME NEW q \in Partitions, NEW i \in 1 .. ckpt.pos[q]
       PROVE  Shows(topic, q, i)'
  <2>1. i \in 1 .. pos[q]
    BY <1>3
  <2>2. Shows(topic, q, i)
    BY <1>3, <2>1 DEF ShownInv, EveryFindingShown
  <2>3. log'[q][i] = log[q][i] /\ member'[q][i] = member[q][i]
    BY <1>9, <2>1
  <2> QED
    BY <1>1, <2>2, <2>3 DEF Shows
<1>13. EveryFindingShown'
  BY <1>1, <1>11, <1>12 DEF EveryFindingShown
<1> QED
  BY <1>1, <1>2, <1>10, <1>13 DEF ShownInv

\* No step hides a finding: a finding that goes without an alert adds neither severity nor
\* a subtype, a checkpoint moves the alerts to the topic, and a failure brings back the
\* incident that the topic shows.
LEMMA ShownStep ==
  TimerInv /\ UpdatesInv /\ ShownInv /\ [Next]_vars => ShownInv'
<1> SUFFICES ASSUME TimerInv, UpdatesInv, ShownInv, [Next]_vars PROVE ShownInv'
  OBVIOUS
<1>1. st # None => st \in Incident
  BY DEF TimerInv, Timed
<1>2. topic \subseteq Sent /\ buffer \in Seq(Sent) /\ Len(buffer) \in Nat
  BY DEF UpdatesInv, Chained
<1>3. ASSUME NEW p \in Partitions, NEW f \in Reported, Open(p, f)
      PROVE  ShownInv'
  <2> DEFINE o == Opened(f)
             a == Alert(o, f, "new")
             before == IF st = None THEN << >> ELSE Resolved(st)
  <2>1. Arrives(p, f) /\ Becomes(p, o, before \o <<a>>)
    BY <1>3 DEF Open
  <2>2. o \in Incident /\ o.rank = f.rank /\ o.subtypes = {f.subtype}
    BY OpenedType, OpenedShows
  <2>3. a \in Sent /\ a.id = o.id /\ a.rank = o.rank /\ a.subtype = f.subtype
    BY OpenedAt, AlertSays
  <2> HIDE DEF o, a
  <2>4. before \in Seq(Sent) /\ <<a>> \in Seq(Sent)
    <3>1. st = None => before \in Seq(Sent)
      BY EmptySeq
    <3>2. st # None => before \in Seq(Sent)
      BY <1>1, ResolvedIs
    <3> QED BY <2>3, <3>1, <3>2
  <2> HIDE DEF before
  <2>5. before \o <<a>> \in Seq(Sent) /\ ToSet(before \o <<a>>) = ToSet(before) \cup ToSet(<<a>>)
    BY <2>4, ToSetConcat, ConcatProperties
  <2>6. a \in ToSet(<<a>>)
    BY DEF ToSet
  <2>7. o.rank \in Int
    BY <2>2 DEF Incident
  <2>8. Told(o, Alerts \cup ToSet(before \o <<a>>))
    BY <2>2, <2>3, <2>5, <2>6, <2>7 DEF Told
  <2>9. o.rank >= f.rank /\ f.subtype \in o.subtypes
    BY <2>2, <2>7
  <2> QED
    BY <1>2, <2>1, <2>2, <2>5, <2>8, <2>9, BecomesShown
<1>4. ASSUME NEW p \in Partitions, NEW f \in Reported, NEW status \in Statuses, st # None,
             Arrives(p, f), Becomes(p, Updated(f), <<Alert(Updated(f), f, status)>>)
      PROVE  ShownInv'
  <2> DEFINE u == Updated(f)
             a == Alert(u, f, status)
  <2>1. /\ u \in Incident /\ u.id = st.id /\ u.rank >= f.rank
        /\ u.subtypes = st.subtypes \cup {f.subtype}
    BY <1>1, <1>4, UpdatedType, UpdatedAt, UpdatedShows
  <2>2. u.id \in Nat /\ u.seq \in Nat \ {0} /\ u.rank \in 0 .. 4 /\ u.count \in Nat
    BY <2>1 DEF Incident
  <2> HIDE DEF u
  <2>3. a \in Sent /\ a.id = u.id /\ a.rank = u.rank /\ a.subtype = f.subtype
    BY <1>4, <2>2, AlertSent, AlertSays, ReportedType
  <2>4. Arrives(p, f) /\ Becomes(p, u, <<a>>)
    BY <1>4 DEF u
  <2> HIDE DEF a
  <2>5. a \in ToSet(<<a>>) /\ <<a>> \in Seq(Sent)
    BY <2>3 DEF ToSet
  <2>6. Told(st, Alerts)
    BY <1>4 DEF ShownInv
  <2>7. Told(u, Alerts \cup ToSet(<<a>>))
    BY <2>1, <2>2, <2>3, <2>5, <2>6 DEF Told
  <2> QED
    BY <1>2, <2>1, <2>4, <2>5, <2>7, BecomesShown
<1>5. ASSUME NEW p \in Partitions, NEW f \in Reported, Escalate(p, f)
      PROVE  ShownInv'
  <2>1. "escalated" \in Statuses
    BY DEF Statuses
  <2>2. /\ st # None /\ Arrives(p, f)
        /\ Becomes(p, Updated(f), <<Alert(Updated(f), f, "escalated")>>)
    BY <1>5 DEF Escalate, Joins
  <2> QED
    BY <1>4, <2>1, <2>2, Zenon
<1>6. ASSUME NEW p \in Partitions, NEW f \in Reported, Update(p, f)
      PROVE  ShownInv'
  <2>1. "updated" \in Statuses
    BY DEF Statuses
  <2>2. /\ st # None /\ Arrives(p, f)
        /\ Becomes(p, Updated(f), <<Alert(Updated(f), f, "updated")>>)
    BY <1>6 DEF Update, Joins
  <2> QED
    BY <1>4, <2>1, <2>2, Zenon
<1>7. ASSUME NEW p \in Partitions, NEW f \in Reported, Suppress(p, f)
      PROVE  ShownInv'
  <2> DEFINE m == Merged(f)
  <2>1. st # None /\ Arrives(p, f) /\ Becomes(p, m, << >>)
    BY <1>7 DEF Suppress, Joins
  <2>2. ~(f.rank > st.rank) /\ f.subtype \in st.subtypes
    BY <1>7 DEF Suppress, Escalates, Refines
  <2>3. /\ m \in Incident /\ m.id = st.id /\ m.rank = st.rank
        /\ m.subtypes = st.subtypes \cup {f.subtype}
    BY <1>1, <2>1, MergedType, MergedAt, MergedShows
  <2> HIDE DEF m
  <2>4. m.rank \in 0 .. 4 /\ f.rank \in 0 .. 4
    BY <2>3, ReportedType DEF Incident
  <2>5. m.rank >= f.rank /\ f.subtype \in m.subtypes /\ m.subtypes = st.subtypes
    BY <2>2, <2>3, <2>4
  <2>6. Told(m, Alerts \cup ToSet(<< >>))
    <3>1. Told(st, Alerts)
      BY <2>1 DEF ShownInv
    <3> QED BY <2>3, <2>5, <3>1 DEF Told
  <2>7. << >> \in Seq(Sent)
    BY EmptySeq
  <2> QED
    BY <1>2, <2>1, <2>3, <2>5, <2>6, <2>7, BecomesShown
<1>8. ASSUME NEW w \in 0 .. MaxTime, Advance(w)
      PROVE  ShownInv'
  <2>1. /\ UNCHANGED <<log, pos, member, topic, ckpt>>
        /\ st' = None \/ st' = st
        /\ \E out \in Seq(Sent) : buffer' = buffer \o out
    <3>1. CASE Expires(w)
      <4>1. st # None
        BY <3>1 DEF Expires
      <4>2. Resolved(st) \in Seq(Sent)
        BY <1>1, <4>1, ResolvedIs
      <4> QED BY <1>8, <3>1, <4>2 DEF Advance
    <3>2. CASE ~Expires(w)
      <4>1. << >> \in Seq(Sent) /\ buffer = buffer \o << >>
        BY <1>2, EmptySeq
      <4> QED BY <1>8, <3>2, <4>1 DEF Advance
    <3> QED BY <3>1, <3>2
  <2>2. Alerts \subseteq Alerts'
    BY <1>2, <2>1, ToSetConcat DEF Alerts
  <2>3. PositionsInv'
    BY <2>1 DEF ShownInv, PositionsInv
  <2>4. st' # None => Told(st', Alerts')
    BY <2>1, <2>2, ToldStays DEF ShownInv
  <2>5. EveryFindingShown'
    BY <2>1, <2>2 DEF ShownInv, EveryFindingShown, Shows
  <2> QED
    BY <2>1, <2>3, <2>4, <2>5 DEF ShownInv
<1>9. CASE Checkpoint
  <2>1. /\ st' = st /\ ckpt'.st = st /\ ckpt'.pos = pos /\ UNCHANGED <<log, pos, member>>
        /\ topic' = Alerts /\ buffer' = << >>
    BY <1>9 DEF Checkpoint, Alerts
  <2>2. Alerts' = topic'
    BY <2>1 DEF Alerts, ToSet
  <2>3. PositionsInv'
    BY <2>1 DEF ShownInv, PositionsInv
  <2>4. EveryFindingShown'
    BY <2>1, <2>2 DEF ShownInv, EveryFindingShown, Shows
  <2> QED
    BY <2>1, <2>2, <2>3, <2>4 DEF ShownInv
<1>10. CASE Restart
  <2>1. /\ st' = ckpt.st /\ ckpt' = ckpt /\ log' = log /\ pos' = ckpt.pos
        /\ member' = [p \in Partitions |-> SubSeq(member[p], 1, ckpt.pos[p])]
        /\ topic \subseteq topic'
    BY <1>10 DEF Restart
  <2>2. topic' \subseteq Alerts'
    BY DEF Alerts
  <2>3. ASSUME NEW p \in Partitions
        PROVE  /\ member'[p] \in Seq(Nat) /\ Len(member'[p]) = ckpt.pos[p]
               /\ \A i \in 1 .. ckpt.pos[p] : member'[p][i] = member[p][i]
               /\ ckpt.pos[p] \in Nat /\ ckpt.pos[p] <= pos[p] /\ pos[p] <= Len(log[p])
               /\ Len(log[p]) \in Nat /\ pos[p] \in Nat
    <3>1. /\ member[p] \in Seq(Nat) /\ Len(member[p]) = pos[p] /\ ckpt.pos[p] <= pos[p]
          /\ ckpt.pos[p] \in Nat /\ pos[p] <= Len(log[p]) /\ Len(log[p]) \in Nat
          /\ pos[p] \in Nat
      BY DEF ShownInv, PositionsInv
    <3>2. member'[p] = SubSeq(member[p], 1, ckpt.pos[p])
      BY <2>1
    <3> QED BY <3>1, <3>2, SubSeqProperties
  <2>4. PositionsInv'
    <3>1. member' \in [Partitions -> Seq(Nat)]
      BY <2>1, <2>3
    <3> QED BY <2>1, <2>3, <3>1 DEF ShownInv, PositionsInv
  <2>5. ASSUME NEW p \in Partitions, NEW i \in 1 .. ckpt.pos[p]
        PROVE  Shows(topic, p, i)' /\ Shows(Alerts, p, i)'
    <3>1. Shows(topic, p, i)
      BY <2>3 DEF ShownInv, EveryFindingShown
    <3>2. log'[p][i] = log[p][i] /\ member'[p][i] = member[p][i]
      BY <2>1, <2>3
    <3> QED BY <2>1, <2>2, <3>1, <3>2 DEF Shows
  <2>6. EveryFindingShown'
    BY <2>1, <2>5 DEF EveryFindingShown
  <2>7. ckpt.st # None => Told(ckpt.st, topic') /\ Told(ckpt.st, Alerts')
    BY <2>1, <2>2, ToldStays DEF ShownInv
  <2> QED
    BY <2>1, <2>4, <2>6, <2>7 DEF ShownInv
<1>11. CASE UNCHANGED vars
  BY <1>11 DEF vars, ShownInv, PositionsInv, EveryFindingShown, Shows, Told, Alerts
<1> QED
  BY <1>3, <1>5, <1>6, <1>7, <1>8, <1>9, <1>10, <1>11 DEF Next, Process

LEMMA UpdatesInvariant == Spec => []UpdatesInv
<1>1. Init => UpdatesInv
  BY DEF Init, UpdatesInv, Chained
<1> QED
  BY <1>1, UpdatesStep, TimerInvariant, PTL DEF Spec

LEMMA ShownInvariant == Spec => []ShownInv
<1>1. Init => ShownInv
  <2> SUFFICES ASSUME Init PROVE ShownInv
    OBVIOUS
  <2>1. /\ log = [p \in Partitions |-> << >>] /\ member = log
        /\ pos = [p \in Partitions |-> 0] /\ st = None /\ ckpt.pos = pos /\ ckpt.st = None
    BY DEF Init
  <2>2. << >> \in Seq(Reported) /\ << >> \in Seq(Nat) /\ Len(<< >>) = 0
    BY EmptySeq
  <2>3. PositionsInv
    BY <2>1, <2>2 DEF PositionsInv
  <2>4. EveryFindingShown
    BY <2>1 DEF EveryFindingShown
  <2> QED
    BY <2>1, <2>3, <2>4 DEF ShownInv
<1> QED
  BY <1>1, ShownStep, TimerInvariant, UpdatesInvariant, PTL DEF Spec

\* Every finding shows in the alerts of its incident, with its severity at least and its
\* subtype, and those before the checkpoint in the topic, whatever the failures
\* (incidents.py:38-113, job.py:43).
THEOREM EveryFindingShownEver == Spec => []EveryFindingShown
<1>1. ShownInv => EveryFindingShown
  BY DEF ShownInv
<1> QED
  BY <1>1, ShownInvariant, PTL

-----------------------------------------------------------------------------
(***************************************************************************)
(* Types                                                                   *)
(***************************************************************************)

\* The clocks, the timers and the failures.
ClocksInv ==
  /\ timers \subseteq Nat /\ ckpt.timers \subseteq Nat
  /\ high \in -1 .. MaxTime /\ wm \in -1 .. high /\ crashes \in 0 .. MaxCrashes

\* A finding sets a timer.
LEMMA BecomesClocks ==
  ASSUME ClocksInv, NEW p, NEW s \in Incident, NEW out, Becomes(p, s, out)
  PROVE  ClocksInv'
<1>1. s.obs + Idle \in Nat
  BY IncidentsAssumption DEF Incident
<1>2. BucketUp(s.obs + Idle) \in Nat
  BY <1>1, BucketAbove
<1> QED
  BY <1>2 DEF Becomes, Registered, ClocksInv

LEMMA ClocksStep == TimerInv /\ ClocksInv /\ [Next]_vars => ClocksInv'
<1> SUFFICES ASSUME TimerInv, ClocksInv, [Next]_vars PROVE ClocksInv'
  OBVIOUS
<1>1. st # None => st \in Incident
  BY DEF TimerInv, Timed
<1>2. ASSUME NEW p \in Partitions, NEW f \in Reported, Open(p, f)
      PROVE  ClocksInv'
  BY <1>2, OpenedType, BecomesClocks DEF Open
<1>3. ASSUME NEW p \in Partitions, NEW f \in Reported, Escalate(p, f)
      PROVE  ClocksInv'
  BY <1>1, <1>3, UpdatedType, BecomesClocks DEF Escalate, Joins
<1>4. ASSUME NEW p \in Partitions, NEW f \in Reported, Update(p, f)
      PROVE  ClocksInv'
  BY <1>1, <1>4, UpdatedType, BecomesClocks DEF Update, Joins
<1>5. ASSUME NEW p \in Partitions, NEW f \in Reported, Suppress(p, f)
      PROVE  ClocksInv'
  BY <1>1, <1>5, MergedType, BecomesClocks DEF Suppress, Joins
<1>6. ASSUME NEW w \in 0 .. MaxTime, Advance(w)
      PROVE  ClocksInv'
  <2>1. /\ wm' = w /\ high' = Max({high, w}) /\ timers' \subseteq timers
        /\ UNCHANGED <<ckpt, crashes>>
    BY <1>6 DEF Advance
  <2>2. high \in Int /\ w \in Int /\ MaxTime \in Nat /\ high \in -1 .. MaxTime
    BY IncidentsAssumption DEF ClocksInv
  <2>3. high' \in {high, w} /\ high' >= w
    BY <2>1, <2>2, MaxPair
  <2> QED
    BY <2>1, <2>2, <2>3 DEF ClocksInv
<1>7. CASE Checkpoint
  BY <1>7 DEF Checkpoint, ClocksInv
<1>8. CASE Restart
  BY <1>8, IncidentsAssumption DEF Restart, ClocksInv
<1>9. CASE UNCHANGED vars
  BY <1>9 DEF vars, ClocksInv
<1> QED
  BY <1>2, <1>3, <1>4, <1>5, <1>6, <1>7, <1>8, <1>9 DEF Next, Process

LEMMA ClocksInvariant == Spec => []ClocksInv
<1>1. Init => ClocksInv
  BY IncidentsAssumption DEF Init, ClocksInv
<1> QED
  BY <1>1, ClocksStep, TimerInvariant, PTL DEF Spec

\* Every variable has its type.
THEOREM TypeCorrect == Spec => []TypeOK
<1>1. TimerInv /\ UpdatesInv /\ ShownInv /\ ClocksInv => TypeOK
  <2> SUFFICES ASSUME TimerInv, UpdatesInv, ShownInv, ClocksInv PROVE TypeOK
    OBVIOUS
  <2>1. topic \subseteq Sent /\ buffer \in Seq(Sent)
    BY DEF UpdatesInv, Chained
  <2>2. buffer \in Seq(ToSet(buffer)) /\ ToSet(buffer) \subseteq Sent
    BY <2>1 DEF ToSet
  <2>3. buffer \in Seq(Alerts) /\ Alerts \subseteq Sent
    BY <2>1, <2>2 DEF Alerts
  <2>4. \A a \in Alerts : a.seq \in Nat \ {0}
                          /\ a.status \in {"new", "escalated", "updated", "resolved"}
    BY <2>3 DEF Sent, Statuses
  <2> QED
    BY <2>3, <2>4 DEF TypeOK, TimerInv, Timed, ShownInv, PositionsInv, ClocksInv
<1> QED
  BY <1>1, TimerInvariant, UpdatesInvariant, ShownInvariant, ClocksInvariant, PTL

=============================================================================
