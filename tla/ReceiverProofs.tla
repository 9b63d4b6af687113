--------------------------- MODULE ReceiverProofs ---------------------------
(***************************************************************************)
(* What the receiver guarantees for every window, every size of segments,  *)
(* spool and log, every number of faults and every plan of crashes: first  *)
(* the spool and the publisher, then the duplicate filter, which a restart *)
(* makes of its snapshot and of a fold over the spool.                     *)
(***************************************************************************)
EXTENDS Receiver, SequenceWindowProofs, SequenceTheorems, WellFoundedInduction, TLAPS

\* The spool: its limit, and what is durable is in it.
SpoolInv ==
  /\ log \in Seq(Int) /\ first \in Nat /\ synced \in Nat /\ durable \in Nat
  /\ durable <= Len(log)
  /\ Len(log) - first * SegCap <= MaxRecs

\* The publisher: its positions are in order, what it counts as stored was stored.
PublisherInv ==
  /\ first \in Nat /\ cursor \in Nat /\ cursorFile \in Nat /\ readPos \in Nat
  /\ first * SegCap <= cursorFile /\ cursorFile <= cursor /\ cursor <= readPos
  /\ pc = "release" => cursorFile = cursor
  /\ copies \in [1 .. MaxLog -> Nat]
  /\ \A i \in written : i \in 1 .. MaxLog /\ i <= readPos /\ copies[i] > 0
  /\ acked \subseteq written
  /\ \A i \in 1 .. cursor : i \in 1 .. MaxLog /\ copies[i] > 0

-----------------------------------------------------------------------------
(***************************************************************************)
(* Operators                                                               *)
(***************************************************************************)

\* A set of naturals has a least element.
LEMMA Least ==
  ASSUME NEW S \in SUBSET Nat, S # {}
  PROVE  \E x \in S : \A y \in S : x <= y
<1> DEFINE R == OpToRel(<, Nat)
<1>1. IsWellFoundedOn(R, Nat)
  BY NatLessThanWellFounded
<1>2. \A x, y \in Nat : y < x => <<y, x>> \in R
  BY DEF OpToRel
<1> HIDE DEF R
<1>3. \E x \in S : \A y \in S : ~(<<y, x>> \in R)
  BY <1>1, WFMin
<1>4. \A x, y \in S : ~(<<y, x>> \in R) => x <= y
  <2>1. \A x, y \in Nat : ~(y < x) => x <= y
    OBVIOUS
  <2> QED
    BY <1>2, <2>1, Zenon
<1> QED
  BY <1>3, <1>4, Zenon

\* The contiguous prefix of acknowledged positions ends between the cursor and
\* what was read, and everything up to its end is acknowledged.
LEMMA PrefixExact ==
  ASSUME cursor \in Nat, readPos \in Nat, cursor <= readPos,
         NEW done, readPos + 1 \notin done
  PROVE  /\ Prefix(done) \in cursor .. readPos
         /\ cursor + 1 .. Prefix(done) \subseteq done
<1> DEFINE ends == {c \in cursor .. readPos : c + 1 \notin done}
<1>1. readPos \in ends /\ ends \in SUBSET Nat
  OBVIOUS
<1>2. PICK c \in ends : \A d \in ends : c <= d
  BY <1>1, Least
<1>3. \A i \in cursor + 1 .. c : i \in done
  <2> SUFFICES ASSUME NEW i \in cursor + 1 .. c, i \notin done
               PROVE  FALSE
    OBVIOUS
  <2>1. i - 1 \in cursor .. readPos /\ (i - 1) + 1 = i /\ i - 1 < c
    BY <1>1, <1>2
  <2>2. i - 1 \in ends
    BY <2>1
  <2> QED
    BY <1>1, <1>2, <2>1, <2>2
<1>4. c \in cursor .. readPos /\ cursor + 1 .. c \subseteq done /\ c + 1 \notin done
  BY <1>2, <1>3
<1> QED
  BY <1>4 DEF Prefix

\* The larger and the smaller of two numbers.
LEMMA Pairs ==
  ASSUME NEW a \in Int, NEW b \in Int
  PROVE  /\ Max({a, b}) \in {a, b} /\ Max({a, b}) >= a /\ Max({a, b}) >= b
         /\ Min({a, b}) \in {a, b} /\ Min({a, b}) <= a /\ Min({a, b}) <= b
<1>1. \E x \in {a, b} : \A y \in {a, b} : x >= y
  OBVIOUS
<1>2. \E x \in {a, b} : \A y \in {a, b} : x =< y
  OBVIOUS
<1>3. Max({a, b}) \in {a, b} /\ \A y \in {a, b} : Max({a, b}) >= y
  BY <1>1 DEF Max
<1>4. Min({a, b}) \in {a, b} /\ \A y \in {a, b} : Min({a, b}) =< y
  BY <1>2 DEF Min
<1> QED
  BY <1>3, <1>4

\* The segment of a position starts before it.
LEMMA SegmentBelow ==
  ASSUME NEW pos \in Nat
  PROVE  Segment(pos) \in Int /\ Segment(pos) * SegCap <= pos
<1> DEFINE a == pos - 1
<1>1. a \in Int /\ SegCap \in Nat \ {0}
  BY ReceiverAssumption
<1>2. a = SegCap * (a \div SegCap) + (a % SegCap) /\ a % SegCap \in 0 .. SegCap - 1
      /\ a \div SegCap \in Int
  BY <1>1
<1>3. SegCap * (a \div SegCap) = (a \div SegCap) * SegCap
  BY <1>1, <1>2
<1> QED
  BY <1>1, <1>2, <1>3 DEF Segment

\* Multiplication by a natural is monotone.
LEMMA TimesMonotone ==
  ASSUME NEW a \in Int, NEW b \in Int, NEW n \in Nat, a <= b
  PROVE  a * n <= b * n
<1>1. b - a \in Nat
  OBVIOUS
<1>2. \A d \in Nat : d * n \in Nat
  OBVIOUS
<1>3. (b - a) * n \in Nat
  BY <1>1, <1>2
<1>4. (b - a) * n = b * n - a * n
  OBVIOUS
<1>5. a * n \in Int /\ b * n \in Int
  OBVIOUS
<1> QED
  BY <1>3, <1>4, <1>5

\* Releasing never deletes a segment past pos, and brings no segment back.
LEMMA OldestBelow ==
  ASSUME first \in Nat, log \in Seq(Int), NEW pos \in Nat, first * SegCap <= pos
  PROVE  Oldest(pos) \in Nat /\ Oldest(pos) * SegCap <= pos /\ Oldest(pos) >= first
<1> DEFINE low == Min({Segment(pos), Segment(Len(log))})
<1>1. Len(log) \in Nat /\ SegCap \in Nat \ {0}
  BY ReceiverAssumption, LenProperties
<1>2. Segment(pos) \in Int /\ Segment(pos) * SegCap <= pos /\ Segment(Len(log)) \in Int
  BY <1>1, SegmentBelow
<1>3. low \in Int /\ low <= Segment(pos)
  BY <1>2, Pairs
<1> HIDE DEF low
<1>4. low * SegCap <= Segment(pos) * SegCap
  BY <1>1, <1>2, <1>3, TimesMonotone
<1>5. low * SegCap <= pos
  <2>1. low * SegCap \in Int /\ Segment(pos) * SegCap \in Int
    BY <1>1, <1>2, <1>3
  <2>2. \A x, y, z \in Int : x <= y /\ y <= z => x <= z
    OBVIOUS
  <2>3. pos \in Int
    OBVIOUS
  <2> QED
    BY <1>2, <1>4, <2>1, <2>2, <2>3, Zenon
<1>6. Max({first, low}) \in {first, low} /\ Max({first, low}) >= first
  <2>1. first \in Int
    OBVIOUS
  <2> QED
    BY <1>3, <2>1, Pairs, Zenon
<1>7. Oldest(pos) = Max({first, low})
  BY DEF Oldest, low
<1> QED
  BY <1>3, <1>5, <1>6, <1>7

-----------------------------------------------------------------------------
(***************************************************************************)
(* The spool                                                               *)
(***************************************************************************)

LEMMA InitSpool == Init => SpoolInv
<1> SUFFICES ASSUME Init PROVE SpoolInv
  OBVIOUS
<1>1. log = << >> /\ first = 0 /\ synced = 0 /\ durable = 0
  BY DEF Init
<1>2. << >> \in Seq(Int) /\ Len(<< >>) = 0
  OBVIOUS
<1> QED
  BY <1>1, <1>2, ReceiverAssumption DEF SpoolInv

\* A record more, where there is room for it.
LEMMA AppendSpool ==
  ASSUME SpoolInv, ~Full, NEW rec \in Int, log' = Append(log, rec), UNCHANGED first
  PROVE  /\ log' \in Seq(Int) /\ Len(log') = Len(log) + 1
         /\ Len(log') - first' * SegCap <= MaxRecs
<1>1. log \in Seq(Int) /\ Len(log) \in Nat /\ first \in Nat
  BY LenProperties DEF SpoolInv
<1>2. log' \in Seq(Int) /\ Len(log') = Len(log) + 1
  BY <1>1
<1>3. first * SegCap \in Int /\ MaxRecs \in Int
  BY <1>1, ReceiverAssumption
<1>4. Len(log) - first * SegCap < MaxRecs
  BY <1>1, <1>3 DEF Full
<1> QED
  BY <1>1, <1>2, <1>3, <1>4

\* append, in every way the receive thread calls it.
LEMMA TryAppendSpool ==
  ASSUME SpoolInv, UNCHANGED <<first, synced>>, NEW rec \in Int,
         TryAppend(rec) \/ (~Full /\ Appended(rec)) \/ UNCHANGED <<log, durable, dirty>>
  PROVE  SpoolInv'
<1>1. CASE UNCHANGED <<log, durable, dirty>>
  BY <1>1 DEF SpoolInv
<1>2. CASE ~Full /\ Appended(rec)
  <2>1. log' = Append(log, rec) /\ durable' = IF Len(log) % SegCap = 0 THEN Len(log) ELSE durable
    BY <1>2 DEF Appended
  <2>2. Len(log) \in Nat
    BY LenProperties DEF SpoolInv
  <2>3. /\ log' \in Seq(Int) /\ Len(log') = Len(log) + 1
        /\ Len(log') - first' * SegCap <= MaxRecs
    BY <1>2, <2>1, AppendSpool
  <2>4. durable' \in Nat /\ durable' <= Len(log')
    BY <2>1, <2>2, <2>3 DEF SpoolInv
  <2> QED
    BY <2>3, <2>4 DEF SpoolInv
<1> QED
  BY <1>1, <1>2 DEF TryAppend

LEMMA HousekeepingSpool ==
  ASSUME SpoolInv, Housekeeping
  PROVE  SpoolInv'
<1>1. UNCHANGED first
  BY DEF Housekeeping
<1>2. Len(log) \in Nat
  BY LenProperties DEF SpoolInv
<1>3. /\ log' \in Seq(Int) /\ Len(log') \in Nat /\ Len(log') >= Len(log)
      /\ Len(log') - first' * SegCap <= MaxRecs
  <2>1. CASE UNCHANGED log
    BY <1>1, <1>2, <2>1 DEF SpoolInv
  <2>2. CASE ~Full /\ log' = Append(log, Other)
    <3>1. Other \in Int
      BY DEF Other
    <3> QED
      BY <1>1, <1>2, <2>2, <3>1, AppendSpool
  <2> QED
    BY <2>1, <2>2 DEF Housekeeping
<1>4. synced' = Len(log') /\ durable' \in {durable, Len(log')}
  BY DEF Housekeeping, Sync
<1> QED
  BY <1>1, <1>2, <1>3, <1>4 DEF SpoolInv

LEMMA ReleaseSpool ==
  ASSUME SpoolInv, PublisherInv, Release
  PROVE  SpoolInv'
<1>1. /\ UNCHANGED <<log, synced, durable>> /\ pc = "release"
      /\ first' = Oldest(cursor)
  BY DEF Release
<1>2. /\ first \in Nat /\ cursor \in Nat /\ log \in Seq(Int) /\ first * SegCap <= cursor
  <2>1. cursorFile = cursor
    BY <1>1 DEF PublisherInv
  <2> QED
    BY <2>1 DEF PublisherInv, SpoolInv
<1>3. first' \in Nat /\ first' >= first
  BY <1>1, <1>2, OldestBelow
<1>4. Len(log) \in Nat /\ first * SegCap \in Int /\ first' * SegCap \in Int /\ MaxRecs \in Int
      /\ first * SegCap <= first' * SegCap
  <2>1. /\ first \in Int /\ first' \in Int /\ SegCap \in Nat /\ MaxRecs \in Int
        /\ Len(log) \in Nat /\ first <= first'
    BY <1>2, <1>3, ReceiverAssumption, LenProperties
  <2>2. first * SegCap <= first' * SegCap
    BY <2>1, TimesMonotone, Zenon
  <2>3. first * SegCap \in Int /\ first' * SegCap \in Int
    BY <2>1
  <2> QED
    BY <2>1, <2>2, <2>3, Zenon
<1>5. Len(log) - first * SegCap <= MaxRecs
  BY DEF SpoolInv
<1>6. Len(log') - first' * SegCap <= MaxRecs
  BY <1>1, <1>4, <1>5
<1> QED
  BY <1>1, <1>3, <1>6 DEF SpoolInv

LEMMA RestartSpool ==
  ASSUME SpoolInv, NEW kind, Restart(kind)
  PROVE  SpoolInv'
<1>1. PICK n \in durable .. Len(log) :
        /\ log' = SubSeq(log, 1, n)
        /\ durable' = IF kind = "power" THEN n ELSE durable
        /\ synced' = n
  BY DEF Restart, Recover
<1>2. UNCHANGED first
  BY DEF Restart
<1>3. /\ log \in Seq(Int) /\ Len(log) \in Nat /\ durable \in Nat /\ n \in Nat
      /\ n <= Len(log) /\ durable <= n /\ first \in Nat
  BY <1>1, LenProperties DEF SpoolInv
<1>4. log' \in Seq(Int) /\ Len(log') = n
  <2>1. \A i \in 1 .. n : log[i] \in Int
    BY <1>3, ElementOfSeq
  <2> QED
    BY <1>1, <1>3, <2>1, SubSeqProperties
<1>5. Len(log) - first * SegCap <= MaxRecs /\ first * SegCap \in Int /\ MaxRecs \in Int
  BY <1>3, ReceiverAssumption DEF SpoolInv
<1>6. Len(log') - first' * SegCap <= MaxRecs
  BY <1>2, <1>3, <1>4, <1>5
<1>7. durable' \in Nat /\ durable' <= Len(log') /\ synced' \in Nat
  BY <1>1, <1>3, <1>4
<1> QED
  BY <1>2, <1>3, <1>4, <1>6, <1>7 DEF SpoolInv

\* The publisher's steps and the broker's touch the spool only by releasing.
LEMMA SpoolStep ==
  ASSUME SpoolInv, PublisherInv, [Next]_vars
  PROVE  SpoolInv'
<1>1. CASE UNCHANGED vars
  BY <1>1 DEF SpoolInv, vars, spool
<1>2. ASSUME NEW q \in Seqs, Accept(q) \/ Reject(q)
      PROVE  SpoolInv'
  <2>1. q \in Int /\ Other \in Int
    BY ReceiverAssumption DEF Seqs, Other
  <2>2. CASE Accept(q)
    BY <2>1, <2>2, TryAppendSpool DEF Accept
  <2>3. CASE Reject(q)
    <3>1. /\ TryAppend(Other) \/ UNCHANGED <<log, durable, dirty>>
          /\ UNCHANGED <<first, synced>>
      BY <2>3 DEF Reject, Quarantine
    <3> QED
      BY <2>1, <3>1, TryAppendSpool DEF TryAppend, Appended
  <2> QED
    BY <1>2, <2>2, <2>3
<1>3. ASSUME NEW n \in 0 .. MaxHealth - 1, Health(n)
      PROVE  SpoolInv'
  <2>1. Other \in Int
    BY DEF Other
  <2>2. /\ TryAppend(Other) \/ UNCHANGED <<log, durable, dirty>>
        /\ UNCHANGED <<first, synced>>
    BY <1>3 DEF Health, Quarantine
  <2> QED
    BY <2>1, <2>2, TryAppendSpool DEF TryAppend, Appended
<1>4. CASE Housekeeping
  BY <1>4, HousekeepingSpool
<1>5. CASE Publish
  <2>1. CASE Release
    BY <2>1, ReleaseSpool
  <2>2. CASE ~Release
    <3>1. UNCHANGED spool
      BY <1>5, <2>2 DEF Publish, Produce, PollDelivered, PollFailed, Poll, Persist, PersistError,
                        EndRound, NewRound
    <3> QED
      BY <3>1 DEF SpoolInv, spool
  <2> QED
    BY <2>1, <2>2
<1>6. ASSUME NEW i \in 1 .. MaxLog, Store(i)
      PROVE  SpoolInv'
  BY <1>6 DEF SpoolInv, Store, spool
<1>7. ASSUME NEW kind \in {"process", "power"}, Restart(kind)
      PROVE  SpoolInv'
  BY <1>7, RestartSpool
<1> QED
  BY <1>1, <1>2, <1>3, <1>4, <1>5, <1>6, <1>7 DEF Next, Deliver

-----------------------------------------------------------------------------
(***************************************************************************)
(* The publisher                                                           *)
(***************************************************************************)

LEMMA InitPublisher == Init => PublisherInv
<1> SUFFICES ASSUME Init PROVE PublisherInv
  OBVIOUS
<1>1. /\ first = 0 /\ cursor = 0 /\ cursorFile = 0 /\ readPos = 0 /\ pc = "pump"
      /\ written = {} /\ acked = {} /\ copies = [i \in 1 .. MaxLog |-> 0]
  BY DEF Init
<1>2. first * SegCap = 0
  BY <1>1, ReceiverAssumption
<1>3. copies \in [1 .. MaxLog -> Nat]
  BY <1>1
<1> QED
  BY <1>1, <1>2, <1>3 DEF PublisherInv

LEMMA ProducePublisher ==
  ASSUME SpoolInv, PublisherInv, Produce
  PROVE  PublisherInv'
<1>1. /\ UNCHANGED <<first, cursor, cursorFile, pc, copies, written, acked>>
      /\ Unread # {} /\ readPos' = Max(Unread)
  BY DEF Produce, spool
<1>2. synced \in Nat /\ readPos \in Nat
  BY DEF SpoolInv, PublisherInv
<1>3. synced \in Unread /\ \A y \in Unread : synced >= y
  BY <1>1, <1>2 DEF Unread
<1>4. Max(Unread) \in Unread
  BY <1>3 DEF Max
<1>5. readPos' \in Nat /\ readPos' >= readPos
  BY <1>1, <1>2, <1>4 DEF Unread
<1> QED
  BY <1>1, <1>5 DEF PublisherInv

LEMMA StorePublisher ==
  ASSUME PublisherInv, NEW i \in 1 .. MaxLog, Store(i)
  PROVE  PublisherInv'
<1>1. /\ UNCHANGED <<first, cursor, cursorFile, pc, readPos, acked>>
      /\ i \in cursor + 1 .. readPos
      /\ written' = written \cup {i} /\ copies' = [copies EXCEPT ![i] = @ + 1]
  BY DEF Store, spool
<1>2. copies \in [1 .. MaxLog -> Nat] /\ cursor \in Nat /\ readPos \in Nat
  BY DEF PublisherInv
<1>3. /\ copies' \in [1 .. MaxLog -> Nat]
      /\ copies'[i] > 0
      /\ \A j \in 1 .. MaxLog : copies[j] > 0 => copies'[j] > 0
  BY <1>1, <1>2
<1>4. \A j \in written' : j \in 1 .. MaxLog /\ j <= readPos' /\ copies'[j] > 0
  BY <1>1, <1>2, <1>3 DEF PublisherInv
<1>5. \A j \in 1 .. cursor' : j \in 1 .. MaxLog /\ copies'[j] > 0
  BY <1>1, <1>3 DEF PublisherInv
<1> QED
  BY <1>1, <1>3, <1>4, <1>5 DEF PublisherInv

LEMMA PollPublisher ==
  ASSUME PublisherInv, NEW reported \in SUBSET (written \ acked), Poll(reported)
  PROVE  PublisherInv'
<1> DEFINE done == acked \cup reported
           to   == Prefix(done)
<1>1. /\ UNCHANGED <<first, cursorFile, readPos, copies, written>>
      /\ cursor' = to /\ acked' = {i \in done : i > to} /\ pc' \in {"persist", "pump"}
  BY DEF Poll, spool
<1>2. done \subseteq written /\ cursor \in Nat /\ readPos \in Nat /\ cursor <= readPos
  BY DEF PublisherInv
<1>3. readPos + 1 \notin done
  BY <1>2 DEF PublisherInv
<1>4. to \in cursor .. readPos /\ cursor + 1 .. to \subseteq done
  BY <1>2, <1>3, PrefixExact
<1> HIDE DEF to
<1>5. \A i \in 1 .. to : i \in 1 .. MaxLog /\ copies[i] > 0
  <2> SUFFICES ASSUME NEW i \in 1 .. to
               PROVE  i \in 1 .. MaxLog /\ copies[i] > 0
    OBVIOUS
  <2>1. CASE i <= cursor
    BY <1>2, <1>4, <2>1 DEF PublisherInv
  <2>2. CASE i > cursor
    <3>1. i \in cursor + 1 .. to
      BY <1>2, <1>4, <2>2
    <3>2. i \in written
      BY <1>2, <1>4, <3>1
    <3> QED
      BY <3>2 DEF PublisherInv
  <2> QED
    BY <1>2, <1>4, <2>1, <2>2
<1>6. acked' \subseteq written'
  BY <1>1, <1>2
<1>7. cursor' \in Nat /\ cursorFile' <= cursor' /\ cursor' <= readPos'
  BY <1>1, <1>2, <1>4 DEF PublisherInv
<1> QED
  BY <1>1, <1>5, <1>6, <1>7 DEF PublisherInv

LEMMA PersistPublisher ==
  ASSUME PublisherInv, Persist
  PROVE  PublisherInv'
<1>1. /\ UNCHANGED <<first, cursor, readPos, copies, written, acked>>
      /\ cursorFile' = cursor
  BY DEF Persist, spool
<1>2. first * SegCap <= cursor
  <2>1. first \in Nat /\ cursorFile \in Nat /\ cursor \in Nat /\ SegCap \in Nat
        /\ first * SegCap <= cursorFile /\ cursorFile <= cursor
    BY ReceiverAssumption DEF PublisherInv
  <2>2. first * SegCap \in Int
    BY <2>1
  <2> QED
    BY <2>1, <2>2
<1> QED
  BY <1>1, <1>2 DEF PublisherInv

LEMMA ReleasePublisher ==
  ASSUME SpoolInv, PublisherInv, Release
  PROVE  PublisherInv'
<1>1. /\ UNCHANGED <<cursor, cursorFile, readPos, copies, written, acked>>
      /\ pc = "release" /\ pc' = "pump" /\ first' = Oldest(cursor)
  BY DEF Release
<1>2. /\ first \in Nat /\ cursor \in Nat /\ log \in Seq(Int) /\ first * SegCap <= cursor
      /\ cursorFile = cursor
  <2>1. cursorFile = cursor
    BY <1>1 DEF PublisherInv
  <2> QED
    BY <2>1 DEF PublisherInv, SpoolInv
<1>3. first' \in Nat /\ first' * SegCap <= cursorFile'
  BY <1>1, <1>2, OldestBelow
<1> QED
  BY <1>1, <1>3 DEF PublisherInv

LEMMA RestartPublisher ==
  ASSUME PublisherInv, NEW kind, Restart(kind)
  PROVE  PublisherInv'
<1>1. /\ UNCHANGED <<first, cursorFile, copies>>
      /\ pc' = "pump" /\ cursor' = cursorFile /\ readPos' = cursorFile
      /\ written' = {} /\ acked' = {}
  BY DEF Restart
<1>2. \A i \in 1 .. cursor' : i \in 1 .. cursor
  BY <1>1 DEF PublisherInv
<1> QED
  BY <1>1, <1>2 DEF PublisherInv

LEMMA PublisherStep ==
  ASSUME SpoolInv, PublisherInv, [Next]_vars
  PROVE  PublisherInv'
<1>1. ASSUME UNCHANGED <<first, publisher>>
      PROVE  PublisherInv'
  BY <1>1 DEF PublisherInv, publisher
<1>2. CASE UNCHANGED vars
  BY <1>1, <1>2 DEF vars, spool
<1>3. CASE Deliver \/ Housekeeping
  BY <1>1, <1>3 DEF Deliver, Accept, Reject, Health, Housekeeping
<1>4. CASE Publish
  <2>1. CASE Produce
    BY <2>1, ProducePublisher
  <2>2. ASSUME NEW reported \in SUBSET (written \ acked),
               PollDelivered(reported) \/ PollFailed(reported)
        PROVE  PublisherInv'
    BY <2>2, PollPublisher DEF PollDelivered, PollFailed
  <2>3. CASE Persist
    BY <2>3, PersistPublisher
  <2>4. CASE Release
    BY <2>4, ReleasePublisher
  <2>5. CASE PersistError \/ EndRound
    BY <2>5 DEF PersistError, EndRound, PublisherInv, spool
  <2>6. CASE NewRound
    BY <2>6 DEF NewRound, PublisherInv, spool
  <2> QED
    BY <1>4, <2>1, <2>2, <2>3, <2>4, <2>5, <2>6 DEF Publish
<1>5. ASSUME NEW i \in 1 .. MaxLog, Store(i)
      PROVE  PublisherInv'
  BY <1>5, StorePublisher
<1>6. ASSUME NEW kind \in {"process", "power"}, Restart(kind)
      PROVE  PublisherInv'
  BY <1>6, RestartPublisher
<1> QED
  BY <1>2, <1>3, <1>4, <1>5, <1>6 DEF Next

-----------------------------------------------------------------------------
(***************************************************************************)
(* The theorems                                                            *)
(***************************************************************************)

LEMMA ReceiverInvariant == Spec => [](SpoolInv /\ PublisherInv)
<1>1. Init => SpoolInv /\ PublisherInv
  BY InitSpool, InitPublisher
<1>2. SpoolInv /\ PublisherInv /\ [Next]_vars => (SpoolInv /\ PublisherInv)'
  BY SpoolStep, PublisherStep
<1> QED
  BY <1>1, <1>2, PTL DEF Spec

\* Nothing is skipped, for every size of segments and spool and all faults: the
\* cursor passes only what the broker stored, and a segment is deleted only when
\* the cursor's file is past it (publisher.py, pump; spool.py, release).
THEOREM NothingSkippedEver == Spec => []NeverSkipped
<1>1. SpoolInv /\ PublisherInv => NeverSkipped
  BY DEF PublisherInv, NeverSkipped
<1> QED
  BY <1>1, ReceiverInvariant, PTL

\* The spool's byte limit holds for every size (spool.py, append).
THEOREM SpoolBounded == Spec => []SpoolIsBounded
<1>1. SpoolInv /\ PublisherInv => SpoolIsBounded
  BY DEF SpoolInv, SpoolIsBounded
<1> QED
  BY <1>1, ReceiverInvariant, PTL

-----------------------------------------------------------------------------
(***************************************************************************)
(* Copies                                                                  *)
(***************************************************************************)

Faults == faults.failures + faults.errors + Len(crashes)

\* What a round has not stored itself costs a fault that came before the round, and
\* a round that has failed or is over is a fault that its own copies do not count.
CopiesInv ==
  /\ copies \in [1 .. MaxLog -> Nat]
  /\ faults \in [failures: Nat, errors: Nat]
  /\ crashes \in Seq({"process", "power"})
  /\ \A i \in 1 .. MaxLog :
       copies[i] + (IF failed \/ pc = "down" THEN 1 ELSE 0)
         <= (IF i \in written THEN 1 ELSE 0) + Faults

LEMMA InitCopies == Init => CopiesInv
<1> SUFFICES ASSUME Init PROVE CopiesInv
  OBVIOUS
<1>1. /\ copies = [i \in 1 .. MaxLog |-> 0] /\ faults = [failures |-> 0, errors |-> 0]
      /\ crashes = << >> /\ failed = FALSE /\ pc = "pump" /\ written = {}
  BY DEF Init
<1>2. crashes \in Seq({"process", "power"}) /\ Len(crashes) = 0
  BY <1>1
<1> QED
  BY <1>1, <1>2 DEF CopiesInv, Faults

\* The steps that store nothing, end nothing and report no fault.
LEMMA QuietCopies ==
  ASSUME CopiesInv, UNCHANGED <<copies, faults, crashes, written, failed>>,
         pc' = "down" => pc = "down" \/ failed
  PROVE  CopiesInv'
<1>1. Faults' = Faults /\ Faults \in Nat
  BY LenProperties DEF CopiesInv, Faults
<1>2. ASSUME NEW i \in 1 .. MaxLog
      PROVE  copies'[i] + (IF failed' \/ pc' = "down" THEN 1 ELSE 0)
               <= (IF i \in written' THEN 1 ELSE 0) + Faults'
  <2>1. /\ copies[i] \in Nat
        /\ copies[i] + (IF failed \/ pc = "down" THEN 1 ELSE 0)
             <= (IF i \in written THEN 1 ELSE 0) + Faults
    BY DEF CopiesInv
  <2> QED
    BY <1>1, <2>1
<1> QED
  BY <1>2 DEF CopiesInv

LEMMA StoreCopies ==
  ASSUME CopiesInv, NEW i \in 1 .. MaxLog, Store(i)
  PROVE  CopiesInv'
<1>1. /\ UNCHANGED <<faults, crashes, failed, pc>> /\ i \notin written
      /\ written' = written \cup {i} /\ copies' = [copies EXCEPT ![i] = @ + 1]
  BY DEF Store
<1>2. Faults' = Faults /\ Faults \in Nat
  BY <1>1, LenProperties DEF CopiesInv, Faults
<1>3. copies' \in [1 .. MaxLog -> Nat]
  BY <1>1 DEF CopiesInv
<1>4. ASSUME NEW j \in 1 .. MaxLog
      PROVE  copies'[j] + (IF failed' \/ pc' = "down" THEN 1 ELSE 0)
               <= (IF j \in written' THEN 1 ELSE 0) + Faults'
  <2>1. /\ copies[j] \in Nat /\ copies'[j] = IF j = i THEN copies[j] + 1 ELSE copies[j]
        /\ copies[j] + (IF failed \/ pc = "down" THEN 1 ELSE 0)
             <= (IF j \in written THEN 1 ELSE 0) + Faults
    BY <1>1 DEF CopiesInv
  <2> QED
    BY <1>1, <1>2, <2>1
<1> QED
  BY <1>1, <1>3, <1>4 DEF CopiesInv

\* A fault more pays for the round it ends.
LEMMA FaultCopies ==
  ASSUME CopiesInv, UNCHANGED <<copies, written>>, Faults' = Faults + 1,
         faults' \in [failures: Nat, errors: Nat], crashes' \in Seq({"process", "power"})
  PROVE  CopiesInv'
<1>1. Faults \in Nat
  BY LenProperties DEF CopiesInv, Faults
<1>2. ASSUME NEW i \in 1 .. MaxLog
      PROVE  copies'[i] + (IF failed' \/ pc' = "down" THEN 1 ELSE 0)
               <= (IF i \in written' THEN 1 ELSE 0) + Faults'
  <2>1. /\ copies[i] \in Nat
        /\ copies[i] + (IF failed \/ pc = "down" THEN 1 ELSE 0)
             <= (IF i \in written THEN 1 ELSE 0) + Faults
    BY DEF CopiesInv
  <2> QED
    BY <1>1, <2>1
<1> QED
  BY <1>2 DEF CopiesInv

\* A new round counts none of the copies as its own.
LEMMA RoundCopies ==
  ASSUME CopiesInv, UNCHANGED copies, written' = {}, failed' = FALSE, pc' = "pump",
         \/ pc = "down" /\ UNCHANGED <<faults, crashes>>
         \/ /\ Faults' = Faults + 1 /\ UNCHANGED faults
            /\ crashes' \in Seq({"process", "power"})
  PROVE  CopiesInv'
<1>1. Faults \in Nat /\ ((pc = "down" /\ Faults' = Faults) \/ Faults' = Faults + 1)
  BY LenProperties DEF CopiesInv, Faults
<1>2. ASSUME NEW i \in 1 .. MaxLog
      PROVE  copies'[i] + (IF failed' \/ pc' = "down" THEN 1 ELSE 0)
               <= (IF i \in written' THEN 1 ELSE 0) + Faults'
  <2>1. /\ copies[i] \in Nat
        /\ copies[i] + (IF failed \/ pc = "down" THEN 1 ELSE 0)
             <= (IF i \in written THEN 1 ELSE 0) + Faults
    BY DEF CopiesInv
  <2>2. copies'[i] = copies[i] /\ ~(failed' \/ pc' = "down") /\ i \notin written'
    OBVIOUS
  <2> QED
    BY <1>1, <2>1, <2>2
<1> QED
  BY <1>2 DEF CopiesInv

LEMMA CopiesStep ==
  ASSUME CopiesInv, [Next]_vars
  PROVE  CopiesInv'
<1>1. CASE UNCHANGED vars
  BY <1>1, QuietCopies DEF vars, publisher
<1>2. CASE Deliver \/ Housekeeping
  <2>1. UNCHANGED <<publisher, crashes>>
    BY <1>2 DEF Deliver, Accept, Reject, Health, Housekeeping
  <2> QED
    BY <2>1, QuietCopies DEF publisher
<1>3. CASE Publish
  <2>1. CASE Produce \/ Persist \/ Release \/ EndRound
    BY <2>1, QuietCopies DEF Produce, Persist, Release, EndRound
  <2>2. ASSUME NEW reported, PollDelivered(reported)
        PROVE  CopiesInv'
    BY <2>2, QuietCopies DEF PollDelivered, Poll
  <2>3. ASSUME NEW reported, PollFailed(reported)
        PROVE  CopiesInv'
    <3>1. /\ UNCHANGED <<copies, written, crashes>>
          /\ faults' = [faults EXCEPT !.failures = @ + 1]
      BY <2>3 DEF PollFailed, Poll
    <3>2. faults' \in [failures: Nat, errors: Nat] /\ Faults' = Faults + 1
      BY <3>1, LenProperties DEF CopiesInv, Faults
    <3> QED
      BY <3>1, <3>2, FaultCopies DEF CopiesInv
  <2>4. CASE PersistError
    <3>1. /\ UNCHANGED <<copies, written, crashes>>
          /\ faults' = [faults EXCEPT !.errors = @ + 1]
      BY <2>4 DEF PersistError
    <3>2. faults' \in [failures: Nat, errors: Nat] /\ Faults' = Faults + 1
      BY <3>1, LenProperties DEF CopiesInv, Faults
    <3> QED
      BY <3>1, <3>2, FaultCopies DEF CopiesInv
  <2>5. CASE NewRound
    BY <2>5, RoundCopies DEF NewRound
  <2> QED
    BY <1>3, <2>1, <2>2, <2>3, <2>4, <2>5 DEF Publish
<1>4. ASSUME NEW i \in 1 .. MaxLog, Store(i)
      PROVE  CopiesInv'
  BY <1>4, StoreCopies
<1>5. ASSUME NEW kind \in {"process", "power"}, Restart(kind)
      PROVE  CopiesInv'
  <2>1. /\ UNCHANGED <<copies, faults>> /\ written' = {} /\ failed' = FALSE /\ pc' = "pump"
        /\ crashes' = Append(crashes, kind)
    BY <1>5 DEF Restart
  <2>2. crashes' \in Seq({"process", "power"}) /\ Len(crashes') = Len(crashes) + 1
    BY <2>1 DEF CopiesInv
  <2>3. Faults' = Faults + 1
    BY <2>1, <2>2, LenProperties DEF CopiesInv, Faults
  <2> QED
    BY <2>1, <2>2, <2>3, RoundCopies
<1> QED
  BY <1>1, <1>2, <1>3, <1>4, <1>5 DEF Next

\* However the failures, errors and crashes fall, the broker stores a record at most
\* once more for each of them (publisher.py, run and pump).
THEOREM CopiesBounded == Spec => []ResentOnlyAfterFault
<1>1. Init => CopiesInv
  BY InitCopies
<1>2. CopiesInv /\ [Next]_vars => CopiesInv'
  BY CopiesStep
<1>3. CopiesInv => ResentOnlyAfterFault
  <2> SUFFICES ASSUME CopiesInv, NEW i \in 1 .. MaxLog
               PROVE  copies[i] <= 1 + faults.failures + faults.errors + Len(crashes)
    BY DEF ResentOnlyAfterFault
  <2>1. /\ copies[i] \in Nat /\ faults.failures \in Nat /\ faults.errors \in Nat
        /\ Len(crashes) \in Nat
        /\ copies[i] + (IF failed \/ pc = "down" THEN 1 ELSE 0)
             <= (IF i \in written THEN 1 ELSE 0) + Faults
    BY LenProperties DEF CopiesInv
  <2> QED
    BY <2>1 DEF Faults
<1> QED
  BY <1>1, <1>2, <1>3, PTL DEF Spec

-----------------------------------------------------------------------------
(***************************************************************************)
(* Durability, when the process ends only with the power                   *)
(***************************************************************************)

OnlyPower == CrashPlans \subseteq Seq({"power"})

\* The publisher stays behind what is synced, which is durable; everything is when
\* nothing was appended since the last sync.
DurableInv ==
  /\ readPos <= synced /\ synced <= durable
  /\ dirty \in BOOLEAN /\ (~dirty => durable = Len(log))
  /\ \A i \in 1 .. MaxLog : copies[i] > 0 => i <= durable
  /\ crashes \in Seq({"process", "power"})

LEMMA InitDurable == Init => DurableInv
<1> SUFFICES ASSUME Init PROVE DurableInv
  OBVIOUS
<1>1. /\ copies = [i \in 1 .. MaxLog |-> 0] /\ crashes = << >> /\ log = << >>
      /\ readPos = 0 /\ synced = 0 /\ durable = 0 /\ dirty = FALSE
  BY DEF Init
<1>2. crashes \in Seq({"process", "power"}) /\ Len(log) = 0
  BY <1>1
<1>3. dirty \in BOOLEAN /\ (~dirty => durable = Len(log))
  BY <1>1, <1>2, Zenon
<1>4. \A i \in 1 .. MaxLog : copies[i] > 0 => i <= durable
  BY <1>1
<1>5. readPos <= synced /\ synced <= durable
  BY <1>1
<1> QED
  BY <1>2, <1>3, <1>4, <1>5 DEF DurableInv

\* A plan of power losses has no crash of the process alone.
LEMMA PowerOnly ==
  ASSUME OnlyPower, crashes \in Seq({"process", "power"}),
         NEW kind \in {"process", "power"}, Restart(kind)
  PROVE  kind = "power"
<1>1. PICK plan \in CrashPlans : IsPrefix(Append(crashes, kind), plan)
  BY DEF Restart
<1> DEFINE s == Append(crashes, kind)
           n == Len(crashes) + 1
<1>2. Len(crashes) \in Nat /\ s \in Seq({"process", "power"}) /\ Len(s) = n /\ s[n] = kind
  BY LenProperties
<1>3. plan \in Seq({"power"})
  BY <1>1 DEF OnlyPower
<1>4. n \in 1 .. Len(plan) /\ SubSeq(s, 1, n) = SubSeq(plan, 1, n)
  BY <1>1, <1>2, <1>3, LenProperties DEF IsPrefix
<1>5. plan[n] = "power"
  BY <1>3, <1>4, ElementOfSeq
<1> HIDE DEF s, n
<1>6. n \in Nat \ {0}
  BY <1>4
<1>7. SubSeq(s, 1, n)[n] = s[n] /\ SubSeq(plan, 1, n)[n] = plan[n]
  <2>1. \A i \in 1 .. n : s[i] \in {"process", "power"}
    BY <1>2, ElementOfSeq
  <2>2. \A i \in 1 .. n : plan[i] \in {"power"}
    BY <1>3, <1>4, ElementOfSeq
  <2>3. \A i \in 1 .. n - 1 + 1 : SubSeq(s, 1, n)[i] = s[1 + i - 1]
    BY <1>6, <2>1, SubSeqProperties
  <2>4. \A i \in 1 .. n - 1 + 1 : SubSeq(plan, 1, n)[i] = plan[1 + i - 1]
    BY <1>6, <2>2, SubSeqProperties
  <2>5. n \in 1 .. n - 1 + 1 /\ 1 + n - 1 = n
    BY <1>6
  <2> QED
    BY <2>3, <2>4, <2>5
<1> QED
  BY <1>2, <1>4, <1>5, <1>7

\* What the receive thread writes to the spool.
LEMMA AppendDurable ==
  ASSUME SpoolInv, DurableInv, UNCHANGED <<synced, readPos, copies, crashes>>,
         NEW rec, TryAppend(rec) \/ Appended(rec) \/ UNCHANGED <<log, durable, dirty>>
  PROVE  DurableInv'
<1>1. CASE UNCHANGED <<log, durable, dirty>>
  BY <1>1 DEF DurableInv
<1>2. CASE Appended(rec)
  <2>1. dirty' = TRUE /\ durable' \in {durable, Len(log)}
    BY <1>2 DEF Appended
  <2>2. Len(log) \in Nat /\ durable \in Nat /\ durable <= Len(log) /\ synced \in Nat
    BY LenProperties DEF SpoolInv
  <2>3. durable' \in Nat /\ durable' >= durable
    BY <2>1, <2>2
  <2>4. \A i \in 1 .. MaxLog : copies'[i] > 0 => i <= durable'
    BY <2>2, <2>3 DEF DurableInv
  <2>5. readPos' <= synced' /\ synced' <= durable'
    BY <2>2, <2>3 DEF DurableInv
  <2> QED
    BY <2>1, <2>4, <2>5 DEF DurableInv
<1> QED
  BY <1>1, <1>2 DEF TryAppend

LEMMA HousekeepingDurable ==
  ASSUME SpoolInv, PublisherInv, DurableInv, Housekeeping
  PROVE  DurableInv'
<1>1. UNCHANGED <<readPos, copies, crashes>>
  BY DEF Housekeeping, publisher
<1>2. /\ Len(log) \in Nat /\ durable \in Nat /\ durable <= Len(log) /\ synced \in Nat
      /\ readPos \in Nat /\ log \in Seq(Int)
  BY LenProperties DEF SpoolInv, PublisherInv
<1>3. Len(log') \in Nat /\ Len(log') >= Len(log)
  <2>1. log' = log \/ log' = Append(log, Other)
    BY DEF Housekeeping
  <2>2. Other \in Int
    BY DEF Other
  <2> QED
    BY <1>2, <2>1, <2>2
<1>4. synced' = Len(log') /\ durable' = Len(log') /\ dirty' = FALSE
  <2>1. CASE UNCHANGED log /\ Sync(FALSE)
    BY <2>1 DEF Sync, DurableInv
  <2>2. CASE Sync(TRUE)
    BY <2>2 DEF Sync
  <2> QED
    BY <2>1, <2>2 DEF Housekeeping
<1>5. \A i \in 1 .. MaxLog : copies'[i] > 0 => i <= durable'
  BY <1>1, <1>2, <1>3, <1>4 DEF DurableInv
<1>6. readPos' <= synced' /\ synced' <= durable'
  BY <1>1, <1>2, <1>3, <1>4 DEF DurableInv
<1>7. dirty' \in BOOLEAN /\ (~dirty' => durable' = Len(log'))
  BY <1>4, Zenon
<1>8. crashes' \in Seq({"process", "power"})
  BY <1>1 DEF DurableInv
<1> QED
  BY <1>5, <1>6, <1>7, <1>8 DEF DurableInv

LEMMA RestartDurable ==
  ASSUME SpoolInv, PublisherInv, DurableInv, Restart("power")
  PROVE  DurableInv'
<1>1. PICK n \in durable .. Len(log) :
        log' = SubSeq(log, 1, n) /\ durable' = n /\ synced' = n /\ dirty' = FALSE
  BY DEF Restart, Recover
<1>2. UNCHANGED copies /\ readPos' = cursorFile /\ crashes' = Append(crashes, "power")
  BY DEF Restart
<1>3. /\ log \in Seq(Int) /\ Len(log) \in Nat /\ durable \in Nat /\ n \in Nat
      /\ durable <= n /\ n <= Len(log) /\ synced \in Nat
  BY <1>1, LenProperties DEF SpoolInv
<1>4. Len(log') = n
  <2>1. \A i \in 1 .. n : log[i] \in Int
    BY <1>3, ElementOfSeq
  <2> QED
    BY <1>1, <1>3, <2>1, SubSeqProperties
<1>5. readPos' <= synced'
  <2>1. /\ cursorFile \in Nat /\ cursor \in Nat /\ readPos \in Nat
        /\ cursorFile <= cursor /\ cursor <= readPos
    BY DEF PublisherInv
  <2>2. readPos <= synced /\ synced <= durable
    BY DEF DurableInv
  <2> QED
    BY <1>1, <1>2, <1>3, <2>1, <2>2
<1>6. \A i \in 1 .. MaxLog : copies'[i] > 0 => i <= durable'
  BY <1>1, <1>2, <1>3 DEF DurableInv
<1>7. crashes' \in Seq({"process", "power"})
  BY <1>2 DEF DurableInv
<1>8. dirty' \in BOOLEAN /\ (~dirty' => durable' = Len(log'))
  BY <1>1, <1>4, Zenon
<1>9. synced' <= durable'
  BY <1>1, <1>3
<1> QED
  BY <1>5, <1>6, <1>7, <1>8, <1>9 DEF DurableInv

LEMMA PublishDurable ==
  ASSUME SpoolInv, PublisherInv, DurableInv, Publish
  PROVE  DurableInv'
<1>1. /\ UNCHANGED <<log, synced, dirty, durable, copies, crashes>>
      /\ readPos' \in {readPos, cursor} \/ Produce
  BY DEF Publish, Produce, PollDelivered, PollFailed, Poll, Persist, PersistError, Release,
         EndRound, NewRound, spool
<1>2. readPos' <= synced
  <2>1. CASE Produce
    <3>1. readPos' = Max(Unread) /\ Unread # {}
      BY <2>1 DEF Produce
    <3>2. synced \in Unread /\ \A y \in Unread : synced >= y
      BY <3>1 DEF Unread, SpoolInv, PublisherInv
    <3>3. Max(Unread) \in Unread
      BY <3>2 DEF Max
    <3> QED
      BY <3>1, <3>3 DEF Unread, SpoolInv, PublisherInv
  <2>2. CASE readPos' \in {readPos, cursor}
    BY <2>2 DEF SpoolInv, PublisherInv, DurableInv
  <2> QED
    BY <1>1, <2>1, <2>2
<1> QED
  BY <1>1, <1>2 DEF DurableInv

LEMMA StoreDurable ==
  ASSUME SpoolInv, PublisherInv, DurableInv, NEW i \in 1 .. MaxLog, Store(i)
  PROVE  DurableInv'
<1>1. /\ UNCHANGED <<log, synced, dirty, durable, readPos, crashes>>
      /\ i \in cursor + 1 .. readPos /\ copies' = [copies EXCEPT ![i] = @ + 1]
  BY DEF Store, spool
<1>2. i <= durable
  BY <1>1 DEF SpoolInv, PublisherInv, DurableInv
<1>3. \A j \in 1 .. MaxLog : copies'[j] > 0 => j = i \/ copies[j] > 0
  BY <1>1 DEF PublisherInv
<1> QED
  BY <1>1, <1>2, <1>3 DEF DurableInv

LEMMA DurableStep ==
  ASSUME OnlyPower, SpoolInv, PublisherInv, DurableInv, [Next]_vars
  PROVE  DurableInv'
<1>1. CASE UNCHANGED vars
  BY <1>1 DEF DurableInv, vars, spool, publisher
<1>2. CASE Deliver
  <2>1. ASSUME NEW q \in Seqs, Accept(q)
        PROVE  DurableInv'
    BY <2>1, AppendDurable DEF Accept, publisher, Appended, TryAppend
  <2>2. ASSUME NEW q \in Seqs, Reject(q)
        PROVE  DurableInv'
    BY <2>2, AppendDurable DEF Reject, publisher, Quarantine, Appended, TryAppend
  <2>3. ASSUME NEW n \in 0 .. MaxHealth - 1, Health(n)
        PROVE  DurableInv'
    BY <2>3, AppendDurable DEF Health, publisher, Quarantine, Appended, TryAppend
  <2> QED
    BY <1>2, <2>1, <2>2, <2>3 DEF Deliver
<1>3. CASE Housekeeping
  BY <1>3, HousekeepingDurable
<1>4. CASE Publish
  BY <1>4, PublishDurable
<1>5. ASSUME NEW i \in 1 .. MaxLog, Store(i)
      PROVE  DurableInv'
  BY <1>5, StoreDurable
<1>6. ASSUME NEW kind \in {"process", "power"}, Restart(kind)
      PROVE  DurableInv'
  <2>1. kind = "power"
    BY <1>6, PowerOnly DEF DurableInv
  <2> QED
    BY <1>6, <2>1, RestartDurable
<1> QED
  BY <1>1, <1>2, <1>3, <1>4, <1>5, <1>6 DEF Next

\* As long as the process ends only with the power, the broker never holds a record
\* that the receiver's disk could lose (spool.py, sync; publisher.py, pump).  After a
\* crash of the process alone recovery takes for durable what is not.
THEOREM PublishedSurvives ==
  ASSUME OnlyPower
  PROVE  Spec => []PublishedIsDurable
<1>1. Init => DurableInv
  BY InitDurable
<1>2. SpoolInv /\ PublisherInv /\ DurableInv /\ [Next]_vars => DurableInv'
  BY DurableStep
<1>3. DurableInv => PublishedIsDurable
  BY DEF DurableInv, PublishedIsDurable
<1> QED
  BY <1>1, <1>2, <1>3, ReceiverInvariant, PTL DEF Spec

-----------------------------------------------------------------------------
(***************************************************************************)
(* Replay                                                                  *)
(***************************************************************************)

\* A set of positions has a greatest one.
LEMMA MaxIs ==
  ASSUME NEW n \in Nat, NEW t \in SUBSET (1 .. n), t # {}
  PROVE  Max(t) \in t /\ \A y \in t : y <= Max(t)
<1> DEFINE D == {n - x : x \in t}
<1>1. D \in SUBSET Nat /\ D # {}
  <2>1. \A x \in t : n - x \in Nat
    OBVIOUS
  <2> QED
    BY <2>1
<1>2. PICK m \in D : \A d \in D : m <= d
  BY <1>1, Least
<1>3. PICK x \in t : m = n - x
  BY <1>2
<1>4. \A y \in t : n - x <= n - y
  BY <1>2, <1>3
<1>5. \A y \in t : x >= y
  BY <1>4
<1>6. Max(t) \in t /\ \A y \in t : Max(t) >= y
  BY <1>5, Zenon DEF Max
<1> QED
  BY <1>6

\* The step of the fold over the records s from the stream b, for the set t of positions,
\* and what it computes from.
StepOf(g, b, s, t) ==
  IF t = {} THEN b ELSE Replayed(g[t \ {Max(t)}], s[Max(t)])

Folding(g, b, s, n) == g = [t \in SUBSET (1 .. n) |-> StepOf(g, b, s, t)]

LEMMA NoneToFold ==
  ASSUME NEW b, NEW s
  PROVE  \E g : Folding(g, b, s, 0)
<1> DEFINE g == [t \in SUBSET (1 .. 0) |-> b]
<1>1. \A t \in SUBSET (1 .. 0) : t = {}
  OBVIOUS
<1>2. \A t \in SUBSET (1 .. 0) : StepOf(g, b, s, t) = b
  BY <1>1 DEF StepOf
<1>3. g = [t \in SUBSET (1 .. 0) |-> StepOf(g, b, s, t)]
  BY <1>2
<1> QED
  BY <1>3 DEF Folding

LEMMA OneMoreToFold ==
  ASSUME NEW b, NEW s, NEW n \in Nat, n # 0, NEW f, Folding(f, b, s, n - 1)
  PROVE  \E g : Folding(g, b, s, n)
<1> DEFINE g == [t \in SUBSET (1 .. n) |-> IF n \in t THEN Replayed(f[t \ {n}], s[n]) ELSE f[t]]
<1>1. \A t \in SUBSET (1 .. n - 1) : f[t] = StepOf(f, b, s, t)
  <2>1. f = [t \in SUBSET (1 .. n - 1) |-> StepOf(f, b, s, t)]
    BY DEF Folding
  <2> QED
    BY <2>1, Zenon
<1>2. \A t \in SUBSET (1 .. n - 1) : t \in SUBSET (1 .. n) /\ n \notin t
  OBVIOUS
<1>3. \A t \in SUBSET (1 .. n - 1) : g[t] = f[t]
  BY <1>2
<1>4. ASSUME NEW t \in SUBSET (1 .. n)
      PROVE  g[t] = StepOf(g, b, s, t)
  <2>1. CASE n \in t
    <3>1. Max(t) = n
      <4>1. t # {}
        BY <2>1
      <4>2. Max(t) \in t /\ n <= Max(t)
        BY <2>1, <4>1, MaxIs
      <4>3. Max(t) \in 1 .. n
        BY <4>2
      <4> QED
        BY <4>2, <4>3
    <3>2. t \ {n} \in SUBSET (1 .. n - 1)
      OBVIOUS
    <3>3. g[t \ {n}] = f[t \ {n}]
      BY <1>3, <3>2
    <3>4. g[t] = Replayed(f[t \ {n}], s[n])
      BY <2>1
    <3> HIDE DEF g
    <3> QED
      BY <2>1, <3>1, <3>3, <3>4 DEF StepOf
  <2>2. CASE n \notin t
    <3>1. t \in SUBSET (1 .. n - 1)
      BY <2>2
    <3>2. g[t] = StepOf(f, b, s, t)
      BY <1>1, <1>3, <3>1
    <3>3. t # {} => g[t \ {Max(t)}] = f[t \ {Max(t)}]
      <4>1. t \ {Max(t)} \in SUBSET (1 .. n - 1)
        BY <3>1
      <4> QED
        BY <1>3, <4>1
    <3> HIDE DEF g
    <3> QED
      BY <3>2, <3>3 DEF StepOf
  <2> QED
    BY <2>1, <2>2
<1>5. g = [t \in SUBSET (1 .. n) |-> g[t]]
  OBVIOUS
<1> HIDE DEF g
<1>6. g = [t \in SUBSET (1 .. n) |-> StepOf(g, b, s, t)]
  BY <1>4, <1>5
<1> QED
  BY <1>6 DEF Folding

\* A fold over any number of records has a value: there is no least number of them
\* for which it has none.
LEMMA FoldExists ==
  ASSUME NEW b, NEW s, NEW n \in Nat
  PROVE  \E g : Folding(g, b, s, n)
<1> DEFINE Bad == {i \in Nat : ~(\E g : Folding(g, b, s, i))}
<1>1. SUFFICES ASSUME Bad # {} PROVE FALSE
  OBVIOUS
<1>2. PICK m \in Bad : \A k \in Bad : m <= k
  BY <1>1, Least
<1>3. m \in Nat /\ ~(\E g : Folding(g, b, s, m))
  BY <1>2
<1>4. m # 0
  BY <1>3, NoneToFold
<1>5. m - 1 \in Nat /\ m - 1 \notin Bad
  BY <1>2, <1>3, <1>4
<1>6. \E g : Folding(g, b, s, m - 1)
  BY <1>5
<1> QED
  BY <1>3, <1>4, <1>6, OneMoreToFold

\* The stream after the first i records s, for each i.
Replays(h, b, s) ==
  h[0] = b /\ \A i \in 1 .. Len(s) : h[i] = Replayed(h[i - 1], s[i])

LEMMA FoldReplays ==
  ASSUME NEW S, NEW s \in Seq(S), NEW b
  PROVE  \E h : Replays(h, b, s) /\ FoldLeft(Replayed, b, s) = h[Len(s)]
<1> DEFINE n  == Len(s)
           it == CHOOSE g : Folding(g, b, s, n)
           h  == [i \in 0 .. n |-> it[1 .. i]]
<1>1. n \in Nat /\ DOMAIN s = 1 .. n
  OBVIOUS
<1>2. FoldLeft(Replayed, b, s) = it[1 .. n]
  BY <1>1, Zenon DEF FoldLeft, MapThenFoldSet, Folding, StepOf
<1>3. Folding(it, b, s, n)
  BY <1>1, FoldExists
<1> HIDE DEF it
<1>4. it = [t \in SUBSET (1 .. n) |-> StepOf(it, b, s, t)]
  BY <1>3 DEF Folding
<1>4a. \A t \in SUBSET (1 .. n) : it[t] = StepOf(it, b, s, t)
  BY <1>4, Zenon
<1>5. h[0] = b
  <2>1. 1 .. 0 = {} /\ {} \in SUBSET (1 .. n) /\ 0 \in 0 .. n
    BY <1>1
  <2>2. it[{}] = b
    BY <1>4a, <2>1, Zenon DEF StepOf
  <2> QED
    BY <2>1, <2>2
<1>6. ASSUME NEW i \in 1 .. n
      PROVE  h[i] = Replayed(h[i - 1], s[i])
  <2>1. 1 .. i \in SUBSET (1 .. n) /\ 1 .. i # {} /\ i \in 1 .. i /\ i \in Nat
    <3>1. i \in Nat /\ i \in 1 .. i /\ \A j \in 1 .. i : j \in 1 .. n
      BY <1>1
    <3> QED
      BY <3>1
  <2>2. Max(1 .. i) = i
    <3>1. Max(1 .. i) \in 1 .. i /\ i <= Max(1 .. i)
      BY <1>1, <2>1, MaxIs
    <3> QED
      BY <3>1
  <2>3. (1 .. i) \ {i} = 1 .. i - 1
    BY <1>1
  <2>4. it[1 .. i] = Replayed(it[1 .. i - 1], s[i])
    BY <1>4a, <2>1, <2>2, <2>3 DEF StepOf
  <2> QED
    BY <1>1, <2>4
<1>7. h[n] = it[1 .. n]
  BY <1>1
<1> HIDE DEF h
<1> QED
  BY <1>2, <1>5, <1>6, <1>7 DEF Replays

-----------------------------------------------------------------------------
(***************************************************************************)
(* The duplicate filter and the spool                                      *)
(***************************************************************************)

\* A stream of the filter stands for the set of the numbers it accepted.
StandsFor(s, r) == s \in StreamState /\ r \in SUBSET Nat /\ Represents(s, r)

\* What a stream does not accept it never will, and it does not accept what it recorded.
LEMMA RecordRemembers ==
  ASSUME NEW s, NEW r, StandsFor(s, r), NEW q \in Nat
  PROVE  /\ StandsFor(Record(s, q), Grow(s, r, q))
         /\ Classify(Record(s, q), q) \notin Accepted
         /\ \A p \in Nat : Classify(s, p) \notin Accepted =>
                             Classify(Record(s, q), p) \notin Accepted
<1> DEFINE t == Record(s, q)
           u == Grow(s, r, q)
<1>1. StandsFor(t, u) /\ t.highest >= 0
  BY RecordRepresents DEF StandsFor
<1>2. /\ s \in StreamState /\ r \in SUBSET Nat /\ Represents(s, r)
      /\ s.highest \in Int /\ s.base \in Int
  BY DEF StandsFor, StreamState
<1>3. r \subseteq u /\ (Classify(s, q) \in Accepted => q \in u)
  BY DEF Grow
<1>4. /\ \A p \in Nat : Classify(s, p) = New <=> s.highest < 0 \/ p > s.highest
      /\ \A p \in Nat : Classify(s, p) = Reordered <=>
           s.highest >= 0 /\ p \in Window(s) /\ p \notin r
  BY <1>2, ClassifyExact
<1>5. /\ t.base \in Int /\ t.highest \in Int /\ t.highest >= q
      /\ s.highest >= 0 => t.base = s.base /\ t.highest >= s.highest
  <2>1. W \in Nat /\ q \in Int
    BY WindowAssumption
  <2> QED
    BY <1>2, <2>1 DEF Record, First, Jump, Slide, Fill
<1>6. \A p \in Nat : /\ Classify(t, p) = New <=> p > t.highest
                     /\ Classify(t, p) = Reordered <=> p \in Window(t) /\ p \notin u
  <2>1. t \in StreamState /\ u \in SUBSET Nat /\ Represents(t, u)
    BY <1>1 DEF StandsFor
  <2> HIDE DEF t, u
  <2>2. ASSUME NEW p \in Nat
        PROVE  /\ Classify(t, p) = New <=> p > t.highest
               /\ Classify(t, p) = Reordered <=> p \in Window(t) /\ p \notin u
    BY <1>1, <1>5, <2>1, ClassifyExact
  <2> QED
    BY <2>2
<1> HIDE DEF t, u
<1>7. ASSUME NEW p \in Nat, Classify(s, p) \notin Accepted
      PROVE  Classify(t, p) \notin Accepted
  <2>1. s.highest >= 0 /\ p <= s.highest /\ ~(p \in Window(s) /\ p \notin r)
    BY <1>2, <1>4, <1>7 DEF Accepted
  <2>2. ~(p > t.highest)
    BY <1>2, <1>5, <2>1
  <2>3. p \in Window(t) => p \in Window(s)
    BY <1>2, <1>5, <2>1, WindowAssumption DEF Window
  <2> QED
    BY <1>3, <1>6, <2>1, <2>2, <2>3 DEF Accepted, New, Reordered
<1>8. Classify(t, q) \notin Accepted
  <2>1. CASE Classify(s, q) \in Accepted
    <3>1. ~(q > t.highest) /\ q \in u
      BY <1>3, <1>5, <2>1
    <3> QED
      BY <1>6, <3>1 DEF Accepted
  <2>2. CASE Classify(s, q) \notin Accepted
    BY <1>7, <2>2
  <2> QED
    BY <2>1, <2>2
<1> QED
  BY <1>1, <1>7, <1>8 DEF t, u


\* What the spool holds.
Recs == Seqs \cup {Other}

\* The stream s comes from recorded numbers.
Stream(s) == \E r : StandsFor(s, r)

\* The stream s agrees with the first hi records of the spool l: what it accepted is there
\* or was invalid, and of the records after lo it accepts none.
Spooled(s, l, hi) ==
  \E r : StandsFor(s, r) /\ \A q \in r : q \in Malformed \/ \E i \in 1 .. hi : l[i] = q

Agrees(s, l, lo, hi) ==
  /\ Spooled(s, l, hi)
  /\ \A i \in lo + 1 .. hi : l[i] # Other => Classify(s, l[i]) \notin Accepted

LEMMA EmptyStands == StandsFor(EmptyStream, {})
<1>1. EmptyStream \in StreamState
  BY DEF EmptyStream, StreamState
<1> QED
  BY <1>1 DEF StandsFor, Represents

LEMMA RecsType == Recs \subseteq Int /\ Other \notin Nat /\ Seqs \subseteq Nat
BY ReceiverAssumption DEF Recs, Seqs, Other

LEMMA StreamGrows ==
  ASSUME NEW s, Stream(s), NEW rec \in Recs
  PROVE  Stream(Replayed(s, rec))
<1>1. PICK r : StandsFor(s, r)
  BY DEF Stream
<1>2. CASE rec = Other
  BY <1>2 DEF Replayed
<1>3. CASE rec # Other
  <2>1. rec \in Nat
    BY <1>3, RecsType DEF Recs
  <2>2. StandsFor(Record(s, rec), Grow(s, r, rec))
    BY <1>1, <2>1, RecordRemembers
  <2> QED
    BY <1>3, <2>2 DEF Replayed, Stream
<1> QED
  BY <1>2, <1>3

\* A release leaves less of the spool to remember, ...
LEMMA AgreesAfterRelease ==
  ASSUME NEW s, NEW l, NEW lo \in Int, NEW to \in Int, NEW hi \in Int,
         lo <= to, Agrees(s, l, lo, hi)
  PROVE  Agrees(s, l, to, hi)
<1>1. \A i \in to + 1 .. hi : i \in lo + 1 .. hi
  OBVIOUS
<1> QED
  BY <1>1, Zenon DEF Agrees

\* ... and what is deleted already need not be remembered.
LEMMA AgreesDeleted ==
  ASSUME NEW s, NEW l, NEW lo \in Int, NEW hi \in Int, hi <= lo, Agrees(s, l, lo, hi)
  PROVE  Agrees(s, l, lo, lo)
<1>1. \A i \in 1 .. hi : i \in 1 .. lo
  OBVIOUS
<1>2. Spooled(s, l, lo)
  BY <1>1, Zenon DEF Agrees, Spooled
<1>3. lo + 1 .. lo = {}
  OBVIOUS
<1> QED
  BY <1>2, <1>3 DEF Agrees

LEMMA AgreesSameRecords ==
  ASSUME NEW s, NEW l, NEW m, NEW lo \in Nat, NEW hi \in Int,
         \A i \in 1 .. hi : m[i] = l[i], Agrees(s, l, lo, hi)
  PROVE  Agrees(s, m, lo, hi)
<1>1. Spooled(s, m, hi)
  <2>1. PICK r : StandsFor(s, r) /\ \A q \in r : q \in Malformed \/ \E i \in 1 .. hi : l[i] = q
    BY DEF Agrees, Spooled
  <2>2. \A q \in r : q \in Malformed \/ \E i \in 1 .. hi : m[i] = q
    BY <2>1, Zenon
  <2> QED
    BY <2>1, <2>2, Zenon DEF Spooled
<1>2. \A i \in lo + 1 .. hi : i \in 1 .. hi
  OBVIOUS
<1> QED
  BY <1>1, <1>2, Zenon DEF Agrees

\* An invalid number is recorded and not spooled.
LEMMA AgreesRejected ==
  ASSUME NEW s, NEW l, NEW lo \in Nat, NEW hi \in Int, NEW q \in Malformed,
         \A i \in lo + 1 .. hi : l[i] \in Recs, Agrees(s, l, lo, hi)
  PROVE  Agrees(Record(s, q), l, lo, hi)
<1>1. q \in Nat
  BY ReceiverAssumption
<1>2. PICK r : StandsFor(s, r) /\ \A p \in r : p \in Malformed \/ \E i \in 1 .. hi : l[i] = p
  BY DEF Agrees, Spooled
<1>3. /\ StandsFor(Record(s, q), Grow(s, r, q))
      /\ \A p \in Nat : Classify(s, p) \notin Accepted => Classify(Record(s, q), p) \notin Accepted
  BY <1>1, <1>2, RecordRemembers
<1>4. \A p \in Grow(s, r, q) : p \in r \/ p = q
  BY DEF Grow
<1>5. Spooled(Record(s, q), l, hi)
  BY <1>2, <1>3, <1>4, Zenon DEF Spooled
<1>6. \A i \in lo + 1 .. hi : l[i] # Other => l[i] \in Nat
  BY RecsType DEF Recs
<1> QED
  BY <1>3, <1>5, <1>6, Zenon DEF Agrees

\* One record is spooled and recorded, or replayed.
LEMMA AgreesOneMore ==
  ASSUME NEW s, NEW l, NEW lo \in Nat, NEW hi \in Nat,
         \A i \in lo + 1 .. hi + 1 : l[i] \in Recs, l[hi + 1] \in Recs, Agrees(s, l, lo, hi)
  PROVE  Agrees(Replayed(s, l[hi + 1]), l, lo, hi + 1)
<1> DEFINE q == l[hi + 1]
           t == Replayed(s, q)
<1>1. \A i \in 1 .. hi : i \in 1 .. hi + 1
  OBVIOUS
<1>2. hi + 1 \in 1 .. hi + 1
  OBVIOUS
<1>3. \A i \in lo + 1 .. hi + 1 : i \in lo + 1 .. hi \/ i = hi + 1
  OBVIOUS
<1>4. PICK r : StandsFor(s, r) /\ \A p \in r : p \in Malformed \/ \E i \in 1 .. hi : l[i] = p
  BY DEF Agrees, Spooled
<1>5. \A i \in lo + 1 .. hi : l[i] # Other => Classify(s, l[i]) \notin Accepted
  BY DEF Agrees
<1>6. CASE q = Other
  <2>1. t = s
    BY <1>6 DEF Replayed
  <2>2. Spooled(t, l, hi + 1)
    BY <1>1, <1>4, <2>1, Zenon DEF Spooled
  <2>3. \A i \in lo + 1 .. hi + 1 : l[i] # Other => Classify(t, l[i]) \notin Accepted
    BY <1>3, <1>5, <1>6, <2>1, Zenon
  <2> QED
    BY <2>2, <2>3 DEF Agrees
<1>7. CASE q # Other
  <2>1. q \in Nat /\ t = Record(s, q)
    BY <1>7, RecsType DEF Recs, Replayed
  <2> HIDE DEF q, t
  <2>2. /\ StandsFor(t, Grow(s, r, q))
        /\ Classify(t, q) \notin Accepted
        /\ \A p \in Nat : Classify(s, p) \notin Accepted => Classify(t, p) \notin Accepted
    BY <1>4, <2>1, RecordRemembers
  <2>3. \A p \in Grow(s, r, q) : p \in r \/ p = q
    BY DEF Grow
  <2>4. \A p \in Grow(s, r, q) : p \in Malformed \/ \E i \in 1 .. hi + 1 : l[i] = p
    BY <1>1, <1>2, <1>4, <2>3, Zenon DEF q
  <2>5. Spooled(t, l, hi + 1)
    BY <2>2, <2>4, Zenon DEF Spooled
  <2>6. \A i \in lo + 1 .. hi : l[i] # Other => l[i] \in Nat
    BY RecsType DEF Recs
  <2>7. \A i \in lo + 1 .. hi + 1 : l[i] # Other => Classify(t, l[i]) \notin Accepted
    BY <1>3, <1>5, <2>2, <2>6, Zenon DEF q
  <2>8. Agrees(t, l, lo, hi + 1)
    BY <2>5, <2>7 DEF Agrees
  <2> QED
    BY <2>8 DEF t, q
<1> QED
  BY <1>6, <1>7

\* The records after the k-th, as a sequence.
LEMMA Rest ==
  ASSUME NEW S, NEW l \in Seq(S), NEW k \in 0 .. Len(l)
  PROVE  LET s == SubSeq(l, k + 1, Len(l))
         IN  s \in Seq(S) /\ Len(s) = Len(l) - k /\ \A i \in 1 .. Len(s) : s[i] = l[k + i]
<1>1. Len(l) \in Nat /\ \A i \in k + 1 .. Len(l) : l[i] \in S
  BY LenProperties, ElementOfSeq
<1>2. k + 1 \in Int /\ Len(l) \in Int
  BY <1>1
<1> DEFINE s == SubSeq(l, k + 1, Len(l))
<1>3. /\ s \in Seq(S)
      /\ Len(s) = IF k + 1 <= Len(l) THEN Len(l) - (k + 1) + 1 ELSE 0
      /\ \A i \in 1 .. Len(l) - (k + 1) + 1 : s[i] = l[k + 1 + i - 1]
  BY <1>1, <1>2, SubSeqProperties
<1>4. Len(s) = Len(l) - k
  BY <1>1, <1>3
<1> HIDE DEF s
<1>5. \A i \in 1 .. Len(s) : i \in 1 .. Len(l) - (k + 1) + 1 /\ k + 1 + i - 1 = k + i
  BY <1>1, <1>4
<1>6. \A i \in 1 .. Len(s) : s[i] = l[k + i]
  BY <1>3, <1>5
<1>7. s \in Seq(S) /\ Len(s) = Len(l) - k /\ \A i \in 1 .. Len(s) : s[i] = l[k + i]
  BY <1>3, <1>4, <1>6
<1> QED
  BY <1>7 DEF s

\* A stream that agrees with k records agrees with all of them after the replay of the rest:
\* there is no first record after which it does not.
LEMMA ReplayAgrees ==
  ASSUME NEW l \in Seq(Recs), NEW k \in 0 .. Len(l), NEW lo \in Nat, NEW b, Agrees(b, l, lo, k)
  PROVE  Agrees(FoldLeft(Replayed, b, SubSeq(l, k + 1, Len(l))), l, lo, Len(l))
<1> DEFINE s == SubSeq(l, k + 1, Len(l))
<1>1. /\ s \in Seq(Recs) /\ Len(l) \in Nat /\ Len(s) = Len(l) - k
      /\ \A i \in 1 .. Len(s) : s[i] = l[k + i]
  BY Rest, LenProperties
<1>2. PICK h : Replays(h, b, s) /\ FoldLeft(Replayed, b, s) = h[Len(s)]
  BY <1>1, FoldReplays
<1> HIDE DEF s
<1> DEFINE Bad == {i \in 0 .. Len(s) : ~Agrees(h[i], l, lo, k + i)}
<1>3. Bad = {}
  <2> SUFFICES ASSUME Bad # {} PROVE FALSE
    OBVIOUS
  <2>1. Bad \in SUBSET Nat
    BY <1>1
  <2>2. PICK m \in Bad : \A i \in Bad : m <= i
    BY <2>1, Least
  <2>3. m \in 0 .. Len(s) /\ ~Agrees(h[m], l, lo, k + m)
    BY <2>2
  <2>4. m # 0
    <3>1. m = 0 => k + m = k /\ h[m] = b
      BY <1>2 DEF Replays
    <3> QED
      BY <2>3, <3>1
  <2>5. m - 1 \in 0 .. Len(s) /\ m - 1 \notin Bad
    BY <1>1, <2>2, <2>3, <2>4
  <2>6. Agrees(h[m - 1], l, lo, k + (m - 1))
    BY <2>5
  <2>7. m \in 1 .. Len(s) /\ h[m] = Replayed(h[m - 1], s[m]) /\ s[m] = l[k + m]
    BY <1>1, <1>2, <2>3, <2>4 DEF Replays
  <2>8. k + (m - 1) \in Nat /\ (k + (m - 1)) + 1 = k + m /\ k + m \in 1 .. Len(l)
    BY <1>1, <2>7
  <2>9. /\ \A i \in lo + 1 .. (k + (m - 1)) + 1 : l[i] \in Recs
        /\ l[(k + (m - 1)) + 1] \in Recs
    <3>1. \A i \in lo + 1 .. k + m : i \in 1 .. Len(l)
      BY <1>1, <2>8
    <3> QED
      BY <2>8, <3>1, ElementOfSeq
  <2>10. Agrees(Replayed(h[m - 1], l[(k + (m - 1)) + 1]), l, lo, (k + (m - 1)) + 1)
    BY <2>6, <2>8, <2>9, AgreesOneMore
  <2> QED
    BY <2>3, <2>7, <2>8, <2>10
<1>4. Len(s) \in 0 .. Len(s) /\ k + Len(s) = Len(l)
  BY <1>1
<1>5. Agrees(h[Len(s)], l, lo, Len(l))
  BY <1>3, <1>4
<1> QED
  BY <1>2, <1>5 DEF s

\* A replay makes a stream of a stream.
LEMMA ReplayStream ==
  ASSUME NEW s \in Seq(Recs), NEW b, Stream(b)
  PROVE  Stream(FoldLeft(Replayed, b, s))
<1>1. PICK h : Replays(h, b, s) /\ FoldLeft(Replayed, b, s) = h[Len(s)]
  BY FoldReplays
<1>2. Len(s) \in Nat /\ \A i \in 1 .. Len(s) : s[i] \in Recs
  BY LenProperties, ElementOfSeq
<1> DEFINE Bad == {i \in 0 .. Len(s) : ~Stream(h[i])}
<1>3. Bad = {}
  <2> SUFFICES ASSUME Bad # {} PROVE FALSE
    OBVIOUS
  <2>1. Bad \in SUBSET Nat
    BY <1>2
  <2>2. PICK m \in Bad : \A i \in Bad : m <= i
    BY <2>1, Least
  <2>3. m \in 0 .. Len(s) /\ ~Stream(h[m])
    BY <2>2
  <2>4. m # 0
    BY <1>1, <2>3 DEF Replays
  <2>5. m - 1 \in 0 .. Len(s) /\ m - 1 \notin Bad
    BY <1>2, <2>2, <2>3, <2>4
  <2>6. Stream(h[m - 1])
    BY <2>5
  <2>7. h[m] = Replayed(h[m - 1], s[m]) /\ s[m] \in Recs
    BY <1>1, <1>2, <2>3, <2>4 DEF Replays
  <2> QED
    BY <2>3, <2>6, <2>7, StreamGrows
<1>4. Len(s) \in 0 .. Len(s)
  BY <1>2
<1> QED
  BY <1>1, <1>3, <1>4

\* The filter's streams, in memory and in the snapshot, come from recorded numbers.
StreamsInv ==
  /\ log \in Seq(Recs)
  /\ Stream(win) /\ Stream(snap.win) /\ snap.pos \in Nat
  /\ snap = [pos |-> snap.pos, win |-> snap.win]

LEMMA InitStreams == Init => StreamsInv
<1> SUFFICES ASSUME Init PROVE StreamsInv
  OBVIOUS
<1>1. log = << >> /\ win = EmptyStream /\ snap = [pos |-> 0, win |-> EmptyStream]
  BY DEF Init
<1>2. << >> \in Seq(Recs)
  OBVIOUS
<1>3. Stream(EmptyStream)
  BY EmptyStands DEF Stream
<1>4. snap.pos = 0 /\ snap.win = EmptyStream
  BY <1>1
<1> QED
  BY <1>1, <1>2, <1>3, <1>4 DEF StreamsInv

\* Appending keeps the records that are there.
LEMMA Written ==
  ASSUME log \in Seq(Recs), NEW rec \in Recs, log' = log \/ log' = Append(log, rec)
  PROVE  /\ log' \in Seq(Recs) /\ Len(log) \in Nat /\ Len(log') \in Nat
         /\ Len(log) <= Len(log') /\ \A i \in 1 .. Len(log) : log'[i] = log[i]
         /\ log' = Append(log, rec) => Len(log') = Len(log) + 1 /\ log'[Len(log) + 1] = rec
<1>1. Len(log) \in Nat
  BY LenProperties
<1>2. CASE log' = Append(log, rec)
  BY <1>1, <1>2
<1>3. CASE log' = log
  <2>1. log' # Append(log, rec)
    <3>1. Len(Append(log, rec)) = Len(log) + 1
      OBVIOUS
    <3> QED
      BY <1>1, <1>3, <3>1
  <2> QED
    BY <1>1, <1>3, <2>1
<1> QED
  BY <1>2, <1>3

LEMMA OtherIsRec == Other \in Recs
BY DEF Recs

\* What a restart keeps of the spool.
LEMMA Kept ==
  ASSUME SpoolInv, StreamsInv, NEW kind, Restart(kind)
  PROVE  \E n \in durable .. Len(log) :
           /\ log' \in Seq(Recs) /\ Len(log') = n /\ n \in Nat
           /\ \A i \in 1 .. n : log'[i] = log[i]
           /\ kind = "process" => n = Len(log)
           /\ durable' = IF kind = "power" THEN n ELSE durable
           /\ synced' = n /\ dirty' = FALSE
<1>1. PICK n \in durable .. Len(log) :
        /\ kind = "process" => n = Len(log)
        /\ log' = SubSeq(log, 1, n)
        /\ durable' = IF kind = "power" THEN n ELSE durable
        /\ synced' = n /\ dirty' = FALSE
  BY DEF Restart, Recover
<1>2. /\ log \in Seq(Recs) /\ Len(log) \in Nat /\ durable \in Nat /\ n \in Nat /\ n <= Len(log)
  BY <1>1, LenProperties DEF SpoolInv, StreamsInv
<1>3. \A i \in 1 .. n : log[i] \in Recs
  BY <1>2, ElementOfSeq
<1>4. /\ log' \in Seq(Recs) /\ Len(log') = IF 1 <= n THEN n - 1 + 1 ELSE 0
      /\ \A i \in 1 .. n - 1 + 1 : log'[i] = log[1 + i - 1]
  BY <1>1, <1>2, <1>3, SubSeqProperties
<1>5. Len(log') = n /\ \A i \in 1 .. n : log'[i] = log[i]
  BY <1>2, <1>4
<1> QED
  BY <1>1, <1>2, <1>4, <1>5

\* The later of two positions.
LEMMA LaterOf ==
  ASSUME NEW a \in Nat, NEW b \in Nat
  PROVE  /\ Max({a, b}) \in Nat
         /\ (a <= b => Max({a, b}) = b) /\ (b <= a => Max({a, b}) = a)
<1>1. Max({a, b}) \in {a, b} /\ Max({a, b}) >= a /\ Max({a, b}) >= b
  BY Pairs
<1> QED
  BY <1>1

LEMMA RestartStreams ==
  ASSUME SpoolInv, PublisherInv, StreamsInv, NEW kind, Restart(kind)
  PROVE  StreamsInv'
<1>1. UNCHANGED snap /\ win' = Restored(log')
  BY DEF Restart
<1>2. log' \in Seq(Recs) /\ Len(log') \in Nat
  BY Kept, LenProperties
<1> DEFINE start == Max({first * SegCap, snap.pos})
<1>3. start \in Nat
  <2>1. first * SegCap \in Nat /\ snap.pos \in Nat
    BY ReceiverAssumption DEF SpoolInv, StreamsInv
  <2> QED
    BY <2>1, LaterOf, Zenon
<1> DEFINE s == SubSeq(log', start + 1, Len(log'))
<1>4. s \in Seq(Recs)
  <2>1. start + 1 \in Int /\ Len(log') \in Int
    BY <1>2, <1>3
  <2>2. \A i \in start + 1 .. Len(log') : i \in 1 .. Len(log')
    BY <1>2, <1>3
  <2>3. \A i \in start + 1 .. Len(log') : log'[i] \in Recs
    BY <1>2, <2>2, ElementOfSeq
  <2> HIDE DEF start
  <2> QED
    BY <2>1, <2>3, SubSeqProperties
<1>5. win' = FoldLeft(Replayed, snap.win, s)
  BY <1>1, Zenon DEF Restored
<1> HIDE DEF s
<1>6. Stream(win')
  <2>1. Stream(snap.win)
    BY DEF StreamsInv
  <2>2. Stream(FoldLeft(Replayed, snap.win, s))
    BY <1>4, <2>1, ReplayStream
  <2> QED
    BY <1>5, <2>2
<1> QED
  BY <1>1, <1>2, <1>6 DEF StreamsInv

\* What the receive thread does to the spool and the stream.
LEMMA DeliverWrites ==
  ASSUME Deliver
  PROVE  /\ UNCHANGED <<first, synced, snap, publisher, crashes>>
         /\ \/ \E q \in Seqs : log' = Append(log, q) /\ win' = Record(win, q) /\ Appended(q)
            \/ /\ log' = log \/ log' = Append(log, Other)
               /\ TryAppend(Other) \/ UNCHANGED <<log, durable, dirty>>
               /\ win' = win \/ \E q \in Malformed : win' = Record(win, q)
<1>1. ASSUME NEW q \in Seqs, Accept(q)
      PROVE  /\ UNCHANGED <<first, synced, snap, publisher, crashes>>
             /\ log' = Append(log, q) /\ win' = Record(win, q) /\ Appended(q)
  BY <1>1 DEF Accept, Appended
<1>2. Quarantine => /\ log' = log \/ log' = Append(log, Other)
                    /\ TryAppend(Other) \/ UNCHANGED <<log, durable, dirty>>
  BY DEF Quarantine, TryAppend, Appended
<1>3. ASSUME NEW q \in Seqs, Reject(q)
      PROVE  /\ UNCHANGED <<first, synced, snap, publisher, crashes>>
             /\ Quarantine /\ q \in Malformed /\ win' = Record(win, q)
  BY <1>3 DEF Reject, Valid
<1>4. ASSUME NEW n \in 0 .. MaxHealth - 1, Health(n)
      PROVE  /\ UNCHANGED <<first, synced, snap, publisher, crashes>>
             /\ Quarantine /\ win' = win
  BY <1>4 DEF Health
<1> QED
  BY <1>1, <1>2, <1>3, <1>4, Zenon DEF Deliver

\* What housekeeping does to them.
LEMMA HousekeepingWrites ==
  ASSUME Housekeeping
  PROVE  /\ UNCHANGED <<first, win, healthSeen, publisher, crashes>>
         /\ log' = log \/ log' = Append(log, Other)
         /\ (Sync(FALSE) /\ log' = log) \/ Sync(TRUE)
         /\ snap' = snap \/ snap' = [pos |-> Len(log'), win |-> win]
BY DEF Housekeeping

\* The publisher and the broker leave them alone, apart from the oldest segment.
LEMMA OthersWrite ==
  ASSUME Publish \/ \E i \in 1 .. MaxLog : Store(i)
  PROVE  /\ UNCHANGED <<log, synced, dirty, durable, filter, crashes>>
         /\ UNCHANGED first \/ Release
<1>1. CASE Publish
  BY <1>1 DEF Publish, Produce, PollDelivered, PollFailed, Poll, Persist, PersistError, Release,
              EndRound, NewRound, spool
<1>2. ASSUME NEW i \in 1 .. MaxLog, Store(i)
      PROVE  UNCHANGED <<spool, filter, crashes>>
  BY <1>2 DEF Store
<1> QED
  BY <1>1, <1>2 DEF spool

LEMMA StreamsStep ==
  ASSUME SpoolInv, PublisherInv, StreamsInv, [Next]_vars
  PROVE  StreamsInv'
<1>1. CASE UNCHANGED vars
  BY <1>1 DEF StreamsInv, vars, spool, filter
<1>2. CASE Deliver
  <2>1. UNCHANGED snap
    BY <1>2, DeliverWrites
  <2>2. ASSUME NEW q \in Seqs, log' = Append(log, q), win' = Record(win, q)
        PROVE  StreamsInv'
    <3>1. q \in Recs /\ q # Other
      BY RecsType DEF Recs
    <3>2. Replayed(win, q) = win'
      BY <2>2, <3>1 DEF Replayed
    <3> QED
      BY <2>1, <2>2, <3>1, <3>2, Written, StreamGrows DEF StreamsInv
  <2>3. ASSUME log' = log \/ log' = Append(log, Other),
               win' = win \/ \E q \in Malformed : win' = Record(win, q)
        PROVE  StreamsInv'
    <3>1. \A q \in Malformed : q \in Recs /\ q # Other
      BY ReceiverAssumption DEF Recs, Seqs, Other
    <3>2. \A q \in Malformed : Replayed(win, q) = Record(win, q)
      BY <3>1 DEF Replayed
    <3>3. Stream(win')
      BY <2>3, <3>1, <3>2, StreamGrows DEF StreamsInv
    <3> QED
      BY <2>1, <2>3, <3>3, Written, OtherIsRec DEF StreamsInv
  <2> QED
    BY <1>2, <2>2, <2>3, DeliverWrites
<1>3. CASE Housekeeping
  <2>1. /\ UNCHANGED win
        /\ log' = log \/ log' = Append(log, Other)
        /\ snap' = snap \/ snap' = [pos |-> Len(log'), win |-> win]
    BY <1>3, HousekeepingWrites
  <2>2. log' \in Seq(Recs) /\ Len(log') \in Nat
    BY <2>1, Written, OtherIsRec DEF StreamsInv
  <2>3. CASE snap' = snap
    BY <2>1, <2>2, <2>3 DEF StreamsInv
  <2>4. CASE snap' = [pos |-> Len(log'), win |-> win]
    <3>1. snap'.pos = Len(log') /\ snap'.win = win
      BY <2>4
    <3> QED
      BY <2>1, <2>2, <2>4, <3>1 DEF StreamsInv
  <2> QED
    BY <2>1, <2>3, <2>4
<1>4. CASE Publish \/ \E i \in 1 .. MaxLog : Store(i)
  BY <1>4, OthersWrite DEF StreamsInv, filter
<1>5. ASSUME NEW kind \in {"process", "power"}, Restart(kind)
      PROVE  StreamsInv'
  BY <1>5, RestartStreams
<1> QED
  BY <1>1, <1>2, <1>3, <1>4, <1>5 DEF Next

LEMMA StreamsInvariant == Spec => []StreamsInv
<1>1. Init => StreamsInv
  BY InitStreams
<1>2. SpoolInv /\ PublisherInv /\ StreamsInv /\ [Next]_vars => StreamsInv'
  BY StreamsStep
<1> QED
  BY <1>1, <1>2, ReceiverInvariant, PTL DEF Spec

-----------------------------------------------------------------------------
(***************************************************************************)
(* The filter and the spool agree                                          *)
(***************************************************************************)

\* After a crash of the process the host does not lose power.
PowerFirst ==
  \A plan \in CrashPlans :
    /\ plan \in Seq({"process", "power"})
    /\ \A i, j \in 1 .. Len(plan) : i < j /\ plan[i] = "process" => plan[j] = "process"

\* So far the process ended only with the power.
NoneKilled == \A i \in 1 .. Len(crashes) : crashes[i] = "power"

\* The publisher and the snapshot stay behind the spool, and behind what is durable until
\* the process is killed.
PlacesInv ==
  /\ readPos <= synced /\ synced <= Len(log) /\ snap.pos <= Len(log)
  /\ dirty \in BOOLEAN /\ crashes \in Seq({"process", "power"})
  /\ NoneKilled => /\ synced <= durable /\ snap.pos <= durable
                   /\ ~dirty => durable = Len(log)

LEMMA InitPlaces == Init => PlacesInv
<1> SUFFICES ASSUME Init PROVE PlacesInv
  OBVIOUS
<1>1. /\ crashes = << >> /\ log = << >> /\ readPos = 0 /\ synced = 0 /\ durable = 0
      /\ dirty = FALSE /\ snap = [pos |-> 0, win |-> EmptyStream]
  BY DEF Init
<1>2. crashes \in Seq({"process", "power"}) /\ Len(log) = 0 /\ snap.pos = 0
  BY <1>1
<1>3. dirty \in BOOLEAN
  BY <1>1, Zenon
<1> QED
  BY <1>1, <1>2, <1>3 DEF PlacesInv

\* The crashes and the next one begin a plan.
LEMMA PlanPrefix ==
  ASSUME PowerFirst, crashes \in Seq({"process", "power"}),
         NEW kind \in {"process", "power"}, Restart(kind)
  PROVE  kind = "power" => NoneKilled
<1>1. PICK plan \in CrashPlans : IsPrefix(Append(crashes, kind), plan)
  BY DEF Restart
<1> DEFINE s == Append(crashes, kind)
           n == Len(crashes) + 1
<1>2. /\ Len(crashes) \in Nat /\ s \in Seq({"process", "power"}) /\ Len(s) = n /\ s[n] = kind
      /\ \A i \in 1 .. Len(crashes) : s[i] = crashes[i]
  BY LenProperties
<1>3. plan \in Seq({"process", "power"})
  BY <1>1 DEF PowerFirst
<1>4. n \in 1 .. Len(plan) /\ SubSeq(s, 1, n) = SubSeq(plan, 1, n) /\ Len(plan) \in Nat
  BY <1>1, <1>2, <1>3, LenProperties DEF IsPrefix
<1> HIDE DEF s
<1>5. n \in Nat \ {0}
  BY <1>2
<1>6. \A i \in 1 .. n : s[i] = plan[i]
  <2>1. \A i \in 1 .. n : s[i] \in {"process", "power"}
    BY <1>2, ElementOfSeq
  <2>2. \A i \in 1 .. n : plan[i] \in {"process", "power"}
    BY <1>3, <1>4, ElementOfSeq
  <2>3. \A i \in 1 .. n - 1 + 1 : SubSeq(s, 1, n)[i] = s[1 + i - 1]
    BY <1>5, <2>1, SubSeqProperties
  <2>4. \A i \in 1 .. n - 1 + 1 : SubSeq(plan, 1, n)[i] = plan[1 + i - 1]
    BY <1>5, <2>2, SubSeqProperties
  <2>5. \A i \in 1 .. n : i \in 1 .. n - 1 + 1 /\ 1 + i - 1 = i
    BY <1>5
  <2> QED
    BY <1>4, <2>3, <2>4, <2>5
<1>7. ASSUME kind = "power", NEW i \in 1 .. Len(crashes), crashes[i] # "power"
      PROVE  FALSE
  <2>1. /\ i \in 1 .. n /\ i < n /\ n \in 1 .. n /\ i \in 1 .. Len(plan)
    BY <1>2, <1>4
  <2>2. plan[i] = crashes[i] /\ plan[n] = "power"
    BY <1>2, <1>6, <1>7, <2>1
  <2>3. plan[i] = "process"
    <3>1. crashes[i] \in {"process", "power"}
      BY ElementOfSeq
    <3> QED
      BY <1>7, <2>2, <3>1
  <2>4. plan[n] = "process"
    BY <1>1, <1>4, <2>1, <2>3 DEF PowerFirst
  <2> QED
    BY <2>2, <2>4
<1> QED
  BY <1>7 DEF NoneKilled

LEMMA DeliverPlaces ==
  ASSUME SpoolInv, StreamsInv, PlacesInv, Deliver
  PROVE  PlacesInv'
<1>1. UNCHANGED <<readPos, synced, snap, crashes>>
  BY DeliverWrites DEF publisher
<1>2. \E rec \in Recs : Appended(rec) \/ UNCHANGED <<log, durable, dirty>>
  BY DeliverWrites, OtherIsRec DEF TryAppend, Recs
<1>3. PICK rec \in Recs : Appended(rec) \/ UNCHANGED <<log, durable, dirty>>
  BY <1>2
<1>4. CASE UNCHANGED <<log, durable, dirty>>
  BY <1>1, <1>4 DEF PlacesInv, NoneKilled
<1>5. CASE Appended(rec)
  <2>1. dirty' = TRUE /\ durable' \in {durable, Len(log)} /\ log' = Append(log, rec)
    BY <1>5 DEF Appended
  <2>2. /\ Len(log) \in Nat /\ durable \in Nat /\ durable <= Len(log) /\ synced \in Nat
        /\ snap.pos \in Nat
    BY LenProperties DEF SpoolInv, StreamsInv
  <2>3. durable' \in Nat /\ durable' >= durable
    BY <2>1, <2>2
  <2>4. Len(log') = Len(log) + 1
    BY <2>1 DEF StreamsInv
  <2>5. NoneKilled' => NoneKilled
    BY <1>1 DEF NoneKilled
  <2>6. NoneKilled' => synced' <= durable' /\ snap'.pos <= durable'
    BY <1>1, <2>2, <2>3, <2>5 DEF PlacesInv
  <2>7. synced' <= Len(log') /\ snap'.pos <= Len(log')
    BY <1>1, <2>2, <2>4 DEF PlacesInv
  <2> QED
    BY <1>1, <2>1, <2>6, <2>7 DEF PlacesInv
<1> QED
  BY <1>3, <1>4, <1>5

LEMMA HousekeepingPlaces ==
  ASSUME SpoolInv, PublisherInv, StreamsInv, PlacesInv, Housekeeping
  PROVE  PlacesInv'
<1>1. /\ UNCHANGED <<readPos, crashes>>
      /\ log' = log \/ log' = Append(log, Other)
      /\ (Sync(FALSE) /\ log' = log) \/ Sync(TRUE)
      /\ snap' = snap \/ snap' = [pos |-> Len(log'), win |-> win]
  BY HousekeepingWrites DEF publisher
<1>2. /\ Len(log) \in Nat /\ Len(log') \in Nat /\ Len(log) <= Len(log')
      /\ snap.pos \in Nat /\ synced \in Nat /\ readPos \in Nat /\ durable \in Nat
  BY <1>1, Written, OtherIsRec DEF SpoolInv, PublisherInv, StreamsInv
<1>3. snap'.pos = snap.pos \/ snap'.pos = Len(log')
  BY <1>1
<1>4. synced' = Len(log') /\ dirty' = FALSE
  BY <1>1 DEF Sync
<1>5. NoneKilled' => durable' = Len(log')
  <2>1. NoneKilled' => NoneKilled
    BY <1>1 DEF NoneKilled
  <2>2. CASE Sync(FALSE) /\ log' = log
    BY <2>1, <2>2 DEF Sync, PlacesInv
  <2>3. CASE Sync(TRUE)
    BY <2>3 DEF Sync
  <2> QED
    BY <1>1, <2>2, <2>3
<1>6. snap'.pos <= Len(log')
  BY <1>2, <1>3 DEF PlacesInv
<1>7. readPos' <= synced'
  BY <1>1, <1>2, <1>4 DEF PlacesInv
<1>8. dirty' \in BOOLEAN
  BY <1>4, Zenon
<1> QED
  BY <1>1, <1>2, <1>4, <1>5, <1>6, <1>7, <1>8 DEF PlacesInv

LEMMA OthersPlaces ==
  ASSUME SpoolInv, PublisherInv, PlacesInv, Publish \/ \E i \in 1 .. MaxLog : Store(i)
  PROVE  PlacesInv'
<1>1. UNCHANGED <<log, synced, dirty, durable, snap, crashes>>
  BY OthersWrite DEF filter
<1>2. readPos' \in {readPos, cursor} \/ Produce
  <2>1. CASE Publish
    BY <2>1 DEF Publish, PollDelivered, PollFailed, Poll, Persist, PersistError, Release,
           EndRound, NewRound, spool
  <2>2. ASSUME NEW i \in 1 .. MaxLog, Store(i)
        PROVE  readPos' = readPos
    BY <2>2 DEF Store
  <2> QED
    BY <2>1, <2>2
<1>3. readPos' <= synced
  <2>1. CASE Produce
    <3>1. readPos' = Max(Unread) /\ Unread # {}
      BY <2>1 DEF Produce
    <3>2. synced \in Unread /\ \A y \in Unread : synced >= y
      BY <3>1 DEF Unread, SpoolInv, PublisherInv
    <3>3. Max(Unread) \in Unread
      BY <3>2 DEF Max
    <3> QED
      BY <3>1, <3>3 DEF Unread, SpoolInv, PublisherInv
  <2>2. CASE readPos' \in {readPos, cursor}
    BY <2>2 DEF SpoolInv, PublisherInv, PlacesInv
  <2> QED
    BY <1>2, <2>1, <2>2
<1> QED
  BY <1>1, <1>3 DEF PlacesInv, NoneKilled

\* What survives a restart: the snapshot's records, and what the cursor's file is past.
LEMMA RestartKeeps ==
  ASSUME PowerFirst, SpoolInv, PublisherInv, StreamsInv, PlacesInv,
         NEW kind \in {"process", "power"}, Restart(kind)
  PROVE  snap.pos <= Len(log') /\ cursorFile <= Len(log')
<1>1. PICK n \in durable .. Len(log) :
        Len(log') = n /\ n \in Nat /\ (kind = "process" => n = Len(log))
  BY Kept
<1>2. /\ cursorFile \in Nat /\ cursor \in Nat /\ readPos \in Nat /\ synced \in Nat
      /\ durable \in Nat /\ Len(log) \in Nat /\ snap.pos \in Nat /\ durable <= n /\ n <= Len(log)
      /\ cursorFile <= cursor /\ cursor <= readPos /\ readPos <= synced /\ synced <= Len(log)
      /\ snap.pos <= Len(log)
  BY <1>1, LenProperties DEF SpoolInv, PublisherInv, StreamsInv, PlacesInv
<1>3. CASE kind = "process"
  BY <1>1, <1>2, <1>3
<1>4. CASE kind = "power"
  <2>1. NoneKilled
    BY <1>4, PlanPrefix DEF PlacesInv
  <2>2. synced <= durable /\ snap.pos <= durable
    BY <2>1 DEF PlacesInv
  <2> QED
    BY <1>1, <1>2, <2>2
<1> QED
  BY <1>3, <1>4

LEMMA RestartPlaces ==
  ASSUME PowerFirst, SpoolInv, PublisherInv, StreamsInv, PlacesInv,
         NEW kind \in {"process", "power"}, Restart(kind)
  PROVE  PlacesInv'
<1>1. PICK n \in durable .. Len(log) :
        /\ Len(log') = n /\ n \in Nat
        /\ durable' = IF kind = "power" THEN n ELSE durable
        /\ synced' = n /\ dirty' = FALSE
  BY Kept
<1>2. snap.pos <= n /\ cursorFile <= n
  BY <1>1, RestartKeeps
<1>3. UNCHANGED snap /\ readPos' = cursorFile /\ crashes' = Append(crashes, kind)
  BY DEF Restart
<1>4. crashes' \in Seq({"process", "power"})
  BY <1>3 DEF PlacesInv
<1>5. NoneKilled' => kind = "power"
  <2>1. Len(crashes) \in Nat /\ Len(crashes') = Len(crashes) + 1
        /\ crashes'[Len(crashes) + 1] = kind
    BY <1>3, LenProperties DEF PlacesInv
  <2>2. Len(crashes) + 1 \in 1 .. Len(crashes')
    BY <2>1
  <2> QED
    BY <2>1, <2>2 DEF NoneKilled
<1>6. dirty' \in BOOLEAN
  BY <1>1, Zenon
<1> QED
  BY <1>1, <1>2, <1>3, <1>4, <1>5, <1>6 DEF PlacesInv

LEMMA PlacesStep ==
  ASSUME PowerFirst, SpoolInv, PublisherInv, StreamsInv, PlacesInv, [Next]_vars
  PROVE  PlacesInv'
<1>1. CASE UNCHANGED vars
  BY <1>1 DEF PlacesInv, NoneKilled, vars, spool, publisher, filter
<1>2. CASE Deliver
  BY <1>2, DeliverPlaces
<1>3. CASE Housekeeping
  BY <1>3, HousekeepingPlaces
<1>4. CASE Publish \/ \E i \in 1 .. MaxLog : Store(i)
  BY <1>4, OthersPlaces
<1>5. ASSUME NEW kind \in {"process", "power"}, Restart(kind)
      PROVE  PlacesInv'
  BY <1>5, RestartPlaces
<1> QED
  BY <1>1, <1>2, <1>3, <1>4, <1>5 DEF Next

\* The filter in memory agrees with the whole spool, the snapshot with the records up to the
\* position it was written with.
MatchInv ==
  /\ Agrees(win, log, first * SegCap, Len(log))
  /\ Agrees(snap.win, log, first * SegCap, snap.pos)

LEMMA InitMatch == Init => MatchInv
<1> SUFFICES ASSUME Init PROVE MatchInv
  OBVIOUS
<1>1. /\ log = << >> /\ first = 0 /\ win = EmptyStream
      /\ snap = [pos |-> 0, win |-> EmptyStream]
  BY DEF Init
<1>2. Len(log) = 0 /\ first * SegCap = 0 /\ snap.pos = 0 /\ snap.win = EmptyStream
  BY <1>1, ReceiverAssumption
<1>3. Spooled(EmptyStream, log, 0)
  BY EmptyStands DEF Spooled
<1>4. Agrees(EmptyStream, log, 0, 0)
  BY <1>3 DEF Agrees
<1> QED
  BY <1>1, <1>2, <1>4 DEF MatchInv

\* Where the spool begins.
LEMMA Start ==
  ASSUME SpoolInv, StreamsInv
  PROVE  first * SegCap \in Nat /\ snap.pos \in Nat /\ Len(log) \in Nat
BY ReceiverAssumption, LenProperties DEF SpoolInv, StreamsInv

\* An appended record leaves what agreed in agreement, and the filter agrees with it once
\* it is recorded.
LEMMA WrittenMatch ==
  ASSUME SpoolInv, StreamsInv, MatchInv, snap.pos <= Len(log), NEW rec \in Recs,
         log' = log \/ log' = Append(log, rec)
  PROVE  LET lo == first * SegCap
         IN  /\ Agrees(win, log', lo, Len(log))
             /\ Agrees(snap.win, log', lo, snap.pos)
             /\ log' = Append(log, rec) => Agrees(Replayed(win, rec), log', lo, Len(log'))
<1> DEFINE lo == first * SegCap
<1>1. lo \in Nat /\ snap.pos \in Nat /\ Len(log) \in Nat
  BY Start
<1>2. Agrees(win, log, lo, Len(log)) /\ Agrees(snap.win, log, lo, snap.pos)
  BY DEF MatchInv
<1> HIDE DEF lo
<1>3. /\ log' \in Seq(Recs) /\ \A i \in 1 .. Len(log) : log'[i] = log[i]
      /\ log' = Append(log, rec) => Len(log') = Len(log) + 1 /\ log'[Len(log) + 1] = rec
  BY Written DEF StreamsInv
<1>4. \A i \in 1 .. snap.pos : log'[i] = log[i]
  <2>1. \A i \in 1 .. snap.pos : i \in 1 .. Len(log)
    BY <1>1
  <2> QED
    BY <1>3, <2>1
<1>5. Agrees(win, log', lo, Len(log))
  BY <1>1, <1>2, <1>3, AgreesSameRecords
<1>6. Agrees(snap.win, log', lo, snap.pos)
  BY <1>1, <1>2, <1>4, AgreesSameRecords
<1>7. ASSUME log' = Append(log, rec)
      PROVE  Agrees(Replayed(win, rec), log', lo, Len(log'))
  <2>1. Len(log') = Len(log) + 1 /\ log'[Len(log) + 1] = rec
    BY <1>3, <1>7
  <2>2. \A i \in lo + 1 .. Len(log) + 1 : log'[i] \in Recs
    <3>1. \A i \in lo + 1 .. Len(log) + 1 : i \in 1 .. Len(log')
      BY <1>1, <2>1
    <3> QED
      BY <1>3, <3>1, ElementOfSeq
  <2>3. Agrees(Replayed(win, log'[Len(log) + 1]), log', lo, Len(log) + 1)
    BY <1>1, <1>5, <2>1, <2>2, AgreesOneMore
  <2> QED
    BY <2>1, <2>3
<1> QED
  BY <1>5, <1>6, <1>7 DEF lo

LEMMA DeliverMatch ==
  ASSUME SpoolInv, StreamsInv, PlacesInv, MatchInv, Deliver
  PROVE  MatchInv'
<1> DEFINE lo == first * SegCap
<1>1. UNCHANGED <<first, snap>>
  BY DeliverWrites
<1>2. snap.pos <= Len(log) /\ lo \in Nat /\ Len(log) \in Nat
  BY Start DEF PlacesInv
<1>3. SUFFICES Agrees(win', log', lo, Len(log')) /\ Agrees(snap.win, log', lo, snap.pos)
  BY <1>1 DEF MatchInv
<1>4. ASSUME NEW q \in Seqs, log' = Append(log, q), win' = Record(win, q)
      PROVE  Agrees(win', log', lo, Len(log')) /\ Agrees(snap.win, log', lo, snap.pos)
  <2>1. q \in Recs /\ Replayed(win, q) = win'
    BY <1>4, RecsType DEF Recs, Replayed
  <2> QED
    BY <1>2, <1>4, <2>1, WrittenMatch
<1>5. ASSUME log' = log \/ log' = Append(log, Other),
             win' = win \/ \E q \in Malformed : win' = Record(win, q)
      PROVE  Agrees(win', log', lo, Len(log')) /\ Agrees(snap.win, log', lo, snap.pos)
  <2>1. /\ Agrees(win, log', lo, Len(log)) /\ Agrees(snap.win, log', lo, snap.pos)
        /\ log' = Append(log, Other) => Agrees(Replayed(win, Other), log', lo, Len(log'))
    BY <1>2, <1>5, OtherIsRec, WrittenMatch
  <2>2. Replayed(win, Other) = win
    BY DEF Replayed
  <2>3. Agrees(win, log', lo, Len(log'))
    BY <1>5, <2>1, <2>2
  <2>4. /\ log' \in Seq(Recs) /\ Len(log') \in Nat
    BY <1>5, Written, OtherIsRec DEF StreamsInv
  <2>5. ASSUME NEW q \in Malformed
        PROVE  Agrees(Record(win, q), log', lo, Len(log'))
    <3>1. \A i \in lo + 1 .. Len(log') : i \in 1 .. Len(log')
      BY <1>2, <2>4
    <3>2. \A i \in lo + 1 .. Len(log') : log'[i] \in Recs
      BY <2>4, <3>1, ElementOfSeq
    <3> HIDE DEF lo
    <3>3. Len(log') \in Int
      BY <2>4
    <3> QED
      BY <1>2, <2>3, <3>2, <3>3, AgreesRejected
  <2> QED
    BY <1>5, <2>1, <2>3, <2>5
<1> QED
  BY <1>4, <1>5, DeliverWrites

LEMMA HousekeepingMatch ==
  ASSUME SpoolInv, StreamsInv, PlacesInv, MatchInv, Housekeeping
  PROVE  MatchInv'
<1> DEFINE lo == first * SegCap
<1>1. /\ UNCHANGED <<first, win>>
      /\ log' = log \/ log' = Append(log, Other)
      /\ snap' = snap \/ snap' = [pos |-> Len(log'), win |-> win]
  BY HousekeepingWrites
<1>2. snap.pos <= Len(log)
  BY DEF PlacesInv
<1>3. /\ Agrees(win, log', lo, Len(log)) /\ Agrees(snap.win, log', lo, snap.pos)
      /\ log' = Append(log, Other) => Agrees(Replayed(win, Other), log', lo, Len(log'))
  BY <1>1, <1>2, OtherIsRec, WrittenMatch
<1>4. Replayed(win, Other) = win
  BY DEF Replayed
<1>5. Agrees(win, log', lo, Len(log'))
  BY <1>1, <1>3, <1>4
<1>6. Agrees(snap'.win, log', lo, snap'.pos)
  <2>1. CASE snap' = snap
    BY <1>3, <2>1
  <2>2. CASE snap' = [pos |-> Len(log'), win |-> win]
    <3>1. snap'.pos = Len(log') /\ snap'.win = win
      BY <2>2
    <3> QED
      BY <1>5, <3>1
  <2> QED
    BY <1>1, <2>1, <2>2
<1> QED
  BY <1>1, <1>5, <1>6 DEF MatchInv

LEMMA OthersMatch ==
  ASSUME SpoolInv, PublisherInv, StreamsInv, MatchInv,
         Publish \/ \E i \in 1 .. MaxLog : Store(i)
  PROVE  MatchInv'
<1>1. UNCHANGED <<log, win, snap>> /\ (UNCHANGED first \/ Release)
  BY OthersWrite DEF filter
<1>2. CASE UNCHANGED first
  BY <1>1, <1>2 DEF MatchInv
<1>3. CASE Release
  <2>1. /\ log \in Seq(Int) /\ first \in Nat /\ cursor \in Nat /\ first * SegCap <= cursor
        /\ first' = Oldest(cursor)
    <3>1. pc = "release" /\ first' = Oldest(cursor)
      BY <1>3 DEF Release
    <3>2. cursorFile = cursor
      BY <3>1 DEF PublisherInv
    <3> QED
      BY <3>1, <3>2 DEF PublisherInv, SpoolInv
  <2>2. first' \in Nat /\ first' >= first
    BY <2>1, OldestBelow
  <2>3. first * SegCap <= first' * SegCap
    <3>1. first \in Int /\ first' \in Int /\ SegCap \in Nat /\ first <= first'
      BY <2>1, <2>2, ReceiverAssumption
    <3> QED
      BY <3>1, TimesMonotone, Zenon
  <2>4. first * SegCap \in Int /\ first' * SegCap \in Int /\ Len(log) \in Int /\ snap.pos \in Int
    BY <2>1, <2>2, Start, ReceiverAssumption
  <2>5. Agrees(win, log, first' * SegCap, Len(log))
    BY <2>3, <2>4, AgreesAfterRelease, Zenon DEF MatchInv
  <2>6. Agrees(snap.win, log, first' * SegCap, snap.pos)
    BY <2>3, <2>4, AgreesAfterRelease, Zenon DEF MatchInv
  <2> QED
    BY <1>1, <2>5, <2>6 DEF MatchInv
<1> QED
  BY <1>1, <1>2, <1>3

\* The snapshot agrees with the records before the replay starts, and the replay brings it
\* up to the end of what is left.
LEMMA RestartMatch ==
  ASSUME PowerFirst, SpoolInv, PublisherInv, StreamsInv, PlacesInv, MatchInv,
         NEW kind \in {"process", "power"}, Restart(kind)
  PROVE  MatchInv'
<1> DEFINE lo    == first * SegCap
           start == Max({lo, snap.pos})
<1>1. UNCHANGED <<first, snap>> /\ win' = Restored(log')
  BY DEF Restart
<1>2. /\ log' \in Seq(Recs) /\ Len(log') \in Nat
      /\ \A i \in 1 .. Len(log') : log'[i] = log[i]
  BY Kept
<1>3. lo \in Nat /\ snap.pos \in Nat /\ Len(log) \in Nat
  BY Start
<1>4. snap.pos <= Len(log') /\ lo <= Len(log')
  <2>1. snap.pos <= Len(log') /\ cursorFile <= Len(log')
    BY RestartKeeps
  <2>2. lo <= cursorFile /\ cursorFile \in Nat
    BY DEF PublisherInv
  <2> HIDE DEF lo
  <2> QED
    BY <1>2, <1>3, <2>1, <2>2
<1>5. Agrees(snap.win, log, lo, snap.pos)
  BY DEF MatchInv
<1> HIDE DEF lo
<1>6. Agrees(snap.win, log', lo, snap.pos)
  <2>1. \A i \in 1 .. snap.pos : log'[i] = log[i]
    <3>1. \A i \in 1 .. snap.pos : i \in 1 .. Len(log')
      BY <1>2, <1>3, <1>4
    <3> QED
      BY <1>2, <3>1
  <2> QED
    BY <1>3, <1>5, <2>1, AgreesSameRecords
<1>7. start \in 0 .. Len(log') /\ Agrees(snap.win, log', lo, start)
  <2>1. CASE lo <= snap.pos
    <3>1. start = snap.pos
      BY <1>3, <2>1, LaterOf
    <3> QED
      BY <1>2, <1>3, <1>4, <1>6, <3>1
  <2>2. CASE snap.pos <= lo
    <3>1. start = lo
      BY <1>3, <2>2, LaterOf
    <3>2. Agrees(snap.win, log', lo, lo)
      BY <1>3, <1>6, <2>2, AgreesDeleted
    <3> QED
      BY <1>2, <1>3, <1>4, <3>1, <3>2
  <2> QED
    BY <1>3, <2>1, <2>2
<1>8. win' = FoldLeft(Replayed, snap.win, SubSeq(log', start + 1, Len(log')))
  BY <1>1, Zenon DEF Restored, lo
<1> HIDE DEF start
<1>9. Agrees(win', log', lo, Len(log'))
  BY <1>2, <1>3, <1>7, <1>8, ReplayAgrees
<1> QED
  BY <1>1, <1>6, <1>9 DEF MatchInv, lo

LEMMA MatchStep ==
  ASSUME PowerFirst, SpoolInv, PublisherInv, StreamsInv, PlacesInv, MatchInv, [Next]_vars
  PROVE  MatchInv'
<1>1. CASE UNCHANGED vars
  BY <1>1 DEF MatchInv, vars, spool, filter
<1>2. CASE Deliver
  BY <1>2, DeliverMatch
<1>3. CASE Housekeeping
  BY <1>3, HousekeepingMatch
<1>4. CASE Publish \/ \E i \in 1 .. MaxLog : Store(i)
  BY <1>4, OthersMatch
<1>5. ASSUME NEW kind \in {"process", "power"}, Restart(kind)
      PROVE  MatchInv'
  BY <1>5, RestartMatch
<1> QED
  BY <1>1, <1>2, <1>3, <1>4, <1>5 DEF Next

LEMMA MatchProperty ==
  ASSUME SpoolInv, StreamsInv, MatchInv
  PROVE  FilterMatchesSpool
<1>1. SpoolIsRemembered
  BY DEF MatchInv, Agrees, SpoolIsRemembered
<1>2. PICK r : /\ StandsFor(win, r)
               /\ \A q \in r : q \in Malformed \/ \E i \in 1 .. Len(log) : log[i] = q
  BY DEF MatchInv, Agrees, Spooled
<1>3. DOMAIN log = 1 .. Len(log)
  BY LenProperties DEF StreamsInv
<1>4. ASSUME NEW q \in Window(win), win.bits[Slot(q)]
      PROVE  q \in r
  <2>1. CASE win = EmptyStream
    <3>1. Slot(q) \in Slots
      <4>1. q \in Int
        BY <2>1 DEF Window, EmptyStream
      <4> QED
        BY <4>1, SlotType
    <3>2. win.bits = [i \in Slots |-> FALSE]
      BY <2>1 DEF EmptyStream
    <3>3. win.bits[Slot(q)] = FALSE
      BY <3>1, <3>2
    <3> QED
      BY <1>4, <3>3
  <2>2. CASE win # EmptyStream
    BY <1>2, <1>4, <2>2, Zenon DEF StandsFor, Represents
  <2> QED
    BY <2>1, <2>2
<1>5. RememberedIsSpooled
  BY <1>2, <1>3, <1>4, Zenon DEF RememberedIsSpooled
<1> QED
  BY <1>1, <1>5 DEF FilterMatchesSpool

\* The duplicate filter and the spool agree after every accept, release and restart, for
\* every window, every size of segments and spool and every number of crashes: no spooled
\* record is accepted again, and nothing is taken for a duplicate whose record is not there
\* (core.py, _event and _restore_dedup).  Only a loss of power after a crash of the process
\* may break it: recovery takes for durable, and the snapshot then counts on, what is not.
THEOREM FilterAgrees ==
  ASSUME PowerFirst
  PROVE  Spec => []FilterMatchesSpool
<1>1. Init => PlacesInv /\ MatchInv
  BY InitPlaces, InitMatch
<1>2. SpoolInv /\ PublisherInv /\ StreamsInv /\ PlacesInv /\ MatchInv /\ [Next]_vars
        => (PlacesInv /\ MatchInv)'
  BY PlacesStep, MatchStep
<1>3. SpoolInv /\ StreamsInv /\ MatchInv => FilterMatchesSpool
  BY MatchProperty
<1> QED
  BY <1>1, <1>2, <1>3, ReceiverInvariant, StreamsInvariant, PTL DEF Spec

-----------------------------------------------------------------------------
(***************************************************************************)
(* Types                                                                   *)
(***************************************************************************)

\* What the other invariants do not say of the types.
TypesInv ==
  /\ Len(log) <= MaxLog /\ synced <= MaxLog /\ readPos <= MaxLog /\ snap.pos <= MaxLog
  /\ dirty \in BOOLEAN /\ failed \in BOOLEAN
  /\ healthSeen \in -1 .. MaxHealth - 1
  /\ pc \in {"pump", "persist", "release", "down"}
  /\ faults \in [failures: 0 .. MaxFailures, errors: 0 .. MaxErrors]

LEMMA InitTypes == Init => TypesInv
<1> SUFFICES ASSUME Init PROVE TypesInv
  OBVIOUS
<1>1. /\ log = << >> /\ synced = 0 /\ readPos = 0 /\ snap = [pos |-> 0, win |-> EmptyStream]
      /\ dirty = FALSE /\ failed = FALSE /\ healthSeen = -1 /\ pc = "pump"
      /\ faults = [failures |-> 0, errors |-> 0]
  BY DEF Init
<1>2. MaxLog \in Nat /\ MaxHealth \in Nat /\ MaxFailures \in Nat /\ MaxErrors \in Nat
  BY ReceiverAssumption
<1>3. Len(log) = 0 /\ snap.pos = 0
  BY <1>1
<1>4. dirty \in BOOLEAN /\ failed \in BOOLEAN
  BY <1>1, Zenon
<1>5. faults \in [failures: 0 .. MaxFailures, errors: 0 .. MaxErrors]
  BY <1>1, <1>2
<1> QED
  BY <1>1, <1>2, <1>3, <1>4, <1>5 DEF TypesInv

LEMMA ReceiveTypes ==
  ASSUME SpoolInv, StreamsInv, TypesInv, Deliver \/ Housekeeping
  PROVE  TypesInv'
<1>1. UNCHANGED <<readPos, pc, failed, faults>>
  BY DeliverWrites, HousekeepingWrites DEF publisher
<1>2. healthSeen' \in -1 .. MaxHealth - 1
  <2>1. healthSeen' = healthSeen \/ healthSeen' \in 0 .. MaxHealth - 1
    BY DEF Deliver, Accept, Reject, Health, Housekeeping
  <2> QED
    BY <2>1, ReceiverAssumption DEF TypesInv
<1>3. \/ UNCHANGED log
      \/ \E rec \in Recs : Len(log) < MaxLog /\ log' = Append(log, rec)
  <2>1. Deliver => \E rec \in Recs : Appended(rec) \/ UNCHANGED log
    BY DeliverWrites, OtherIsRec DEF TryAppend, Recs
  <2>2. Housekeeping => UNCHANGED log \/ (Len(log) < MaxLog /\ log' = Append(log, Other))
    BY DEF Housekeeping
  <2> QED
    BY <2>1, <2>2, OtherIsRec DEF Appended
<1>4. Len(log') \in Nat /\ Len(log') <= MaxLog
  <2>1. Len(log) \in Nat /\ MaxLog \in Nat /\ Len(log) <= MaxLog
    BY Start, ReceiverAssumption DEF TypesInv
  <2>2. CASE UNCHANGED log
    BY <2>1, <2>2
  <2>3. ASSUME NEW rec \in Recs, Len(log) < MaxLog, log' = Append(log, rec)
        PROVE  Len(log') \in Nat /\ Len(log') <= MaxLog
    <3>1. Len(log') = Len(log) + 1
      BY <2>3 DEF StreamsInv
    <3> QED
      BY <2>1, <2>3, <3>1
  <2> QED
    BY <1>3, <2>2, <2>3
<1>5. synced' <= MaxLog /\ snap'.pos <= MaxLog
  <2>1. CASE Deliver
    <3>1. UNCHANGED <<synced, snap>>
      BY <2>1, DeliverWrites
    <3> QED
      BY <3>1 DEF TypesInv
  <2>2. CASE Housekeeping
    <3>1. synced' = Len(log') /\ (snap'.pos = snap.pos \/ snap'.pos = Len(log'))
      BY <2>2 DEF Housekeeping, Sync
    <3> QED
      BY <1>4, <3>1 DEF TypesInv
  <2> QED
    BY <2>1, <2>2
<1>6. dirty' \in BOOLEAN
  <2>1. dirty' = TRUE \/ dirty' = FALSE \/ dirty' = dirty
    BY DEF Deliver, Accept, Reject, Health, Quarantine, TryAppend, Appended, Housekeeping, Sync
  <2> QED
    BY <2>1, Zenon DEF TypesInv
<1> QED
  BY <1>1, <1>2, <1>4, <1>5, <1>6 DEF TypesInv

LEMMA OthersTypes ==
  ASSUME SpoolInv, PublisherInv, TypesInv, Publish \/ \E i \in 1 .. MaxLog : Store(i)
  PROVE  TypesInv'
<1>1. UNCHANGED <<log, synced, dirty, snap, healthSeen>>
  BY OthersWrite DEF filter
<1>2. readPos' <= MaxLog
  <2>1. readPos' \in {readPos, cursor} \/ Produce
    <3>1. CASE Publish
      BY <3>1 DEF Publish, PollDelivered, PollFailed, Poll, Persist, PersistError, Release,
             EndRound, NewRound, spool
    <3>2. ASSUME NEW i \in 1 .. MaxLog, Store(i)
          PROVE  readPos' = readPos
      BY <3>2 DEF Store
    <3> QED
      BY <3>1, <3>2
  <2>2. CASE Produce
    <3>1. readPos' = Max(Unread) /\ Unread # {}
      BY <2>2 DEF Produce
    <3>2. synced \in Unread /\ \A y \in Unread : synced >= y
      BY <3>1 DEF Unread, SpoolInv, PublisherInv
    <3>3. Max(Unread) \in Unread
      BY <3>2 DEF Max
    <3> QED
      BY <3>1, <3>3, ReceiverAssumption DEF Unread, SpoolInv, PublisherInv, TypesInv
  <2>3. CASE readPos' \in {readPos, cursor}
    BY <2>3, ReceiverAssumption DEF PublisherInv, TypesInv
  <2> QED
    BY <2>1, <2>2, <2>3
<1>3. pc' \in {"pump", "persist", "release", "down"} /\ failed' \in BOOLEAN
  <2>1. pc' \in {pc, "pump", "persist", "release", "down"}
    BY DEF Publish, Produce, PollDelivered, PollFailed, Poll, Persist, PersistError, Release,
           EndRound, NewRound, Store
  <2>2. failed' = failed \/ failed' = TRUE \/ failed' = FALSE
    BY DEF Publish, Produce, PollDelivered, PollFailed, Poll, Persist, PersistError, Release,
           EndRound, NewRound, Store
  <2>3. failed' \in BOOLEAN
    BY <2>2, Zenon DEF TypesInv
  <2> QED
    BY <2>1, <2>3 DEF TypesInv
<1>4. faults' \in [failures: 0 .. MaxFailures, errors: 0 .. MaxErrors]
  <2>1. /\ faults = [failures |-> faults.failures, errors |-> faults.errors]
        /\ faults.failures \in 0 .. MaxFailures /\ faults.errors \in 0 .. MaxErrors
        /\ MaxFailures \in Nat /\ MaxErrors \in Nat
    BY ReceiverAssumption DEF TypesInv
  <2>2. ASSUME NEW reported, PollFailed(reported)
        PROVE  faults.failures < MaxFailures /\ faults' = [faults EXCEPT !.failures = @ + 1]
    BY <2>2 DEF PollFailed
  <2>3. PersistError =>
          faults.errors < MaxErrors /\ faults' = [faults EXCEPT !.errors = @ + 1]
    BY DEF PersistError
  <2>4. \/ UNCHANGED faults
        \/ faults.failures < MaxFailures /\ faults' = [faults EXCEPT !.failures = @ + 1]
        \/ faults.errors < MaxErrors /\ faults' = [faults EXCEPT !.errors = @ + 1]
    <3>1. Publish => UNCHANGED faults \/ PersistError \/ \E reported : PollFailed(reported)
      BY DEF Publish, Produce, PollDelivered, Persist, Release, EndRound, NewRound
    <3>2. \A i \in 1 .. MaxLog : Store(i) => UNCHANGED faults
      BY DEF Store
    <3> QED
      BY <2>2, <2>3, <3>1, <3>2
  <2> QED
    BY <2>1, <2>4 DEF TypesInv
<1> QED
  BY <1>1, <1>2, <1>3, <1>4 DEF TypesInv

LEMMA RestartTypes ==
  ASSUME SpoolInv, PublisherInv, StreamsInv, TypesInv, NEW kind, Restart(kind)
  PROVE  TypesInv'
<1>1. PICK n \in durable .. Len(log) :
        Len(log') = n /\ n \in Nat /\ synced' = n /\ dirty' = FALSE
  BY Kept
<1>2. n <= MaxLog
  BY <1>1, Start, ReceiverAssumption DEF SpoolInv, TypesInv
<1>3. /\ UNCHANGED <<snap, faults>> /\ readPos' = cursorFile /\ pc' = "pump"
      /\ failed' = FALSE /\ healthSeen' = -1
  BY DEF Restart
<1>4. readPos' <= MaxLog
  BY <1>3, ReceiverAssumption DEF PublisherInv, TypesInv
<1>5. dirty' \in BOOLEAN /\ failed' \in BOOLEAN
  BY <1>1, <1>3, Zenon
<1>6. healthSeen' \in -1 .. MaxHealth - 1
  BY <1>3, ReceiverAssumption
<1> QED
  BY <1>1, <1>2, <1>3, <1>4, <1>5, <1>6 DEF TypesInv

LEMMA TypesStep ==
  ASSUME SpoolInv, PublisherInv, StreamsInv, TypesInv, [Next]_vars
  PROVE  TypesInv'
<1>1. CASE UNCHANGED vars
  BY <1>1 DEF TypesInv, vars, spool, publisher, filter
<1>2. CASE Deliver \/ Housekeeping
  BY <1>2, ReceiveTypes
<1>3. CASE Publish \/ \E i \in 1 .. MaxLog : Store(i)
  BY <1>3, OthersTypes
<1>4. ASSUME NEW kind \in {"process", "power"}, Restart(kind)
      PROVE  TypesInv'
  BY <1>4, RestartTypes
<1> QED
  BY <1>1, <1>2, <1>3, <1>4 DEF Next

\* Every variable of the receiver has its type; the stream a restart replays, too
\* (core.py, spool.py, publisher.py).
THEOREM TypeCorrect == Spec => []TypeOK
<1>1. Init => TypesInv
  BY InitTypes
<1>2. SpoolInv /\ PublisherInv /\ StreamsInv /\ TypesInv /\ [Next]_vars => TypesInv'
  BY TypesStep
<1>3. SpoolInv /\ PublisherInv /\ StreamsInv /\ TypesInv => TypeOK
  <2> SUFFICES ASSUME SpoolInv, PublisherInv, StreamsInv, TypesInv PROVE TypeOK
    OBVIOUS
  <2>1. log \in Seq(Seqs \cup {Other}) /\ Len(log) <= MaxLog /\ Len(log) \in Nat
    BY LenProperties DEF StreamsInv, TypesInv, Recs
  <2>2. /\ first \in Nat /\ synced \in Positions /\ durable \in Positions
        /\ cursor \in Positions /\ cursorFile \in Positions /\ readPos \in Positions
        /\ snap.pos \in Positions
    <3>1. /\ synced <= MaxLog /\ readPos <= MaxLog /\ snap.pos <= MaxLog /\ MaxLog \in Nat
          /\ synced \in Nat /\ durable \in Nat /\ snap.pos \in Nat /\ durable <= Len(log)
      BY ReceiverAssumption DEF SpoolInv, StreamsInv, TypesInv
    <3>2. /\ first \in Nat /\ cursor \in Nat /\ cursorFile \in Nat /\ readPos \in Nat
          /\ cursorFile <= cursor /\ cursor <= readPos
      BY DEF PublisherInv
    <3> QED
      BY <2>1, <3>1, <3>2 DEF Positions
  <2>3. win \in StreamState /\ snap.win \in StreamState
    BY DEF StreamsInv, Stream, StandsFor
  <2>4. snap \in [pos: Positions, win: StreamState]
    BY <2>2, <2>3 DEF StreamsInv
  <2>5. written \subseteq 1 .. MaxLog /\ acked \subseteq 1 .. MaxLog
        /\ copies \in [1 .. MaxLog -> Nat]
    BY DEF PublisherInv
  <2> QED
    BY <2>1, <2>2, <2>3, <2>4, <2>5 DEF TypeOK, TypesInv
<1> QED
  BY <1>1, <1>2, <1>3, ReceiverInvariant, StreamsInvariant, PTL DEF Spec

=============================================================================
