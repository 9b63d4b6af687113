------------------------- MODULE DedupWindowProofs -------------------------
(***************************************************************************)
(* The duplicate filter with its bounded set of streams implements the     *)
(* filter on sets, for every window size, every set of streams and every   *)
(* order of marks.                                                         *)
(***************************************************************************)
EXTENDS DedupWindow, SequenceWindowProofs, SequenceTheorems

\* The inductive invariant: each ring represents what its stream accepted, and
\* order lists the kept streams.
StreamsInv ==
  /\ TypeOK
  /\ \A k \in Streams : Represents(streams[k], received[k])
  /\ BoundedStreams

-----------------------------------------------------------------------------
\* A stream is kept exactly when it has accepted something.
LEMMA KeptReceived ==
  ASSUME StreamsInv, NEW k \in Streams
  PROVE  /\ streams[k] \in StreamState /\ received[k] \in SUBSET Nat
         /\ Represents(streams[k], received[k])
         /\ Kept(k) <=> received[k] # {}
         /\ ~Kept(k) => streams[k] = EmptyStream
<1>1. streams[k] \in StreamState /\ received[k] \in SUBSET Nat
  BY BoundsAssumption DEF StreamsInv, TypeOK, Seqs
<1>2. Represents(streams[k], received[k])
  BY DEF StreamsInv
<1>3. CASE streams[k] = EmptyStream /\ received[k] = {}
  BY <1>1, <1>2, <1>3 DEF Kept, EmptyStream
<1>4. CASE streams[k].highest \in received[k]
  BY <1>1, <1>2, <1>4, \A q \in received[k] : q \in Nat DEF Kept
<1> QED
  BY <1>1, <1>2, <1>3, <1>4 DEF Represents

\* The empty stream represents the empty set.
LEMMA EmptyRepresents ==
  EmptyStream \in StreamState /\ Represents(EmptyStream, {}) /\ EmptyStream.highest = -1
BY DEF EmptyStream, StreamState, Represents

LEMMA InitInv == Init => StreamsInv
<1> SUFFICES ASSUME Init PROVE StreamsInv
  OBVIOUS
<1>1. TypeOK
  BY EmptyRepresents DEF Init, TypeOK, Totals
<1>2. \A k \in Streams : Represents(streams[k], received[k])
  BY EmptyRepresents DEF Init
<1>3. BoundedStreams
  BY EmptyRepresents, StreamsAssumption DEF Init, BoundedStreams, Kept
<1> QED
  BY <1>1, <1>2, <1>3 DEF StreamsInv

-----------------------------------------------------------------------------
\* e is the sequence o without its p-th element.
Without(o, p, e) ==
  /\ Len(e) = Len(o) - 1
  /\ \A i \in 1 .. Len(o) - 1 : e[i] = IF i < p THEN o[i] ELSE o[i + 1]

NoRepetition(o) == \A i, j \in 1 .. Len(o) : o[i] = o[j] => i = j

Occurs(x, o) == \E i \in 1 .. Len(o) : o[i] = x

\* The sequence without its p-th element.
LEMMA RemoveAtElements ==
  ASSUME NEW S, NEW o \in Seq(S), NEW p \in 1 .. Len(o)
  PROVE  RemoveAt(o, p) \in Seq(S) /\ Without(o, p, RemoveAt(o, p))
<1> DEFINE a == SubSeq(o, 1, p - 1)
           b == SubSeq(o, p + 1, Len(o))
<1>1. Len(o) \in Nat /\ p \in Nat /\ 1 <= p /\ p <= Len(o)
  OBVIOUS
<1>2. /\ a \in Seq(S) /\ Len(a) = p - 1
      /\ \A i \in 1 .. p - 1 : a[i] = o[i]
  BY <1>1
<1>3. /\ b \in Seq(S) /\ Len(b) = Len(o) - p
      /\ \A i \in 1 .. Len(o) - p : b[i] = o[p + i]
  BY <1>1
<1> HIDE DEF a, b
<1>4. /\ a \o b \in Seq(S) /\ Len(a \o b) = Len(a) + Len(b)
      /\ \A i \in 1 .. Len(a) + Len(b) :
           (a \o b)[i] = IF i <= Len(a) THEN a[i] ELSE b[i - Len(a)]
  BY <1>2, <1>3, ConcatProperties
<1>5. RemoveAt(o, p) = a \o b
  BY DEF RemoveAt, a, b
<1>6. ASSUME NEW i \in 1 .. Len(o) - 1
      PROVE  (a \o b)[i] = IF i < p THEN o[i] ELSE o[i + 1]
  <2>1. CASE i < p
    BY <1>1, <1>2, <1>3, <1>4, <2>1
  <2>2. CASE i >= p
    <3>1. i - (p - 1) \in 1 .. Len(o) - p /\ p + (i - (p - 1)) = i + 1
      BY <1>1, <2>2
    <3>2. b[i - (p - 1)] = o[i + 1]
      BY <1>3, <3>1
    <3>3. (a \o b)[i] = b[i - (p - 1)]
      BY <1>1, <1>2, <1>3, <1>4, <2>2
    <3> QED
      BY <2>2, <3>2, <3>3
  <2>3. i \in Int /\ p \in Int
    BY <1>1
  <2> QED
    BY <2>1, <2>2, <2>3, i < p \/ i >= p
<1>7. a \o b \in Seq(S) /\ Len(a \o b) = Len(o) - 1
  BY <1>1, <1>2, <1>3, <1>4
<1> QED
  BY <1>5, <1>6, <1>7 DEF Without

\* Removing one element of a sequence without repetitions removes one key.
LEMMA RemovedKeys ==
  ASSUME NEW S, NEW o \in Seq(S), NEW p \in 1 .. Len(o), NEW e \in Seq(S),
         Without(o, p, e), NoRepetition(o)
  PROVE  /\ NoRepetition(e)
         /\ \A x : Occurs(x, e) <=> (x # o[p] /\ Occurs(x, o))
<1> USE DEF Without, NoRepetition, Occurs
<1>1. Len(o) \in Nat /\ p \in Nat /\ 1 <= p /\ p <= Len(o)
  OBVIOUS
<1> DEFINE at(i) == IF i < p THEN i ELSE i + 1
<1>2. \A i \in 1 .. Len(e) : at(i) \in 1 .. Len(o) /\ at(i) # p /\ e[i] = o[at(i)]
  BY <1>1
<1>3. \A i, j \in 1 .. Len(e) : at(i) = at(j) => i = j
  BY <1>1
<1>4. \A j \in 1 .. Len(o) : j # p => \E i \in 1 .. Len(e) : at(i) = j
  <2> SUFFICES ASSUME NEW j \in 1 .. Len(o), j # p
               PROVE  \E i \in 1 .. Len(e) : at(i) = j
    OBVIOUS
  <2>1. CASE j < p
    <3>1. j \in 1 .. Len(e) /\ at(j) = j
      BY <1>1, <2>1
    <3> QED
      BY <3>1
  <2>2. CASE j > p
    <3>1. j - 1 \in 1 .. Len(e) /\ at(j - 1) = j
      BY <1>1, <2>2
    <3> QED
      BY <3>1
  <2> QED
    BY <1>1, <2>1, <2>2
<1> HIDE DEF at
<1>5. \A i, j \in 1 .. Len(e) : e[i] = e[j] => i = j
  BY <1>2, <1>3
<1>6. ASSUME NEW x
      PROVE  (\E i \in 1 .. Len(e) : e[i] = x) <=> (x # o[p] /\ \E i \in 1 .. Len(o) : o[i] = x)
  <2>1. ASSUME NEW i \in 1 .. Len(e), e[i] = x
        PROVE  x # o[p] /\ \E j \in 1 .. Len(o) : o[j] = x
    BY <1>2, <2>1
  <2>2. ASSUME NEW j \in 1 .. Len(o), o[j] = x, x # o[p]
        PROVE  \E i \in 1 .. Len(e) : e[i] = x
    <3>1. PICK i \in 1 .. Len(e) : at(i) = j
      BY <1>4, <2>2
    <3> QED
      BY <1>2, <2>2, <3>1
  <2> QED
    BY <2>1, <2>2
<1> QED
  BY <1>5, <1>6

-----------------------------------------------------------------------------
\* The keys before k: all the kept ones but k and the one that is dropped.
LEMMA EarlierKeys ==
  ASSUME StreamsInv, NEW k \in Streams
  PROVE  /\ Earlier(k) \in Seq(Streams)
         /\ Len(Earlier(k)) < MaxStreams
         /\ NoRepetition(Earlier(k))
         /\ \A x \in Streams : Occurs(x, Earlier(k)) <=> (x # k /\ x \notin Dropped(k) /\ Kept(x))
         /\ \A x \in Dropped(k) : x \in Streams /\ Kept(x) /\ x # k
<1>1. order \in Seq(Streams) /\ DOMAIN order = 1 .. Len(order) /\ Len(order) \in Nat
  BY LenProperties DEF StreamsInv, TypeOK
<1>2. /\ Len(order) <= MaxStreams
      /\ NoRepetition(order)
      /\ \A x \in Streams : Kept(x) <=> Occurs(x, order)
  BY <1>1 DEF StreamsInv, BoundedStreams, NoRepetition, Occurs
<1>3. MaxStreams \in Nat /\ MaxStreams > 0
  BY StreamsAssumption
<1>4. CASE Kept(k)
  <2> DEFINE p == Position(k)
             e == RemoveAt(order, p)
  <2>1. \E i \in DOMAIN order : order[i] = k
    BY <1>1, <1>2, <1>4 DEF Occurs
  <2>2. p \in 1 .. Len(order) /\ order[p] = k
    BY <1>1, <2>1 DEF Position
  <2> HIDE DEF p
  <2>3. e \in Seq(Streams) /\ Without(order, p, e)
    BY <1>1, <2>2, RemoveAtElements
  <2> HIDE DEF e
  <2>4. NoRepetition(e) /\ \A x : Occurs(x, e) <=> (x # k /\ Occurs(x, order))
    BY <1>1, <1>2, <2>2, <2>3, RemovedKeys
  <2>5. Earlier(k) = e /\ Dropped(k) = {}
    BY <1>4 DEF Earlier, Dropped, e, p
  <2>6. Len(e) < MaxStreams
    BY <1>1, <1>2, <1>3, <2>3 DEF Without
  <2> QED
    BY <1>2, <2>3, <2>4, <2>5, <2>6
<1>5. CASE ~Kept(k) /\ Len(order) < MaxStreams
  <2>1. Earlier(k) = order /\ Dropped(k) = {}
    BY <1>5 DEF Earlier, Dropped
  <2> QED
    BY <1>1, <1>2, <1>5, <2>1
<1>6. CASE ~Kept(k) /\ ~(Len(order) < MaxStreams)
  <2> DEFINE e == Tail(order)
  <2>1. 1 \in 1 .. Len(order) /\ order # << >> /\ order[1] = Head(order)
    BY <1>1, <1>2, <1>3, <1>6
  <2>2. e \in Seq(Streams) /\ Without(order, 1, e)
    <3>1. /\ e \in Seq(Streams) /\ Len(e) = Len(order) - 1
          /\ \A i \in 1 .. Len(e) : e[i] = order[i + 1]
      BY <1>1, <2>1, HeadTailProperties
    <3> QED
      BY <1>1, <3>1 DEF Without
  <2> HIDE DEF e
  <2>3. NoRepetition(e) /\ \A x : Occurs(x, e) <=> (x # order[1] /\ Occurs(x, order))
    BY <1>1, <1>2, <2>1, <2>2, RemovedKeys
  <2>4. Earlier(k) = e /\ Dropped(k) = {order[1]}
    BY <1>6, <2>1 DEF Earlier, Dropped, e
  <2>5. order[1] \in Streams /\ Kept(order[1]) /\ order[1] # k
    BY <1>1, <1>2, <1>6, <2>1 DEF Occurs
  <2>6. Len(e) < MaxStreams
    BY <1>1, <1>2, <1>3, <2>2 DEF Without
  <2> QED
    BY <1>2, <1>6, <2>2, <2>3, <2>4, <2>5, <2>6
<1> QED
  BY <1>4, <1>5, <1>6

\* One mark, seen stream by stream.
LEMMA MarkStreams ==
  ASSUME StreamsInv, NEW k \in Streams, NEW seq \in Seqs, Mark(k, seq)
  PROVE  \A j \in Streams :
           /\ streams'[j] = IF j = k THEN Record(streams[k], seq)
                            ELSE IF j \in Dropped(k) THEN EmptyStream ELSE streams[j]
           /\ received'[j] = IF j = k THEN Grow(streams[k], received[k], seq)
                             ELSE IF j \in Dropped(k) THEN {} ELSE received[j]
           /\ streams'[j] \in StreamState
           /\ received'[j] \in SUBSET Seqs
           /\ Represents(streams'[j], received'[j])
           /\ Kept(j)' <=> j = k \/ (Kept(j) /\ j \notin Dropped(k))
<1> SUFFICES ASSUME NEW j \in Streams
             PROVE  /\ streams'[j] = IF j = k THEN Record(streams[k], seq)
                                     ELSE IF j \in Dropped(k) THEN EmptyStream ELSE streams[j]
                    /\ received'[j] = IF j = k THEN Grow(streams[k], received[k], seq)
                                      ELSE IF j \in Dropped(k) THEN {} ELSE received[j]
                    /\ streams'[j] \in StreamState
                    /\ received'[j] \in SUBSET Seqs
                    /\ Represents(streams'[j], received'[j])
                    /\ Kept(j)' <=> j = k \/ (Kept(j) /\ j \notin Dropped(k))
  OBVIOUS
<1>1. streams'[j] = IF j = k THEN Record(streams[k], seq)
                    ELSE IF j \in Dropped(k) THEN EmptyStream ELSE streams[j]
  BY DEF Mark
<1>2. received'[j] = IF j = k THEN Grow(streams[k], received[k], seq)
                     ELSE IF j \in Dropped(k) THEN {} ELSE received[j]
  BY DEF Mark, Grow
<1>3. seq \in Nat
  BY BoundsAssumption DEF Seqs
<1>4. received[j] \in SUBSET Seqs /\ received[k] \in SUBSET Seqs
  BY DEF StreamsInv, TypeOK
<1>5. Kept(j)' <=> streams'[j].highest >= 0
  BY DEF Kept
<1>6. CASE j = k
  <2>1. /\ streams[k] \in StreamState /\ received[k] \in SUBSET Nat
        /\ Represents(streams[k], received[k])
    BY KeptReceived
  <2>2. /\ Record(streams[k], seq) \in StreamState
        /\ Represents(Record(streams[k], seq), Grow(streams[k], received[k], seq))
        /\ Record(streams[k], seq).highest >= 0
    BY <1>3, <2>1, RecordRepresents
  <2>3. Grow(streams[k], received[k], seq) \in SUBSET Seqs
    BY <1>4 DEF Grow
  <2> QED
    BY <1>1, <1>2, <1>5, <1>6, <2>2, <2>3
<1>7. CASE j # k /\ j \in Dropped(k)
  BY <1>1, <1>2, <1>5, <1>7, EmptyRepresents
<1>8. CASE j # k /\ j \notin Dropped(k)
  <2>1. /\ streams[j] \in StreamState
        /\ Represents(streams[j], received[j])
    BY KeptReceived
  <2> QED
    BY <1>1, <1>2, <1>4, <1>5, <1>8, <2>1 DEF Kept
<1> QED
  BY <1>1, <1>2, <1>6, <1>7, <1>8

-----------------------------------------------------------------------------
\* A mark preserves the invariant.
LEMMA MarkInv ==
  ASSUME StreamsInv, NEW k \in Streams, NEW seq \in Seqs, Mark(k, seq)
  PROVE  StreamsInv'
<1> DEFINE e == Earlier(k)
<1>1. \A j \in Streams :
        /\ streams'[j] \in StreamState
        /\ received'[j] \in SUBSET Seqs
        /\ Represents(streams'[j], received'[j])
        /\ Kept(j)' <=> (j = k \/ (Kept(j) /\ j \notin Dropped(k)))
  BY MarkStreams
<1>2. /\ e \in Seq(Streams) /\ Len(e) < MaxStreams
      /\ NoRepetition(e)
      /\ \A x \in Streams : Occurs(x, e) <=> (x # k /\ x \notin Dropped(k) /\ Kept(x))
      /\ \A x \in Dropped(k) : x # k
  BY EarlierKeys
<1>3. order' = Append(e, k)
  BY DEF Mark
<1> HIDE DEF e
<1>4. /\ order' \in Seq(Streams) /\ Len(order') = Len(e) + 1 /\ Len(e) \in Nat
      /\ \A i \in 1 .. Len(e) : order'[i] = e[i]
      /\ order'[Len(e) + 1] = k
      /\ DOMAIN order' = 1 .. Len(e) + 1
  BY <1>2, <1>3, AppendProperties, LenProperties
<1>5. TypeOK'
  <2>1. streams' \in [Streams -> StreamState]
    <3>1. streams' = [j \in Streams |-> streams'[j]]
      BY DEF Mark
    <3> QED
      BY <1>1, <3>1
  <2>2. received' \in [Streams -> SUBSET Seqs]
    <3>1. received' = [j \in Streams |-> received'[j]]
      BY DEF Mark
    <3> QED
      BY <1>1, <3>1
  <2>3. seq \in Nat
    BY BoundsAssumption DEF Seqs
  <2>4. streams[k] \in StreamState /\ received[k] \in SUBSET Nat
        /\ Represents(streams[k], received[k])
    BY KeptReceived
  <2>5. GapsAdded(streams[k], seq) \in Nat
    BY <2>3, <2>4, GapsAddedExact
  <2>6. totals \in Totals
    BY DEF StreamsInv, TypeOK
  <2>7. totals' \in Totals
    BY <2>5, <2>6 DEF Mark, Totals
  <2>8. Classify(streams[k], seq) \in Outcome
    BY <2>3, <2>4, ClassifyExact
  <2>9. outcome' \in [class: Outcome, stream: Streams, seq: Seqs]
    BY <2>8 DEF Mark
  <2> QED
    BY <1>4, <2>1, <2>2, <2>7, <2>9 DEF TypeOK
<1>6. BoundedStreams'
  <2>1. Len(order') <= MaxStreams
    BY <1>2, <1>4, StreamsAssumption
  <2>2. ASSUME NEW i \in 1 .. Len(e) + 1, NEW j \in 1 .. Len(e) + 1, order'[i] = order'[j]
        PROVE  i = j
    <3>1. ASSUME NEW m \in 1 .. Len(e)
          PROVE  order'[m] = e[m] /\ e[m] \in Streams /\ e[m] # k
      <4>1. e[m] \in Streams
        BY <1>2, <1>4, ElementOfSeq
      <4>2. Occurs(e[m], e)
        BY DEF Occurs
      <4> QED
        BY <1>2, <1>4, <4>1, <4>2
    <3>2. CASE i \in 1 .. Len(e) /\ j \in 1 .. Len(e)
      BY <1>2, <2>2, <3>1, <3>2 DEF NoRepetition
    <3>3. CASE i = Len(e) + 1 \/ j = Len(e) + 1
      <4>1. \A m \in 1 .. Len(e) + 1 : m = Len(e) + 1 \/ m \in 1 .. Len(e)
        BY <1>4
      <4> QED
        BY <1>4, <2>2, <3>1, <3>3, <4>1
    <3> QED
      BY <1>4, <3>2, <3>3
  <2>3. ASSUME NEW x \in Streams
        PROVE  Kept(x)' <=> \E i \in 1 .. Len(e) + 1 : order'[i] = x
    <3>1. (\E i \in 1 .. Len(e) + 1 : order'[i] = x) <=> (x = k \/ Occurs(x, e))
      <4>1. ASSUME NEW i \in 1 .. Len(e) + 1, order'[i] = x
            PROVE  x = k \/ Occurs(x, e)
        <5>1. i = Len(e) + 1 \/ i \in 1 .. Len(e)
          BY <1>4
        <5> QED
          BY <1>4, <4>1, <5>1 DEF Occurs
      <4>2. ASSUME x = k \/ Occurs(x, e)
            PROVE  \E i \in 1 .. Len(e) + 1 : order'[i] = x
        <5>1. Len(e) + 1 \in 1 .. Len(e) + 1 /\ 1 .. Len(e) \subseteq 1 .. Len(e) + 1
          BY <1>4
        <5> QED
          BY <1>4, <4>2, <5>1 DEF Occurs
      <4> QED
        BY <4>1, <4>2
    <3> QED
      BY <1>1, <1>2, <3>1
  <2> QED
    BY <1>4, <2>1, <2>2, <2>3 DEF BoundedStreams
<1> QED
  BY <1>1, <1>5, <1>6 DEF StreamsInv

LEMMA StreamsInvariant == Spec => []StreamsInv
<1>1. StreamsInv /\ [Next]_vars => StreamsInv'
  <2> SUFFICES ASSUME StreamsInv, [Next]_vars PROVE StreamsInv'
    OBVIOUS
  <2>1. CASE Next
    BY <2>1, MarkInv DEF Next
  <2>2. CASE UNCHANGED vars
    BY <2>2 DEF vars, StreamsInv, TypeOK, BoundedStreams, Kept
  <2> QED
    BY <2>1, <2>2
<1> QED
  BY InitInv, <1>1, PTL DEF Spec

-----------------------------------------------------------------------------
\* Every variable keeps its type under any sequence of marks.
THEOREM TypeCorrect == Spec => []TypeOK
<1>1. StreamsInv => TypeOK
  BY DEF StreamsInv
<1> QED
  BY StreamsInvariant, <1>1, PTL

\* The bits of a window say exactly which of its numbers were accepted
\* (dedup.py, get and set): no slot is ever read for another number.
THEOREM RingCorrect == Spec => []RingIsExact
<1>1. StreamsInv => RingIsExact
  <2> SUFFICES ASSUME StreamsInv, NEW k \in Streams, Kept(k),
                      NEW q \in Window(streams[k])
               PROVE  streams[k].bits[Slot(q)] <=> q \in received[k]
    BY DEF RingIsExact
  <2> DEFINE s == streams[k]
             r == received[k]
  <2>1. s \in StreamState /\ r \in SUBSET Nat /\ Represents(s, r) /\ s.highest >= 0
    BY KeptReceived DEF Kept
  <2>2. q \in Window(s)
    OBVIOUS
  <2> HIDE DEF s, r
  <2>3. s.bits[Slot(q)] <=> q \in r
    BY <2>1, <2>2, Represented
  <2> QED
    BY <2>3 DEF s, r
<1> QED
  BY StreamsInvariant, <1>1, PTL

\* link_missing_in_window is exact: missing counts the unreceived positions.
THEOREM MissingCorrect == Spec => []MissingIsExact
<1>1. StreamsInv => MissingIsExact
  <2> SUFFICES ASSUME StreamsInv, NEW k \in Streams, Kept(k)
               PROVE  streams[k].missing = Cardinality(Window(streams[k]) \ received[k])
    BY DEF MissingIsExact
  <2> QED
    BY KeptReceived, Represented DEF Kept
<1> QED
  BY StreamsInvariant, <1>1, PTL

\* The filter never keeps more than MAX_STREAMS streams, and order is the list
\* of the kept ones (dedup.py, lines 61-67).
THEOREM StreamsBounded == Spec => []BoundedStreams
<1>1. StreamsInv => BoundedStreams
  BY DEF StreamsInv
<1> QED
  BY StreamsInvariant, <1>1, PTL

\* Both together: the types and the bounded list of streams.
THEOREM WellFormed == Spec => []FilterIsWellFormed
  BY TypeCorrect, StreamsBounded, PTL DEF FilterIsWellFormed

\* What a mark classifies as new or reordered was not accepted before.
THEOREM AcceptedOnce == Spec => NeverAcceptedTwice
<1>1. StreamsInv /\ [Next]_vars
        => [outcome'.class \in Accepted => outcome'.seq \notin received[outcome'.stream]]_vars
  <2> SUFFICES ASSUME StreamsInv, NEW k \in Streams, NEW seq \in Seqs, Mark(k, seq),
                      outcome'.class \in Accepted
               PROVE  outcome'.seq \notin received[outcome'.stream]
    BY DEF Next
  <2>1. outcome' = [class |-> Classify(streams[k], seq), stream |-> k, seq |-> seq]
    BY DEF Mark
  <2>2. seq \in Nat
    BY BoundsAssumption DEF Seqs
  <2>3. /\ streams[k] \in StreamState /\ received[k] \in SUBSET Nat
        /\ Represents(streams[k], received[k])
    BY KeptReceived
  <2>4. CASE Classify(streams[k], seq) = Reordered
    BY <2>1, <2>2, <2>3, <2>4, ClassifyExact
  <2>5. CASE Classify(streams[k], seq) = New
    <3>1. streams[k].highest < 0 \/ seq > streams[k].highest
      BY <2>2, <2>3, <2>5, ClassifyExact
    <3>2. seq \notin received[k]
      <4>1. CASE Kept(k)
        <5>1. received[k] \subseteq streams[k].base .. streams[k].highest
              /\ streams[k].base \in Nat /\ streams[k].highest \in Nat
          BY <2>3, <4>1, Represented DEF Kept
        <5> QED
          BY <2>2, <3>1, <5>1
      <4>2. CASE ~Kept(k)
        BY <4>2, KeptReceived
      <4> QED
        BY <4>1, <4>2
    <3> QED
      BY <2>1, <3>2
  <2> QED
    BY <2>1, <2>4, <2>5 DEF Accepted
<1> QED
  BY StreamsInvariant, <1>1, PTL DEF Spec, NeverAcceptedTwice

\* What a mark suppresses as a duplicate was accepted before.
THEOREM DuplicatesCorrect == Spec => DuplicatesWereAccepted
<1>1. StreamsInv /\ [Next]_vars
        => [outcome'.class = Duplicate => outcome'.seq \in received[outcome'.stream]]_vars
  <2> SUFFICES ASSUME StreamsInv, NEW k \in Streams, NEW seq \in Seqs, Mark(k, seq),
                      outcome'.class = Duplicate
               PROVE  outcome'.seq \in received[outcome'.stream]
    BY DEF Next
  <2>1. outcome' = [class |-> Classify(streams[k], seq), stream |-> k, seq |-> seq]
    BY DEF Mark
  <2>2. seq \in Nat
    BY BoundsAssumption DEF Seqs
  <2> QED
    BY <2>1, <2>2, KeptReceived, ClassifyExact
<1> QED
  BY StreamsInvariant, <1>1, PTL DEF Spec, DuplicatesWereAccepted

\* Both together: mark's answers are right.
THEOREM OutcomesCorrect == Spec => OutcomesAreRight
  BY AcceptedOnce, DuplicatesCorrect DEF OutcomesAreRight

-----------------------------------------------------------------------------
(***************************************************************************)
(* Refinement: the state functions of DuplicateFilter in the terms of a    *)
(* stream and what it accepted.                                            *)
(***************************************************************************)

\* base and highest are the smallest and the largest accepted number.
LEMMA Extremes ==
  ASSUME NEW s \in StreamState, NEW r \in SUBSET Nat, Represents(s, r), s.highest >= 0
  PROVE  Filter!Max(r) = s.highest /\ Filter!Min(r) = s.base
<1>1. /\ s.base \in r /\ s.highest \in r /\ r \subseteq s.base .. s.highest
      /\ s.base \in Nat /\ s.highest \in Nat
  BY Represented
<1>2. \A x \in r : (\A y \in r : x >= y) => x = s.highest
  BY <1>1
<1>3. \A x \in r : (\A y \in r : x =< y) => x = s.base
  BY <1>1
<1>4. \A y \in r : s.highest >= y /\ s.base =< y
  BY <1>1
<1>5. Filter!Max(r) = s.highest
  BY <1>1, <1>2, <1>4 DEF Filter!Max
<1>6. Filter!Min(r) = s.base
  BY <1>1, <1>3, <1>4 DEF Filter!Min
<1> QED
  BY <1>5, <1>6

\* The ring classifies as the set does.
LEMMA SameClassification ==
  ASSUME NEW s \in StreamState, NEW r \in SUBSET Nat, Represents(s, r), NEW seq \in Nat,
         r # {} <=> s.highest >= 0
  PROVE  Filter!Classification(r, seq) = Classify(s, seq)
<1>1. s.highest \in Int /\ s.base \in Int /\ W \in Nat
  BY WindowAssumption DEF StreamState
<1>2. CASE r = {}
  <2>1. Classify(s, seq) = New
    BY <1>1, <1>2 DEF Classify
  <2> QED
    BY <1>2, <2>1 DEF Filter!Classification, New
<1>3. CASE r # {}
  <2>1. s.highest >= 0 /\ Filter!Max(r) = s.highest /\ Filter!Min(r) = s.base
    BY <1>3, Extremes
  <2>2. /\ s.highest \in r /\ r \subseteq s.base .. s.highest
        /\ \A q \in Window(s) : s.bits[Slot(q)] <=> q \in r
    BY <2>1, Represented
  <2>3. (\A q \in r : seq > q) <=> seq > s.highest
    BY <1>1, <2>2
  <2>4. CASE seq > s.highest
    BY <2>3, <2>4 DEF Filter!Classification, Classify, New
  <2>5. CASE seq <= s.highest
    <3>1. seq \in Window(s) <=> ~(seq <= s.highest - W \/ seq < s.base)
      BY <1>1, <2>5 DEF Window
    <3>2. seq \in r => seq >= s.base
      BY <1>1, <2>2
    <3>3. seq \in Window(s) => (s.bits[Slot(seq)] <=> seq \in r)
      BY <2>2
    <3>4. CASE seq <= s.highest - W
      BY <1>1, <1>3, <2>1, <2>3, <2>5, <3>4 DEF Filter!Classification, Classify, Stale
    <3>5. CASE ~(seq <= s.highest - W)
      <4>1. seq > Filter!Max(r) - W
        BY <1>1, <2>1, <3>5
      <4>2. CASE seq < s.base
        BY <1>1, <1>3, <2>1, <2>3, <2>5, <3>2, <3>5, <4>1, <4>2
        DEF Filter!Classification, Classify, Stale
      <4>3. CASE ~(seq < s.base) /\ seq \in r
        BY <1>1, <1>3, <2>1, <2>3, <2>5, <3>1, <3>3, <3>5, <4>1, <4>3
        DEF Filter!Classification, Classify, Duplicate
      <4>4. CASE ~(seq < s.base) /\ seq \notin r
        BY <1>1, <1>3, <2>1, <2>3, <2>5, <3>1, <3>3, <3>5, <4>1, <4>4
        DEF Filter!Classification, Classify, Reordered
      <4> QED
        BY <4>2, <4>3, <4>4
    <3> QED
      BY <3>4, <3>5
  <2> QED
    BY <1>1, <2>4, <2>5
<1> QED
  BY <1>2, <1>3

\* The numbers that leave the window are the same.
LEMMA SameGaps ==
  ASSUME NEW s \in StreamState, NEW r \in SUBSET Nat, Represents(s, r), NEW seq \in Nat,
         r # {} <=> s.highest >= 0
  PROVE  Filter!LeftUnreceived(r, seq) = LeftUnreceived(s, r, seq)
<1>1. s.highest \in Int
  BY DEF StreamState
<1>2. CASE r = {}
  BY <1>1, <1>2 DEF Filter!LeftUnreceived, LeftUnreceived
<1>3. CASE r # {}
  <2>1. Filter!Max(r) = s.highest /\ Filter!Min(r) = s.base /\ s.highest >= 0
    BY <1>3, Extremes
  <2>2. Filter!LeftUnreceived(r, seq)
          = {q \in Filter!Min(r) .. seq - W : q > Filter!Max(r) - W /\ q \notin r}
    BY <1>3 DEF Filter!LeftUnreceived
  <2>3. LeftUnreceived(s, r, seq)
          = {q \in s.base .. seq - W : q > s.highest - W /\ q \notin r}
    BY <1>1, <2>1 DEF LeftUnreceived
  <2> QED
    BY <2>1, <2>2, <2>3
<1> QED
  BY <1>2, <1>3

\* The instance counts as the library does.
LEMMA SameCardinality == ASSUME NEW S PROVE Filter!Cardinality(S) = Cardinality(S)
  BY Zenon DEF Filter!Cardinality, Cardinality

\* The number of kept streams is the length of order.
LEMMA KeptCount ==
  ASSUME StreamsInv
  PROVE  Cardinality(Filter!Remembered) = Len(order)
<1> DEFINE K == Filter!Remembered
<1>1. order \in [1 .. Len(order) -> Streams] /\ DOMAIN order = 1 .. Len(order)
      /\ Len(order) \in Nat
  BY LenProperties DEF StreamsInv, TypeOK
<1>2. \A j \in Streams : j \in K <=> \E i \in 1 .. Len(order) : order[i] = j
  BY <1>1, KeptReceived DEF StreamsInv, BoundedStreams, Filter!Remembered
<1>3. \A i, j \in 1 .. Len(order) : order[i] = order[j] => i = j
  BY <1>1 DEF StreamsInv, BoundedStreams
<1>4. order \in [1 .. Len(order) -> K]
  BY <1>1, <1>2
<1> HIDE DEF K
<1>5. order \in Bijection(1 .. Len(order), K)
  <2>1. \A j \in K : \E i \in 1 .. Len(order) : order[i] = j
    BY <1>2 DEF K, Filter!Remembered
  <2> QED
    BY <1>3, <1>4, <2>1 DEF Bijection, Injection, Surjection, IsInjective
<1>6. ExistsBijection(1 .. Len(order), K)
  BY <1>5 DEF ExistsBijection
<1>7. Cardinality(K) = Len(order)
  BY <1>1, <1>6, FS_CountingElements
<1> QED
  BY <1>7 DEF K

\* A mark is a step of the filter on sets.
LEMMA MarkRefines ==
  ASSUME StreamsInv, NEW k \in Streams, NEW seq \in Seqs, Mark(k, seq)
  PROVE  Filter!Receive(k, seq)
<1> DEFINE s == streams[k]
           r == received[k]
<1>1. seq \in Nat
  BY BoundsAssumption DEF Seqs
<1>2. /\ s \in StreamState /\ r \in SUBSET Nat /\ Represents(s, r)
      /\ r # {} <=> s.highest >= 0
  BY KeptReceived DEF Kept
<1>3. Filter!Classification(r, seq) = Classify(s, seq)
  BY <1>1, <1>2, SameClassification
<1>4. Filter!LeftUnreceived(r, seq) = LeftUnreceived(s, r, seq)
  BY <1>1, <1>2, SameGaps
<1>5. totals'.gaps = totals.gaps + Cardinality(Filter!LeftUnreceived(r, seq))
  <2>1. totals'.gaps = totals.gaps + GapsAdded(s, seq)
    BY DEF Mark
  <2> QED
    BY <1>1, <1>2, <1>4, <2>1, GapsAddedExact
<1>6. outcome' = [class |-> Filter!Classification(r, seq), stream |-> k, seq |-> seq]
  BY <1>3 DEF Mark
<1>7. Dropped(k) \in Filter!Forgettable(k)
  <2> DEFINE K == Filter!Remembered
  <2>1. Cardinality(K) = Len(order)
    BY KeptCount
  <2>2. Kept(k) <=> received[k] # {}
    BY KeptReceived
  <2>3. Len(order) \in Nat /\ MaxStreams \in Nat
    BY StreamsAssumption, LenProperties DEF StreamsInv, TypeOK
  <2>4. \A x \in Dropped(k) : x \in K
    <3> SUFFICES ASSUME NEW x \in Dropped(k) PROVE x \in K
      OBVIOUS
    <3>1. x \in Streams /\ Kept(x)
      BY EarlierKeys
    <3> QED
      BY <3>1, KeptReceived DEF Filter!Remembered
  <2> HIDE DEF K
  <2>5. Filter!Forgettable(k) = IF received[k] = {} /\ Cardinality(K) >= MaxStreams
                                  THEN {{j} : j \in K} ELSE {{}}
    BY SameCardinality DEF Filter!Forgettable, K
  <2>6. Dropped(k) = IF Kept(k) \/ Len(order) < MaxStreams THEN {} ELSE {Head(order)}
    BY DEF Dropped
  <2>7. CASE Kept(k) \/ Len(order) < MaxStreams
    BY <2>1, <2>2, <2>3, <2>5, <2>6, <2>7
  <2>8. CASE ~(Kept(k) \/ Len(order) < MaxStreams)
    <3>1. Dropped(k) = {Head(order)} /\ Head(order) \in K
      BY <2>4, <2>6, <2>8
    <3>2. Filter!Forgettable(k) = {{j} : j \in K}
      BY <2>1, <2>2, <2>3, <2>5, <2>8
    <3> QED
      BY <3>1, <3>2
  <2> QED
    BY <2>7, <2>8
<1>8. received' = [j \in Streams |->
                     IF j = k
                       THEN received[k] \cup (IF Filter!Classification(r, seq) \in {"new", "reordered"}
                                                THEN {seq} ELSE {})
                     ELSE IF j \in Dropped(k) THEN {} ELSE received[j]]
  <2>1. received' = [j \in Streams |->
                       IF j = k THEN (IF Classify(s, seq) \in Accepted THEN r \cup {seq} ELSE r)
                       ELSE IF j \in Dropped(k) THEN {} ELSE received[j]]
    BY DEF Mark
  <2>2. (IF Classify(s, seq) \in Accepted THEN r \cup {seq} ELSE r)
          = received[k] \cup (IF Filter!Classification(r, seq) \in {"new", "reordered"}
                                THEN {seq} ELSE {})
    BY <1>3 DEF Accepted, New, Reordered
  <2> QED
    BY <2>1, <2>2
<1> HIDE DEF s
<1>9. \E forgotten \in Filter!Forgettable(k) :
        received' = [j \in Streams |->
                       IF j = k
                         THEN received[k] \cup (IF Filter!Classification(received[k], seq)
                                                      \in {"new", "reordered"} THEN {seq} ELSE {})
                       ELSE IF j \in forgotten THEN {} ELSE received[j]]
  BY <1>7, <1>8, Zenon
<1> QED
  BY <1>5, <1>6, <1>9, SameCardinality, Zenon DEF Filter!Receive

\* The ring and its counters implement the filter on sets: for every window
\* size, number of streams and order of datagrams, what is accepted, what is
\* suppressed and how many gaps are counted is what the sets say.
THEOREM Refinement == Spec => ImplementsFilter
<1>1. Init => Filter!Init
  BY DEF Init, Filter!Init, NoOutcome
<1>2. StreamsInv /\ [Next]_vars => [Filter!Next]_(Filter!vars)
  <2> SUFFICES ASSUME StreamsInv, [Next]_vars PROVE [Filter!Next]_(Filter!vars)
    OBVIOUS
  <2>1. CASE Next
    <3>1. PICK k \in Streams, seq \in Seqs : Mark(k, seq)
      BY <2>1 DEF Next
    <3>2. Filter!Receive(k, seq)
      BY <3>1, MarkRefines
    <3> QED
      BY <3>2 DEF Filter!Next, Seqs
  <2>2. CASE UNCHANGED vars
    BY <2>2 DEF vars, Filter!vars
  <2> QED
    BY <2>1, <2>2
<1> QED
  BY StreamsInvariant, <1>1, <1>2, PTL DEF Spec, ImplementsFilter, Filter!Spec

=============================================================================
