------------------------ MODULE SequenceWindowProofs ------------------------
(***************************************************************************)
(* The ring of SequenceWindow is an exact set: for every window size and   *)
(* every order of marks, the bits of a stream say which numbers of the     *)
(* window were accepted, and missing counts those that were not.           *)
(***************************************************************************)
EXTENDS SequenceWindow, FiniteSetTheorems, TLAPS

\* The numbers that leave the window unreceived when seq is marked.
LeftUnreceived(s, r, seq) ==
  IF s.highest < 0 THEN {}
  ELSE {q \in s.base .. seq - W : q > s.highest - W /\ q \notin r}

\* What has been accepted of a stream after seq is marked.
Grow(s, r, seq) == IF Classify(s, seq) \in Accepted THEN r \cup {seq} ELSE r

\* The stream s represents the set r of accepted numbers.
Represents(s, r) ==
  \/ /\ s = EmptyStream
     /\ r = {}
  \/ /\ s.base \in r /\ s.highest \in r
     /\ r \subseteq s.base .. s.highest
     /\ \A q \in Window(s) : s.bits[Slot(q)] <=> q \in r
     /\ s.missing = Cardinality(Window(s) \ r)

-----------------------------------------------------------------------------
\* A number and its slot.
LEMMA SlotType == \A a \in Int : Slot(a) \in Slots
BY WindowAssumption DEF Slot, Slots

LEMMA Division == \A a \in Int : a = (W * (a \div W)) + (a % W)
BY WindowAssumption

\* Numbers less than W apart have different slots: the ring never confuses two
\* numbers of one window.
LEMMA SlotInjective ==
  ASSUME NEW a \in Int, NEW b \in Int, a <= b, b - a < W, Slot(a) = Slot(b)
  PROVE  a = b
<1> DEFINE d == (b \div W) - (a \div W)
<1>1. W \in Nat /\ W > 0
  BY WindowAssumption
<1>2. b - a = W * d
  BY Division, <1>1 DEF Slot
<1>3. d \in Int
  BY <1>1
<1> HIDE DEF d
<1>4. d <= 0
  <2> SUFFICES ASSUME d >= 1 PROVE FALSE
    BY <1>3
  <2>1. W * d >= W
    BY <1>1, <1>3
  <2> QED
    BY <2>1, <1>1, <1>2
<1>5. d >= 0 \/ W * d < 0
  BY <1>1, <1>3
<1> QED
  BY <1>1, <1>2, <1>3, <1>4, <1>5

\* The window is finite, and so is what is missing in it.
LEMMA WindowFinite ==
  ASSUME NEW a \in Int, NEW b \in Int, NEW S, S \subseteq a .. b
  PROVE  IsFiniteSet(S) /\ Cardinality(S) \in Nat
BY FS_Interval, FS_Subset, FS_CardinalityType

-----------------------------------------------------------------------------
\* Classify tells new numbers, repetitions and reordered ones apart exactly.
LEMMA ClassifyExact ==
  ASSUME NEW s \in StreamState, NEW r \in SUBSET Nat, Represents(s, r), NEW seq \in Nat
  PROVE  /\ Classify(s, seq) \in Outcome
         /\ Classify(s, seq) = New <=> s.highest < 0 \/ seq > s.highest
         /\ Classify(s, seq) = Reordered <=> /\ s.highest >= 0 /\ seq \in Window(s)
                                             /\ seq \notin r
         /\ Classify(s, seq) = Duplicate <=> /\ s.highest >= 0 /\ seq \in Window(s)
                                             /\ seq \in r
<1>1. W \in Nat /\ W > 0
  BY WindowAssumption
<1>2. s.base \in Int /\ s.highest \in Int
  BY DEF StreamState
<1>3. s = EmptyStream => s.highest = -1
  BY DEF EmptyStream
<1>4. s.highest < 0 => s = EmptyStream
  BY <1>2 DEF Represents
<1>5. CASE s.highest < 0 \/ seq > s.highest
  BY <1>1, <1>2, <1>5 DEF Classify, Outcome, New, Reordered, Duplicate, Stale, Window
<1>6. CASE s.highest >= 0 /\ seq <= s.highest
  <2>1. seq \in Window(s) <=> ~(seq <= s.highest - W \/ seq < s.base)
    BY <1>1, <1>2, <1>6 DEF Window
  <2>2. seq \in Window(s) => (s.bits[Slot(seq)] <=> seq \in r)
    BY <1>3, <1>6 DEF Represents
  <2> QED
    BY <1>6, <1>2, <2>1, <2>2 DEF Classify, Outcome, New, Reordered, Duplicate, Stale
<1> QED
  BY <1>2, <1>5, <1>6

\* The first number of a stream.
LEMMA FirstRepresents ==
  ASSUME NEW seq \in Nat
  PROVE  /\ First(EmptyStream, seq) \in StreamState
         /\ Represents(First(EmptyStream, seq), {seq})
<1> DEFINE t == First(EmptyStream, seq)
<1>1. W \in Nat /\ W > 0
  BY WindowAssumption
<1>2. Slot(seq) \in Slots
  BY SlotType
<1>3. /\ t \in StreamState
      /\ t.base = seq /\ t.highest = seq /\ t.missing = 0 /\ t.bits[Slot(seq)] = TRUE
  <2> DEFINE zero == [i \in Slots |-> FALSE]
             ones == [zero EXCEPT ![Slot(seq)] = TRUE]
  <2>1. ones \in [Slots -> BOOLEAN] /\ ones[Slot(seq)] = TRUE
    BY <1>2
  <2>2. t = [base |-> seq, highest |-> seq, missing |-> 0, bits |-> ones]
    BY DEF First, EmptyStream
  <2> HIDE DEF ones
  <2> QED
    BY <2>1, <2>2 DEF StreamState
<1> HIDE DEF t
<1>4. Window(t) = {seq}
  BY <1>1, <1>3 DEF Window
<1>5. Window(t) \ {seq} = {}
  BY <1>4
<1>6. Represents(t, {seq})
  BY <1>3, <1>4, <1>5, FS_EmptySet DEF Represents
<1> QED
  BY <1>3, <1>6 DEF t

\* A jump beyond the window: only seq is in the new window.
LEMMA JumpRepresents ==
  ASSUME NEW s \in StreamState, NEW r \in SUBSET Nat, Represents(s, r), NEW seq \in Nat,
         s.highest >= 0, seq - s.highest > W
  PROVE  /\ Jump(s, seq) \in StreamState
         /\ Represents(Jump(s, seq), r \cup {seq})
<1> DEFINE t == Jump(s, seq)
<1>1. W \in Nat /\ W > 0
  BY WindowAssumption
<1>2. Slot(seq) \in Slots
  BY SlotType
<1>3. s.base \in r /\ s.highest \in r /\ r \subseteq s.base .. s.highest
      /\ s.base \in Nat /\ s.highest \in Nat
  <2>1. s # EmptyStream
    BY DEF EmptyStream
  <2> QED
    BY <2>1 DEF Represents
<1>4. /\ t \in StreamState
      /\ t.base = s.base /\ t.highest = seq /\ t.missing = W - 1
      /\ t.bits = [i \in Slots |-> i = Slot(seq)]
  BY <1>1, <1>2 DEF Jump, StreamState
<1> HIDE DEF t
<1>5. Window(t) = seq - W + 1 .. seq
  BY <1>1, <1>3, <1>4 DEF Window
<1>6. \A q \in Window(t) : q \in Int /\ Slot(q) \in Slots /\ (Slot(q) = Slot(seq) => q = seq)
  BY <1>1, <1>5, SlotType, SlotInjective
<1>7. \A q \in Window(t) : q \in r \cup {seq} <=> q = seq
  BY <1>1, <1>3, <1>5
<1>8. \A q \in Window(t) : t.bits[Slot(q)] <=> q \in r \cup {seq}
  BY <1>4, <1>6, <1>7
<1>9. Window(t) \ (r \cup {seq}) = seq - W + 1 .. seq - 1
  BY <1>1, <1>5, <1>7
<1>10. Cardinality(seq - W + 1 .. seq - 1) = W - 1
  BY <1>1, FS_Interval
<1>11. t.missing = Cardinality(Window(t) \ (r \cup {seq}))
  BY <1>4, <1>9, <1>10
<1>12. r \cup {seq} \subseteq t.base .. t.highest
  BY <1>1, <1>3, <1>4
<1>13. Represents(t, r \cup {seq})
  BY <1>3, <1>4, <1>8, <1>11, <1>12 DEF Represents
<1> QED
  BY <1>4, <1>13 DEF t

\* What Represents says of a stream that has accepted something.
LEMMA Represented ==
  ASSUME NEW s \in StreamState, NEW r \in SUBSET Nat, Represents(s, r), s.highest >= 0
  PROVE  /\ s.base \in r /\ s.highest \in r /\ r \subseteq s.base .. s.highest
         /\ s.base \in Nat /\ s.highest \in Nat /\ s.base <= s.highest
         /\ s.bits \in [Slots -> BOOLEAN]
         /\ \A q \in Window(s) : s.bits[Slot(q)] <=> q \in r
         /\ s.missing = Cardinality(Window(s) \ r)
         /\ IsFiniteSet(Window(s) \ r) /\ s.missing \in Nat
<1>1. s # EmptyStream
  BY DEF EmptyStream
<1>2. s.base \in r /\ s.highest \in r /\ r \subseteq s.base .. s.highest
      /\ (\A q \in Window(s) : s.bits[Slot(q)] <=> q \in r)
      /\ s.missing = Cardinality(Window(s) \ r)
  BY <1>1 DEF Represents
<1>3. s.base \in Nat /\ s.highest \in Nat /\ s.base <= s.highest
  <2>1. s.base \in Nat /\ s.highest \in Nat
    BY <1>2
  <2> QED
    BY <1>2, <2>1
<1>4. Window(s) \ r \subseteq s.base .. s.highest
  BY DEF Window
<1>5. IsFiniteSet(Window(s) \ r) /\ Cardinality(Window(s) \ r) \in Nat
  <2>1. s.base \in Int /\ s.highest \in Int
    BY <1>3
  <2> QED
    BY <1>4, <2>1, WindowFinite
<1>6. s.bits \in [Slots -> BOOLEAN]
  BY DEF StreamState
<1> QED
  BY <1>2, <1>3, <1>5, <1>6

\* A number of the window that had not been received.
LEMMA FillRepresents ==
  ASSUME NEW s \in StreamState, NEW r \in SUBSET Nat, Represents(s, r), s.highest >= 0,
         NEW seq \in Nat, seq \in Window(s), seq \notin r
  PROVE  /\ Fill(s, seq) \in StreamState
         /\ Represents(Fill(s, seq), r \cup {seq})
<1> DEFINE t == Fill(s, seq)
           ones == [s.bits EXCEPT ![Slot(seq)] = TRUE]
<1>1. W \in Nat /\ W > 0
  BY WindowAssumption
<1>2. Slot(seq) \in Slots
  BY SlotType
<1>3. /\ s.base \in r /\ s.highest \in r /\ r \subseteq s.base .. s.highest
      /\ s.base \in Nat /\ s.highest \in Nat
      /\ s.bits \in [Slots -> BOOLEAN]
      /\ \A q \in Window(s) : s.bits[Slot(q)] <=> q \in r
      /\ s.missing = Cardinality(Window(s) \ r)
      /\ IsFiniteSet(Window(s) \ r) /\ s.missing \in Nat
  BY Represented
<1>4. /\ ones \in [Slots -> BOOLEAN]
      /\ \A i \in Slots : ones[i] = (IF i = Slot(seq) THEN TRUE ELSE s.bits[i])
  BY <1>2, <1>3
<1>5. t = [base |-> s.base, highest |-> s.highest, missing |-> s.missing - 1, bits |-> ones]
  BY DEF Fill
<1> HIDE DEF ones
<1>6. /\ t \in StreamState
      /\ t.base = s.base /\ t.highest = s.highest /\ t.missing = s.missing - 1 /\ t.bits = ones
  BY <1>3, <1>4, <1>5 DEF StreamState
<1> HIDE DEF t
<1>7. Window(t) = Window(s)
  BY <1>6 DEF Window
<1>8. ASSUME NEW q \in Window(t)
      PROVE  t.bits[Slot(q)] <=> q \in r \cup {seq}
  <2>1. q \in Int /\ Slot(q) \in Slots
    BY <1>3, <1>7, SlotType DEF Window
  <2>2. Slot(q) = Slot(seq) => q = seq
    <3>1. q - seq < W /\ seq - q < W
      BY <1>1, <1>3, <1>7, <2>1 DEF Window
    <3> QED
      BY <2>1, <3>1, SlotInjective
  <2>3. s.bits[Slot(q)] <=> q \in r
    BY <1>3, <1>7
  <2> QED
    BY <1>4, <1>6, <2>1, <2>2, <2>3
<1>9. Window(t) \ (r \cup {seq}) = (Window(s) \ r) \ {seq}
  BY <1>7
<1>10. Cardinality((Window(s) \ r) \ {seq}) = Cardinality(Window(s) \ r) - 1
  BY <1>3, FS_RemoveElement
<1>11. t.missing = Cardinality(Window(t) \ (r \cup {seq}))
  BY <1>3, <1>6, <1>9, <1>10
<1>12. r \cup {seq} \subseteq t.base .. t.highest
  BY <1>3, <1>6 DEF Window
<1>13. Represents(t, r \cup {seq})
  BY <1>3, <1>6, <1>8, <1>11, <1>12 DEF Represents
<1> QED
  BY <1>6, <1>13 DEF t

\* A finite set and what is taken from it and added to it.
LEMMA CardinalityChange ==
  ASSUME NEW A, IsFiniteSet(A), NEW E \in SUBSET A, NEW a \in Int, NEW b \in Int,
         a <= b + 1, A \cap (a .. b) = {}
  PROVE  Cardinality((A \ E) \cup (a .. b)) = Cardinality(A) - Cardinality(E) + (b - a + 1)
<1>1. IsFiniteSet(A \ E) /\ Cardinality(A \ E) = Cardinality(A) - Cardinality(A \cap E)
  BY FS_Difference
<1>2. A \cap E = E
  OBVIOUS
<1>3. IsFiniteSet(a .. b) /\ Cardinality(a .. b) = b - a + 1
  BY FS_Interval
<1>4. (A \ E) \cap (a .. b) = {}
  OBVIOUS
<1>5. Cardinality((A \ E) \cup (a .. b))
        = Cardinality(A \ E) + Cardinality(a .. b) - Cardinality((A \ E) \cap (a .. b))
  BY <1>1, <1>3, FS_Union
<1>6. Cardinality({}) = 0
  BY FS_EmptySet
<1>7. IsFiniteSet(E) /\ Cardinality(E) \in Nat /\ Cardinality(A) \in Nat
  BY FS_Subset, FS_CardinalityType
<1>8. Cardinality(A \ E) = Cardinality(A) - Cardinality(E)
  BY <1>1, <1>2
<1>9. Cardinality((A \ E) \cap (a .. b)) = 0
  BY <1>4, <1>6
<1>10. Cardinality(A \ E) \in Nat
  BY <1>1, FS_CardinalityType
<1> QED
  BY <1>3, <1>5, <1>7, <1>8, <1>9, <1>10

\* The numbers that Slide counts as gaps are the missing ones it pushes out.
LEMMA EvictedExact ==
  ASSUME NEW s \in StreamState, NEW r \in SUBSET Nat, Represents(s, r), s.highest >= 0,
         NEW seq \in Nat, seq > s.highest, seq - s.highest <= W
  PROVE  /\ Evicted(s, seq) = LeftUnreceived(s, r, seq)
         /\ Evicted(s, seq) = {q \in Window(s) \ r : q <= seq - W}
<1>1. W \in Nat /\ W > 0
  BY WindowAssumption
<1>2. s.base \in Nat /\ s.highest \in Nat /\ \A q \in Window(s) : s.bits[Slot(q)] <=> q \in r
  BY Represented
<1>3. \A q \in Evicted(s, seq) : q \in Window(s) /\ q \notin r /\ q <= seq - W
  BY <1>1, <1>2 DEF Evicted, Window
<1>4. \A q \in Window(s) \ r : q <= seq - W => q \in Evicted(s, seq)
  BY <1>1, <1>2 DEF Evicted, Window
<1>5. LeftUnreceived(s, r, seq) = {q \in Window(s) \ r : q <= seq - W}
  BY <1>1, <1>2 DEF LeftUnreceived, Window
<1>6. Evicted(s, seq) = {q \in Window(s) \ r : q <= seq - W}
  BY <1>3, <1>4
<1> QED
  BY <1>5, <1>6

\* highest moves up by at most the window.
LEMMA SlideRepresents ==
  ASSUME NEW s \in StreamState, NEW r \in SUBSET Nat, Represents(s, r), s.highest >= 0,
         NEW seq \in Nat, seq > s.highest, seq - s.highest <= W
  PROVE  /\ Slide(s, seq) \in StreamState
         /\ Represents(Slide(s, seq), r \cup {seq})
<1> DEFINE t      == Slide(s, seq)
           passed == {Slot(q) : q \in s.highest + 1 .. seq}
           ring   == [i \in Slots |-> i = Slot(seq) \/ (i \notin passed /\ s.bits[i])]
           A      == Window(s) \ r
           E      == Evicted(s, seq)
<1>1. W \in Nat /\ W > 0
  BY WindowAssumption
<1>2. Slot(seq) \in Slots
  BY SlotType
<1>3. /\ s.base \in r /\ s.highest \in r /\ r \subseteq s.base .. s.highest
      /\ s.base \in Nat /\ s.highest \in Nat /\ s.base <= s.highest
      /\ s.bits \in [Slots -> BOOLEAN]
      /\ \A q \in Window(s) : s.bits[Slot(q)] <=> q \in r
      /\ s.missing = Cardinality(A)
      /\ IsFiniteSet(A) /\ s.missing \in Nat
  BY Represented
<1>4. E \subseteq A /\ E = {q \in A : q <= seq - W}
  BY EvictedExact
<1>5. IsFiniteSet(E) /\ Cardinality(E) \in Nat
  BY <1>3, <1>4, FS_Subset, FS_CardinalityType
<1>6. ring \in [Slots -> BOOLEAN]
  OBVIOUS
<1>7. t = [base |-> s.base, highest |-> seq,
           missing |-> s.missing - Cardinality(E) + (seq - s.highest - 1), bits |-> ring]
  BY DEF Slide
<1>8. \A i \in Slots : ring[i] <=> (i = Slot(seq) \/ (i \notin passed /\ s.bits[i]))
  OBVIOUS
<1> HIDE DEF ring, E
<1>9. /\ t \in StreamState
      /\ t.base = s.base /\ t.highest = seq /\ t.bits = ring
      /\ t.missing = s.missing - Cardinality(E) + (seq - s.highest - 1)
  BY <1>3, <1>5, <1>6, <1>7 DEF StreamState
<1> HIDE DEF t
<1>10. ASSUME NEW q \in Window(t)
       PROVE  t.bits[Slot(q)] <=> q \in r \cup {seq}
  <2>1. /\ q \in Int /\ Slot(q) \in Slots
        /\ s.base <= q /\ q <= seq /\ q > seq - W
    BY <1>1, <1>3, <1>9, SlotType DEF Window
  <2>2. Slot(q) = Slot(seq) => q = seq
    BY <1>1, <2>1, SlotInjective
  <2>3. CASE q = seq
    BY <1>8, <1>9, <2>1, <2>3
  <2>4. CASE q # seq /\ q > s.highest
    <3>1. Slot(q) \in passed
      BY <1>3, <2>1, <2>4
    <3>2. q \notin r
      BY <1>3, <2>1, <2>4
    <3> QED
      BY <1>8, <1>9, <2>1, <2>2, <2>4, <3>1, <3>2
  <2>5. CASE q <= s.highest
    <3>1. Slot(q) \notin passed
      <4> SUFFICES ASSUME NEW p \in s.highest + 1 .. seq, Slot(q) = Slot(p)
                   PROVE  FALSE
        OBVIOUS
      <4>1. p \in Int /\ q <= p /\ p - q < W
        BY <1>1, <1>3, <2>1, <2>5
      <4>2. q = p
        BY <2>1, <4>1, SlotInjective
      <4> QED
        BY <1>3, <2>1, <2>5, <4>2
    <3>2. q \in Window(s) /\ q # seq
      BY <1>1, <1>3, <2>1, <2>5 DEF Window
    <3>3. s.bits[Slot(q)] <=> q \in r
      BY <1>3, <3>2
    <3> QED
      BY <1>8, <1>9, <2>1, <2>2, <3>1, <3>2, <3>3
  <2> QED
    BY <1>3, <2>1, <2>3, <2>4, <2>5
<1>11. Window(t) \ (r \cup {seq}) = (A \ E) \cup (s.highest + 1 .. seq - 1)
  <2>1. \A q \in Window(t) \ (r \cup {seq}) : q \in (A \ E) \cup (s.highest + 1 .. seq - 1)
    BY <1>1, <1>3, <1>4, <1>9 DEF Window
  <2>2. \A q \in A \ E : q \in Window(t) \ (r \cup {seq})
    BY <1>1, <1>3, <1>4, <1>9 DEF Window
  <2>3. \A q \in s.highest + 1 .. seq - 1 : q \in Window(t) \ (r \cup {seq})
    BY <1>1, <1>3, <1>9 DEF Window
  <2> QED
    BY <2>1, <2>2, <2>3
<1>12. A \cap (s.highest + 1 .. seq - 1) = {}
  BY <1>3 DEF Window
<1> HIDE DEF A
<1>13. Cardinality((A \ E) \cup (s.highest + 1 .. seq - 1))
         = Cardinality(A) - Cardinality(E) + (seq - s.highest - 1)
  <2> DEFINE lo == s.highest + 1
             hi == seq - 1
  <2>1. lo \in Int /\ hi \in Int /\ lo <= hi + 1 /\ hi - lo + 1 = seq - s.highest - 1
    BY <1>3
  <2>2. IsFiniteSet(A) /\ E \in SUBSET A /\ A \cap (lo .. hi) = {}
    BY <1>3, <1>4, <1>12
  <2> HIDE DEF lo, hi
  <2>3. Cardinality((A \ E) \cup (lo .. hi)) = Cardinality(A) - Cardinality(E) + (hi - lo + 1)
    BY <2>1, <2>2, CardinalityChange
  <2> QED
    BY <2>1, <2>3 DEF lo, hi
<1>14. t.missing = Cardinality(Window(t) \ (r \cup {seq}))
  BY <1>3, <1>9, <1>11, <1>13
<1>15. r \cup {seq} \subseteq t.base .. t.highest
  BY <1>3, <1>9
<1>16. Represents(t, r \cup {seq})
  BY <1>3, <1>9, <1>10, <1>14, <1>15 DEF Represents
<1> QED
  BY <1>9, <1>16 DEF t

\* mark keeps the stream and what it accepted together (dedup.py, mark): the
\* ring and the missing counter stay exact, for every window size.
THEOREM RecordRepresents ==
  ASSUME NEW s \in StreamState, NEW r \in SUBSET Nat, Represents(s, r), NEW seq \in Nat
  PROVE  /\ Record(s, seq) \in StreamState
         /\ Represents(Record(s, seq), Grow(s, r, seq))
         /\ Record(s, seq).highest >= 0
         /\ Grow(s, r, seq) \in SUBSET Nat
<1>1. s.highest \in Int /\ W \in Nat
  BY WindowAssumption DEF StreamState
<1>2. Grow(s, r, seq) \in SUBSET Nat
  BY DEF Grow
<1>3. CASE s.highest < 0
  <2>1. s = EmptyStream /\ r = {}
    <3>1. s.highest \notin r
      BY <1>1, <1>3, \A q \in r : q \in Nat
    <3> QED
      BY <3>1 DEF Represents
  <2>2. Classify(s, seq) = New
    BY <1>3 DEF Classify
  <2>3. Grow(s, r, seq) = {seq}
    BY <2>1, <2>2 DEF Grow, Accepted
  <2>4. Record(s, seq) = First(EmptyStream, seq)
    BY <1>1, <1>3, <2>1, <2>2 DEF Record, New, Reordered
  <2>5. First(EmptyStream, seq).highest = seq
    BY DEF First
  <2> QED
    BY <1>2, <2>3, <2>4, <2>5, FirstRepresents
<1>4. CASE s.highest >= 0 /\ seq > s.highest
  <2>1. Classify(s, seq) = New
    BY <1>4 DEF Classify
  <2>2. Grow(s, r, seq) = r \cup {seq}
    BY <2>1 DEF Grow, Accepted
  <2>3. CASE seq - s.highest > W
    <3>1. Record(s, seq) = Jump(s, seq)
      BY <1>1, <1>4, <2>1, <2>3 DEF Record, New, Reordered
    <3>2. Jump(s, seq).highest = seq
      BY DEF Jump
    <3> QED
      BY <1>2, <1>4, <2>2, <2>3, <3>1, <3>2, JumpRepresents
  <2>4. CASE seq - s.highest <= W
    <3>1. Record(s, seq) = Slide(s, seq)
      BY <1>1, <1>4, <2>1, <2>4 DEF Record, New, Reordered
    <3>2. Slide(s, seq).highest = seq
      BY DEF Slide
    <3> QED
      BY <1>2, <1>4, <2>2, <2>4, <3>1, <3>2, SlideRepresents
  <2> QED
    BY <1>1, <2>3, <2>4
<1>5. CASE s.highest >= 0 /\ seq <= s.highest
  <2>1. Classify(s, seq) # New
    BY <1>1, <1>5, ClassifyExact
  <2>2. CASE Classify(s, seq) = Reordered
    <3>1. Record(s, seq) = Fill(s, seq)
      BY <1>1, <1>5, <2>2 DEF Record
    <3>2. seq \in Window(s) /\ seq \notin r
      BY <2>2, ClassifyExact
    <3>3. Grow(s, r, seq) = r \cup {seq}
      BY <2>2 DEF Grow, Accepted
    <3>4. Fill(s, seq).highest = s.highest
      BY DEF Fill
    <3> QED
      BY <1>2, <1>5, <3>1, <3>2, <3>3, <3>4, FillRepresents
  <2>3. CASE Classify(s, seq) # Reordered
    <3>1. Record(s, seq) = s
      BY <1>1, <1>5, <2>3 DEF Record
    <3>2. Grow(s, r, seq) = r
      BY <2>1, <2>3 DEF Grow, Accepted
    <3> QED
      BY <1>2, <1>5, <3>1, <3>2
  <2> QED
    BY <2>2, <2>3
<1> QED
  BY <1>1, <1>3, <1>4, <1>5

\* What mark adds to gaps_total is the number of sequence numbers that leave the
\* window without having been received.
THEOREM GapsAddedExact ==
  ASSUME NEW s \in StreamState, NEW r \in SUBSET Nat, Represents(s, r), NEW seq \in Nat
  PROVE  /\ GapsAdded(s, seq) = Cardinality(LeftUnreceived(s, r, seq))
         /\ GapsAdded(s, seq) \in Nat
<1> DEFINE A == Window(s) \ r
           L == LeftUnreceived(s, r, seq)
<1>1. s.highest \in Int /\ W \in Nat /\ W > 0
  BY WindowAssumption DEF StreamState
<1>2. Cardinality({}) = 0
  BY FS_EmptySet
<1>3. CASE s.highest < 0
  BY <1>2, <1>3 DEF GapsAdded, LeftUnreceived
<1>4. ASSUME s.highest >= 0
      PROVE  /\ s.base \in Nat /\ s.highest \in Nat /\ s.base <= s.highest
             /\ r \subseteq s.base .. s.highest
             /\ IsFiniteSet(A) /\ s.missing \in Nat /\ s.missing = Cardinality(A)
  BY <1>4, Represented
<1>5. CASE s.highest >= 0 /\ seq <= s.highest
  <2>1. L = {}
    BY <1>1, <1>4, <1>5 DEF LeftUnreceived
  <2> QED
    BY <1>2, <1>5, <2>1 DEF GapsAdded
<1>6. CASE s.highest >= 0 /\ seq > s.highest /\ seq - s.highest <= W
  <2>1. L = Evicted(s, seq) /\ L \subseteq A
    BY <1>6, EvictedExact
  <2>2. GapsAdded(s, seq) = Cardinality(Evicted(s, seq))
    BY <1>1, <1>6 DEF GapsAdded
  <2>3. Cardinality(L) \in Nat
    BY <1>4, <1>6, <2>1, FS_Subset, FS_CardinalityType
  <2> QED
    BY <2>1, <2>2, <2>3
<1>7. CASE s.highest >= 0 /\ seq > s.highest /\ seq - s.highest > W
  <2> DEFINE lo == s.highest + 1
             hi == seq - W
  <2>1. /\ lo \in Int /\ hi \in Int /\ lo <= hi + 1
        /\ hi - lo + 1 = seq - s.highest - W
    BY <1>1, <1>7
  <2>2. L = A \cup (lo .. hi)
    <3>1. \A q \in L : q \in A \cup (lo .. hi)
      BY <1>1, <1>4, <1>7 DEF LeftUnreceived, Window
    <3>2. \A q \in A : q \in L
      BY <1>1, <1>4, <1>7 DEF LeftUnreceived, Window
    <3>3. \A q \in lo .. hi : q \in L
      BY <1>1, <1>4, <1>7 DEF LeftUnreceived
    <3> QED
      BY <3>1, <3>2, <3>3
  <2>3. A \cap (lo .. hi) = {}
    BY <1>4, <1>7 DEF Window
  <2>4. IsFiniteSet(A) /\ s.missing \in Nat /\ s.missing = Cardinality(A)
    BY <1>4, <1>7
  <2>5. GapsAdded(s, seq) = s.missing + (seq - s.highest - W)
    BY <1>1, <1>7 DEF GapsAdded
  <2> HIDE DEF A, L, lo, hi
  <2>6. IsFiniteSet(lo .. hi) /\ Cardinality(lo .. hi) = hi - lo + 1
    BY <2>1, FS_Interval
  <2>7. Cardinality(A \cup (lo .. hi))
          = Cardinality(A) + Cardinality(lo .. hi) - Cardinality(A \cap (lo .. hi))
    BY <2>4, <2>6, FS_Union
  <2>8. Cardinality(L) = s.missing + (seq - s.highest - W)
    <3>1. Cardinality(A \cap (lo .. hi)) = 0
      BY <1>2, <2>3
    <3>2. Cardinality(L) = Cardinality(A \cup (lo .. hi))
      BY <2>2
    <3> QED
      BY <1>1, <1>7, <2>1, <2>4, <2>6, <2>7, <3>1, <3>2
  <2>9. Cardinality(L) \in Nat
    BY <1>1, <1>7, <2>4, <2>8
  <2> QED
    BY <2>5, <2>8, <2>9 DEF L
<1> QED
  BY <1>1, <1>3, <1>5, <1>6, <1>7

=============================================================================
