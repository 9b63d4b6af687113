---------------------------- MODULE DedupWindow ----------------------------
(***************************************************************************)
(* The receiver's duplicate filter (dedup.py, class DedupWindow): a        *)
(* bounded, least-recently-marked set of streams, one per sensor and boot, *)
(* and the counters that mark keeps.                                       *)
(***************************************************************************)
EXTENDS SequenceWindow, SequencesExt

CONSTANTS Streams,      \* the stream keys: sensor id and boot id
          MaxStreams,   \* MAX_STREAMS
          MaxSeq,       \* bound: the sequence numbers are 0 .. MaxSeq
          MaxRepeats,   \* bound on the marks that record nothing
          MaxGaps       \* bound: no mark once gaps and reordered numbers exceed it

ASSUME StreamsAssumption == MaxStreams \in Nat \ {0}
ASSUME BoundsAssumption  == MaxSeq \in Nat /\ MaxRepeats \in Nat /\ MaxGaps \in Nat

VARIABLES streams,  \* the state of each stream, EmptyStream when it is not kept
          order,    \* the kept keys, least recently marked first
          totals,   \* the four counters
          received, \* history: what mark accepted of each kept stream
          outcome   \* history: the last mark, its stream and its classification

vars == <<streams, order, totals, received, outcome>>

Seqs == 0 .. MaxSeq

Totals == [gaps: Int, duplicates: Int, reordered: Int, stale: Int]

NoOutcome == [class |-> "none"]

Kept(k) == streams[k].highest >= 0

Init ==
  /\ streams  = [k \in Streams |-> EmptyStream]
  /\ order    = << >>
  /\ totals   = [gaps |-> 0, duplicates |-> 0, reordered |-> 0, stale |-> 0]
  /\ received = [k \in Streams |-> {}]
  /\ outcome  = NoOutcome

Position(k) == CHOOSE i \in DOMAIN order : order[i] = k

\* A mutation of Dropped: one stream too many is kept.
DroppedLate(k) ==
  IF Kept(k) \/ Len(order) <= MaxStreams THEN {} ELSE {Head(order)}

\* The keys that popitem(last=False) drops when k is marked.
Dropped(k) ==
  IF Kept(k) \/ Len(order) < MaxStreams THEN {} ELSE {Head(order)}

\* The keys that stay before k, which becomes the most recent one.
Earlier(k) ==
  IF Kept(k) THEN RemoveAt(order, Position(k))
  ELSE IF Len(order) < MaxStreams THEN order
  ELSE Tail(order)

\* mark(sensor_id, boot_id, seq) on the stream k.
Mark(k, seq) ==
  LET s       == streams[k]
      class   == Classify(s, seq)
      dropped == Dropped(k)
  IN  /\ \/ class \in Accepted
         \/ totals.duplicates + totals.stale < MaxRepeats
      /\ totals.gaps + totals.reordered <= MaxGaps
      /\ streams' = [j \in Streams |->
                       IF j = k THEN Record(s, seq)
                       ELSE IF j \in dropped THEN EmptyStream
                       ELSE streams[j]]
      /\ order' = Append(Earlier(k), k)
      /\ totals' = [gaps       |-> totals.gaps + GapsAdded(s, seq),
                    duplicates |-> totals.duplicates + (IF class = Duplicate THEN 1 ELSE 0),
                    reordered  |-> totals.reordered + (IF class = Reordered THEN 1 ELSE 0),
                    stale      |-> totals.stale + (IF class = Stale THEN 1 ELSE 0)]
      /\ received' = [j \in Streams |->
                        IF j = k THEN (IF class \in Accepted THEN received[k] \cup {seq}
                                                             ELSE received[k])
                        ELSE IF j \in dropped THEN {}
                        ELSE received[j]]
      /\ outcome' = [class |-> class, stream |-> k, seq |-> seq]

Next == \E k \in Streams, seq \in Seqs : Mark(k, seq)

Spec == Init /\ [][Next]_vars

-----------------------------------------------------------------------------
(***************************************************************************)
(* Properties                                                              *)
(***************************************************************************)

\* Every variable has its type, and the kept keys are the distinct keys of order.
TypeOK ==
  /\ streams \in [Streams -> StreamState]
  /\ order \in Seq(Streams)
  /\ totals \in Totals
  /\ received \in [Streams -> SUBSET Seqs]
  /\ outcome \in {NoOutcome} \cup [class: Outcome, stream: Streams, seq: Seqs]

\* The ring is a set: inside the window of every kept stream, the bit of a
\* sequence number is set exactly when that number was accepted, although a
\* slot has been used for many numbers before (dedup.py, get and set).
RingIsExact ==
  \A k \in Streams : \A q \in Window(streams[k]) :
    Kept(k) => (streams[k].bits[Slot(q)] <=> q \in received[k])

\* No sequence number of a kept stream is classified as new or reordered twice,
\* whatever the order, the jumps and the repetitions in which the numbers come.
NeverAcceptedTwice ==
  [][outcome'.class \in Accepted => outcome'.seq \notin received[outcome'.stream]]_vars

\* A number is suppressed as a duplicate only if it was accepted before: the
\* filter never takes a record it has not seen for a copy of another one.
DuplicatesWereAccepted ==
  [][outcome'.class = Duplicate => outcome'.seq \in received[outcome'.stream]]_vars

\* The accounting behind link_missing_in_window: missing is the number of
\* positions of the window that were not received.
MissingIsExact ==
  \A k \in Streams :
    Kept(k) => streams[k].missing = Cardinality(Window(streams[k]) \ received[k])

\* The filter keeps at most MAX_STREAMS streams, and order lists exactly those.
BoundedStreams ==
  /\ Len(order) <= MaxStreams
  /\ \A i, j \in DOMAIN order : order[i] = order[j] => i = j
  /\ \A k \in Streams : Kept(k) <=> \E i \in DOMAIN order : order[i] = k

\* The filter's own structure (dedup.py, lines 61-67): its types, and the bounded list.
FilterIsWellFormed == TypeOK /\ BoundedStreams

\* What mark answers is right (dedup.py, lines 72-95): a record is accepted once, and what
\* is suppressed is a copy.
OutcomesAreRight == NeverAcceptedTwice /\ DuplicatesWereAccepted

\* The ring and the counters implement the filter on sets.
Filter == INSTANCE DuplicateFilter WITH gaps <- totals.gaps
ImplementsFilter == Filter!Spec

=============================================================================
