--------------------------- MODULE SequenceWindow ---------------------------
(***************************************************************************)
(* One stream of the receiver's duplicate filter (dedup.py, class _Stream  *)
(* and the per-stream half of DedupWindow.check and DedupWindow.mark): the *)
(* sequence numbers of one sensor boot, remembered as one bit each in a    *)
(* ring of W bits.  The operators are pure; DedupWindow and Receiver keep  *)
(* records of this shape in their state.                                   *)
(***************************************************************************)
EXTENDS Integers, FiniteSets

CONSTANT W      \* WINDOW: the number of sequence numbers the ring covers

ASSUME WindowAssumption == W \in Nat \ {0}

\* The classifications that check and mark return.
New       == "new"
Reordered == "reordered"
Duplicate == "duplicate"
Stale     == "stale"

Outcome  == {New, Reordered, Duplicate, Stale}
Accepted == {New, Reordered}

Slots == 0 .. W - 1

\* A sequence number's bit: seq & (WINDOW - 1), W being a power of two in the code.
Slot(seq) == seq % W

StreamState == [base: Int, highest: Int, missing: Int, bits: [Slots -> BOOLEAN]]

\* A stream just constructed; no key is kept in this state after a mark.
EmptyStream == [base |-> -1, highest |-> -1, missing |-> 0, bits |-> [i \in Slots |-> FALSE]]

\* The part of a stream that the ring covers.
Window(s) == {q \in s.base .. s.highest : q > s.highest - W}

\* A mutation of Classify: whatever its slot does not remember is accepted.
ClassifyByBit(s, seq) ==
  IF s.highest < 0 \/ seq > s.highest THEN New
  ELSE IF seq < s.base THEN Stale
  ELSE IF s.bits[Slot(seq)] THEN Duplicate
  ELSE Reordered

\* check: the classification of seq, without recording it.
Classify(s, seq) ==
  IF s.highest < 0 \/ seq > s.highest THEN New
  ELSE IF seq <= s.highest - W \/ seq < s.base THEN Stale
  ELSE IF s.bits[Slot(seq)] THEN Duplicate
  ELSE Reordered

\* The positions that leave the window when highest moves to seq and that hold
\* no bit.  A jump of more than W is handled apart: see Jump.
Evicted(s, seq) ==
  {q \in s.highest + 1 - W .. seq - W : q >= s.base /\ ~s.bits[Slot(q)]}

First(s, seq) ==
  [base |-> seq, highest |-> seq, missing |-> s.missing,
   bits |-> [s.bits EXCEPT ![Slot(seq)] = TRUE]]

\* Mutations of Jump: seq itself is counted as missing; the ring has a bit more.
JumpMissingAll(s, seq) ==
  [base |-> s.base, highest |-> seq, missing |-> W, bits |-> [i \in Slots |-> i = Slot(seq)]]

JumpWiderRing(s, seq) ==
  [base |-> s.base, highest |-> seq, missing |-> W - 1, bits |-> [i \in 0 .. W |-> i = Slot(seq)]]

\* seq lies more than W beyond highest: the whole ring is cleared.
Jump(s, seq) ==
  [base |-> s.base, highest |-> seq, missing |-> W - 1,
   bits |-> [i \in Slots |-> i = Slot(seq)]]

\* A mutation of Slide: the slots passed on the way keep the bits of old numbers.
SlideKeepingBits(s, seq) ==
  [base    |-> s.base,
   highest |-> seq,
   missing |-> s.missing - Cardinality(Evicted(s, seq)) + (seq - s.highest - 1),
   bits    |-> [s.bits EXCEPT ![Slot(seq)] = TRUE]]

\* highest moves up by at most W: the slots passed on the way are cleared.
Slide(s, seq) ==
  LET passed == {Slot(q) : q \in s.highest + 1 .. seq}
  IN  [base    |-> s.base,
       highest |-> seq,
       missing |-> s.missing - Cardinality(Evicted(s, seq)) + (seq - s.highest - 1),
       bits    |-> [i \in Slots |-> \/ i = Slot(seq)
                                    \/ i \notin passed /\ s.bits[i]]]

\* seq is inside the window and had not been received.
Fill(s, seq) ==
  [base |-> s.base, highest |-> s.highest, missing |-> s.missing - 1,
   bits |-> [s.bits EXCEPT ![Slot(seq)] = TRUE]]

\* mark: the stream after seq has been recorded.
Record(s, seq) ==
  IF s.highest < 0 THEN First(s, seq)
  ELSE IF seq - s.highest > W THEN Jump(s, seq)
  ELSE IF seq > s.highest THEN Slide(s, seq)
  ELSE IF Classify(s, seq) = Reordered THEN Fill(s, seq)
  ELSE s

\* A mutation of GapsAdded: a jump forgets what the old window was still missing.
GapsAddedBeyond(s, seq) ==
  IF s.highest < 0 \/ seq <= s.highest THEN 0
  ELSE IF seq - s.highest > W THEN seq - s.highest - W
  ELSE Cardinality(Evicted(s, seq))

\* mark: what the call adds to gaps_total.
GapsAdded(s, seq) ==
  IF s.highest < 0 \/ seq <= s.highest THEN 0
  ELSE IF seq - s.highest > W THEN s.missing + (seq - s.highest - W)
  ELSE Cardinality(Evicted(s, seq))

=============================================================================
