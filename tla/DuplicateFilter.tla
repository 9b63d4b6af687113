-------------------------- MODULE DuplicateFilter --------------------------
(***************************************************************************)
(* What the receiver's duplicate filter promises, without the ring: a      *)
(* stream is the set of sequence numbers it has accepted.  A number is     *)
(* accepted when it was not accepted before and lies above the window's    *)
(* lower end and above the first number of the stream; a number counts as  *)
(* a gap when it leaves the window and was never accepted.                 *)
(***************************************************************************)
EXTENDS Integers, FiniteSets, FiniteSetsExt

CONSTANTS W, Streams, MaxStreams, MaxSeq

VARIABLES received,  \* what was accepted of each stream that is kept
          gaps,      \* the numbers that left a window without being accepted
          outcome    \* the last classification

vars == <<received, gaps, outcome>>

Init ==
  /\ received = [k \in Streams |-> {}]
  /\ gaps     = 0
  /\ outcome  = [class |-> "none"]

Classification(r, seq) ==
  IF r = {} \/ \A q \in r : seq > q THEN "new"
  ELSE IF seq \in r /\ seq > Max(r) - W THEN "duplicate"
  ELSE IF seq <= Max(r) - W \/ seq < Min(r) THEN "stale"
  ELSE "reordered"

\* The numbers that leave the window when seq is accepted and were not received.
LeftUnreceived(r, seq) ==
  IF r = {} THEN {}
  ELSE {q \in Min(r) .. seq - W : q > Max(r) - W /\ q \notin r}

\* The streams the filter knows.
Remembered == {k \in Streams : received[k] # {}}

\* The filter may forget one stream, and only to make room for a new one.
Forgettable(k) ==
  IF received[k] = {} /\ Cardinality(Remembered) >= MaxStreams
    THEN {{j} : j \in Remembered}
    ELSE {{}}

Receive(k, seq) ==
  LET class == Classification(received[k], seq)
  IN  /\ gaps'    = gaps + Cardinality(LeftUnreceived(received[k], seq))
      /\ outcome' = [class |-> class, stream |-> k, seq |-> seq]
      /\ \E forgotten \in Forgettable(k) :
           received' = [j \in Streams |->
                          IF j = k
                            THEN received[k] \cup (IF class \in {"new", "reordered"} THEN {seq} ELSE {})
                          ELSE IF j \in forgotten THEN {} ELSE received[j]]

Next == \E k \in Streams, seq \in 0 .. MaxSeq : Receive(k, seq)

Spec == Init /\ [][Next]_vars

=============================================================================
