----------------------------- MODULE MCIncidents -----------------------------
(* Instances of Incidents for TLC. *)
EXTENDS Incidents

CONSTANT p1

Kind(r, t, c, d) == [rank |-> r, subtype |-> t, count |-> c, span |-> d]

\* A severity and subtype to escalate and refine to, and more evidence.
ShortWindows == {Kind(1, "a", 1, 0), Kind(1, "a", 2, 1), Kind(2, "a", 1, 0), Kind(1, "b", 1, 1)}

\* Encrypted sessions: the window starts with the first session of half an hour.
LongWindows == {Kind(1, "a", 1, 1), Kind(2, "a", 2, 3)}

=============================================================================
