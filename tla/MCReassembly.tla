---------------------------- MODULE MCReassembly ----------------------------
(* Instances of Reassembly for TLC. *)
EXTENDS Reassembly

CONSTANTS a, a1, a2, b, c, w, KeyA

\* a, a1 and a2 have one sequence number; a1 is as long as a, a2 is longer.
\* w fits into one datagram.
AllRecords == {a, a1, a2, b, c, w}

KeyOf   == [r \in Records |-> IF r \in {a, a1, a2} THEN KeyA ELSE r]
TotalOf == [r \in Records |-> IF r = w THEN 2 ELSE IF r = a2 THEN 5 ELSE 4]

=============================================================================
