--------------------------- MODULE MCDedupWindow ---------------------------
(* An instance of DedupWindow for TLC. *)
EXTENDS DedupWindow, TLC

\* Nothing tells one stream from another.
Symmetry == Permutations(Streams)

=============================================================================
