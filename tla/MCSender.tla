------------------------------ MODULE MCSender ------------------------------
(* Instances of Sender for TLC. *)
EXTENDS Sender, TLC

TwoFiles == 1 .. 2
TwoRuns  == 1 :> 2 @@ 2 :> 1

\* A header line, and a record too large for the link in each mode.
Headers  == {Line(1, 1, 1)}
TooLarge == {Line(2, 1, 1), Item(1, 1)}

Both     == {"tail", "replay"}
TailOnly == {"tail"}

=============================================================================
