----------------------------- MODULE MCDetection -----------------------------
(* Instances of Detection for TLC. *)
EXTENDS Detection

AllOperators == {"flow", "scan", "ddos", "beacon", "exfil", "encrypted", "dns", "burst"}

BeaconOnly == {"beacon"}

Times ==
  [flow |-> 6, scan |-> 5, ddos |-> 4, beacon |-> 5, exfil |-> 5, encrypted |-> 5, dns |-> 4, burst |-> 4]

Events ==
  [flow |-> 5, scan |-> 4, ddos |-> 3, beacon |-> 5, exfil |-> 4, encrypted |-> 4, dns |-> 4, burst |-> 3]

Update(seq, count, obs)   == [terminal |-> FALSE, seq |-> seq, count |-> count, obs |-> obs]
Closing(count, obs)       == [terminal |-> TRUE, seq |-> 0, count |-> count, obs |-> obs]

\* Flows whose counters grow, with values that are unavailable and long silences; a
\* counter that moves backwards; and a flow that only ends.
SomeFlows ==
  {{Update(1, 1, 0), Update(2, None, 1), Update(3, 3, 3), Closing(4, 4)},
   {Update(1, 2, 0), Update(2, 5, 4), Closing(6, 5), Closing(6, 6)},
   {Update(1, 3, 1), Update(2, 1, 1), Update(3, 4, 2), Closing(None, 2)},
   {Closing(2, 1)}}

\* Sessions that cannot be scored, and equal scores from more or fewer indicators.
SomeHandshakes == {None, [score |-> 1, positives |-> 2], [score |-> 1, positives |-> 1]}

=============================================================================
