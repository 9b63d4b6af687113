------------------------------ MODULE Encrypted ------------------------------
(***************************************************************************)
(* One service pair: its TLS sessions, each of which follows the one       *)
(* before within the horizon, and the most suspicious of them              *)
(* (encrypted.py).                                                         *)
(***************************************************************************)
EXTENDS KeyedOperator

CONSTANTS
  Handshakes, \* what the indicators of a session make: [score, positives], or None
  MinScore, MinPositive,
  External    \* whether the destination is outside

Session == [seen: Handshakes, obs: 0 .. MaxTime]

\* The history: the sessions since the horizon was last exceeded, and the time of
\* the youngest before them.
Init == Start([run |-> << >>, before |-> -1])

\* What is kept of a pair.
PairState ==
  [sessions: Nat, scored: Nat, score: Nat, positives: Nat, first: Nat, last: Nat, rank: Int]

Empty(e) ==
  [sessions |-> 0, scored |-> 0, score |-> 0, positives |-> 0, first |-> e.obs, last |-> e.obs, rank |-> -1]

-----------------------------------------------------------------------------
\* Mutation: the horizon is counted from the first session.
ContinuesFirst(e) == state # None /\ e.obs <= state.first + TlsHorizon

Continues(e) == state # None /\ e.obs <= state.last + TlsHorizon

Session1(e) ==
  LET s == IF Continues(e) THEN state ELSE Empty(e) IN
  [s EXCEPT !.sessions = @ + 1, !.last = e.obs]

\* The score and the number of indicators are those of the last session that no
\* earlier one exceeds.
Scored(e) ==
  LET s == Session1(e)
      top == e.seen.score >= s.score
  IN [s EXCEPT !.scored = @ + 1, !.score = IF top THEN e.seen.score ELSE @,
               !.positives = IF top THEN e.seen.positives ELSE @]

Suspicious(s) == s.scored >= TlsSessions /\ s.score >= MinScore /\ s.positives >= MinPositive

Rank(s) == IF s.sessions >= TlsManySessions /\ External THEN 2 ELSE 1

Shown(s) == IF Suspicious(s) THEN [s EXCEPT !.rank = Max({@, Rank(s)})] ELSE s

Noted(e) ==
  IF Continues(e) THEN [history EXCEPT !.run = Append(@, e)] ELSE [run |-> <<e>>, before |-> newest]

Registered(e) == {BucketUp(e.obs + TlsHorizon, TlsStep)}

\* Too few of the indicators are available to score the session.
Abstain(e) == e.seen = None /\ Handle(e, Shown(Session1(e)), Registered(e), Noted(e))

Score(e) == e.seen # None /\ Handle(e, Shown(Scored(e)), Registered(e), Noted(e))

OnTimer == Expire(state.last + TlsHorizon <= Max(Due), history)

Next == (\E e \in Session : Abstain(e) \/ Score(e)) \/ OnTimer

Spec == Init /\ [][Next]_vars

-----------------------------------------------------------------------------
\* The sessions counted together are those that follow one another within the
\* horizon, as far as their disorder lets one tell; the one reported is the most
\* suspicious; and its severity is that of the sessions so far
\* (encrypted.py:57-60).
SessionsAreOneRun ==
  state # None =>
    LET run    == history.run
        scores == {run[i].seen : i \in DOMAIN run} \ {None}
    IN /\ state.sessions = Len(run) /\ state.first = run[1].obs
       /\ \A i \in 2 .. Len(run) : run[i].obs <= run[i - 1].obs + TlsHorizon
       /\ history.before # -1 => run[1].obs + OutOfOrderness > history.before + TlsHorizon
       /\ state.score = Max({0} \cup {s.score : s \in scores})
       /\ scores # {} => [score |-> state.score, positives |-> state.positives] \in scores
       /\ Suspicious(state) => state.rank = Rank(state)

=============================================================================
