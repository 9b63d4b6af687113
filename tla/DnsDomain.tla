------------------------------ MODULE DnsDomain ------------------------------
(***************************************************************************)
(* The queries of one source under one registrable domain, by tumbling     *)
(* windows: the distinct names below the domain, and what they look like   *)
(* (dns.py).                                                               *)
(***************************************************************************)
EXTENDS KeyedOperator

CONSTANTS
  Names,     \* below the domain, and None for the domain itself
  Dense,     \* the names that look encoded
  HighBytes  \* names that make a tunnel severe

\* What the model says of the name, and the resolver of one that looks generated.
Verdicts == {"clean", "generated", "unresolved"}

Query == [name: Names, verdict: Verdicts, obs: 0 .. MaxTime]

\* What is kept of a window.
WindowState ==
  [win: Nat, n: Nat, labels: SUBSET Names, uniq: Nat, dense: Nat, capped: BOOLEAN,
   tunnel: Int, dga: Int]

Window(t) == t \div DnsWindow

\* The history: the last queries that are of one window, and what they said of the name.
Init == Start(<< >>)

Empty(w) ==
  [win |-> w, n |-> 0, labels |-> {}, uniq |-> 0, dense |-> 0, capped |-> FALSE,
   tunnel |-> -1, dga |-> -1]

-----------------------------------------------------------------------------
\* A query of another window, a late one too, opens that window anew.
Opened(q) == IF state = None \/ state.win # Window(q.obs) THEN Empty(Window(q.obs)) ELSE state

Added(m, q) ==
  LET counted == [m EXCEPT !.n = @ + 1]
      novel   == q.name # None /\ q.name \notin m.labels
  IN IF ~novel THEN counted
     ELSE IF m.uniq >= DnsLabelCap THEN [counted EXCEPT !.capped = TRUE]
     ELSE [counted EXCEPT !.labels = @ \cup {q.name}, !.uniq = @ + 1,
                          !.dense = @ + (IF q.name \in Dense THEN 1 ELSE 0)]

\* Enough names that are long and random in the mean.
Tunnel(m) == m.uniq >= TunnelLabels /\ 2 * m.dense >= m.uniq

TunnelRank(m) == IF m.uniq >= 5 * TunnelLabels \/ m.n >= HighBytes THEN 3 ELSE 2
DgaRank(q)    == CASE q.verdict = "unresolved" -> 2 [] q.verdict = "generated" -> 1 [] OTHER -> -1

\* What is more severe than before goes out.
Shown(m, q) ==
  [m EXCEPT !.tunnel = IF Tunnel(m) THEN Max({@, TunnelRank(m)}) ELSE @,
            !.dga = Max({@, DgaRank(q)})]

\* The query goes on with the run, or begins another.
Remembered(q) ==
  LET w   == Window(q.obs)
      was == [name |-> q.name, dga |-> DgaRank(q), win |-> w]
  IN IF history # << >> /\ history[Len(history)].win = w THEN Append(history, was) ELSE <<was>>

Observe(q) ==
  LET m == Opened(q) IN
  Handle(q, Shown(Added(m, q), q), {BucketUp((m.win + 1) * DnsWindow, DnsWindow)}, Remembered(q))

OnTimer == Expire((state.win + 1) * DnsWindow < Max(Due), history)

Next == (\E q \in Query : Observe(q)) \/ OnTimer

Spec == Init /\ [][Next]_vars

-----------------------------------------------------------------------------
\* What is known of a window comes from its queries since the last one of another
\* window, which are all of its queries if none of another came in between; it is
\* not forgotten while there may be more.  And what they amount to was reported
\* (dns.py:99-107).
WindowIsOneRun ==
  state # None =>
    LET names == {history[i].name : i \in DOMAIN history} \ {None}
    IN /\ \A i \in DOMAIN history : history[i].win = state.win
       /\ state.n = Len(history)
       /\ state.labels \subseteq names /\ state.uniq = Cardinality(state.labels)
       /\ state.uniq = Min({DnsLabelCap, Cardinality(names)})
       /\ state.capped <=> Cardinality(names) > DnsLabelCap
       /\ state.dense = Cardinality(state.labels \cap Dense)
       /\ Tunnel(state) => state.tunnel >= TunnelRank(state)
       /\ state.dga = Max({history[i].dga : i \in DOMAIN history})

=============================================================================
