------------------------------ MODULE DgaBurst ------------------------------
(***************************************************************************)
(* The names that one source asked for in vain, by tumbling windows, and   *)
(* how many of them look generated: the model of the subtask says so while *)
(* it is active, a lexical rule otherwise (dns.py, dga_model.py).          *)
(***************************************************************************)
EXTENDS KeyedOperator

CONSTANT Domains \* registrable domains

VARIABLE model \* of the subtask: whether it is active, and its consecutive errors

allVars == <<vars, model>>

\* A name may be too short for the model and for the rule; the inference may fail;
\* "like" is what the one that judges says.
Query ==
  {q \in [dom: Domains, short: BOOLEAN, failed: BOOLEAN, like: BOOLEAN, obs: 0 .. MaxTime] :
     q.short => ~q.failed /\ ~q.like}

\* load: anything wrong with the bundle leaves the model inactive.
Load == model' \in [active: BOOLEAN, errors: {0}]

\* The history: the queries since the window was opened, with who judged them, and
\* how the inferences ended since the model was loaded.
Init ==
  /\ model \in [active: BOOLEAN, errors: {0}]
  /\ Start([run |-> << >>, outcomes |-> << >>])

Window(t) == t \div DnsWindow

Empty(w) ==
  [win |-> w, nx |-> 0, domains |-> {}, like |-> 0, scored |-> 0, rules |-> 0, capped |-> FALSE, rank |-> -1]

-----------------------------------------------------------------------------
(***************************************************************************)
(* The scorer                                                              *)
(***************************************************************************)

Infers(q) == model.active /\ ~q.short
Scores(q) == Infers(q) /\ ~q.failed

\* Mutation: errors add up, whatever succeeds between them.
AfterKeeping(q) ==
  IF ~Infers(q) \/ ~q.failed THEN model
  ELSE [active |-> model.errors + 1 < ModelErrors, errors |-> model.errors + 1]

\* score: too many errors in a row disable the model.
After(q) ==
  IF ~Infers(q) THEN model
  ELSE IF q.failed THEN [active |-> model.errors + 1 < ModelErrors, errors |-> model.errors + 1]
  ELSE [model EXCEPT !.errors = 0]

-----------------------------------------------------------------------------
(***************************************************************************)
(* The burst                                                               *)
(***************************************************************************)

Opened(q) == IF state = None \/ state.win # Window(q.obs) THEN Empty(Window(q.obs)) ELSE state

\* The first query of a domain decides about it.
Added(m, q) ==
  IF q.dom \in m.domains THEN m
  ELSE IF m.nx >= BurstDomainCap THEN [m EXCEPT !.capped = TRUE]
  ELSE [m EXCEPT !.domains = @ \cup {q.dom}, !.nx = @ + 1,
                 !.like = @ + (IF q.like THEN 1 ELSE 0),
                 !.scored = @ + (IF Scores(q) THEN 1 ELSE 0),
                 !.rules = @ + (IF Scores(q) THEN 0 ELSE 1)]

Burst(m) == m.nx >= BurstDomains /\ m.like >= BurstLike

Shown(m) == IF Burst(m) THEN [m EXCEPT !.rank = 3] ELSE m

Inferred(q) == IF Infers(q) THEN Append(history.outcomes, q.failed) ELSE history.outcomes

Observe(q) ==
  LET m     == Opened(q)
      judge == [dom |-> q.dom, like |-> q.like, scored |-> Scores(q), win |-> Window(q.obs)]
  IN /\ Handle(q, Shown(Added(m, q)), {BucketUp((m.win + 1) * DnsWindow, DnsWindow)},
               [run |-> IF m.nx = 0 THEN <<judge>> ELSE Append(history.run, judge), outcomes |-> Inferred(q)])
     /\ model' = After(q)

\* An answered query is only scored.
Answered(q) ==
  Ignore(q, [history EXCEPT !.outcomes = Inferred(q)]) /\ model' = After(q)

\* A new subtask restores the state of the key and loads the model again.
Reload ==
  /\ events < MaxEvents /\ events' = events + 1
  /\ Load /\ history' = [history EXCEPT !.outcomes = << >>]
  /\ UNCHANGED <<state, timers, watermark, newest>>

OnTimer == Expire((state.win + 1) * DnsWindow < Max(Due), [history EXCEPT !.run = << >>]) /\ UNCHANGED model

Next == (\E q \in Query : Observe(q) \/ Answered(q)) \/ Reload \/ OnTimer

Spec == Init /\ [][Next]_allVars

-----------------------------------------------------------------------------
\* A window's counts are those of its first domains, each judged by its first query
\* and by the model only if it was active, and the burst they make was reported
\* (dns.py:197-198).
BurstIsExact ==
  state # None =>
    LET run == history.run
        firsts == {i \in DOMAIN run : \A j \in 1 .. i - 1 : run[j].dom # run[i].dom}
        kept == {i \in firsts : Cardinality({j \in firsts : j <= i}) <= BurstDomainCap}
    IN /\ \A i \in DOMAIN run : run[i].win = state.win
       /\ state.nx = Cardinality(kept) /\ state.domains = {run[i].dom : i \in kept}
       /\ state.like = Cardinality({i \in kept : run[i].like})
       /\ state.scored = Cardinality({i \in kept : run[i].scored})
       /\ state.nx = state.scored + state.rules
       /\ state.capped <=> kept # firsts
       /\ state.rank = 3 <=> Burst(state)

\* The model is given up exactly after so many errors in a row, and until it is
\* loaded again (docs/failure-model.md:17).
ModelGivesUp ==
  LET outs == history.outcomes
      Errors(i) == \A j \in i .. i + ModelErrors - 1 : outs[j]
  IN outs # << >> => (model.active <=> ~\E i \in 1 .. Len(outs) - ModelErrors + 1 : Errors(i))

=============================================================================
