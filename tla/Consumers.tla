------------------------------ MODULE Consumers ------------------------------
(***************************************************************************)
(* A consumer of a topic (base.py): it fetches records, writes them to a   *)
(* store (clickhouse_sinks.py, notifier.py, opensearch_sink.py), puts      *)
(* aside what cannot be written, and then commits its position.            *)
(***************************************************************************)
EXTENDS ServicesConfig, FiniteSetsExt

VARIABLES
  sink,        \* which store it is
  committed,   \* the offset up to which the group has committed
  position,    \* the offset up to which records were fetched
  at,          \* where the consumer is
  todo,        \* offsets of the batch that this loop has not come to
  good,        \* offsets to be written
  aside,       \* offsets to be put aside
  refusals,    \* how often the batch was refused
  stored,      \* offsets that were written
  quarantined, \* offsets that were put aside
  exporting,   \* updates that are committed and not yet in the notifier's export
  exported,    \* how often an update is in the export
  index,       \* the version of an incident in the search index
  faults       \* how many faults there were

locals == <<position, at, todo, good, aside, refusals>>
stores == <<stored, quarantined, exporting, exported, index>>
vars   == <<sink, committed, locals, stores, faults>>

Updates   == {Log[o].update : o \in Offsets}
Incidents == {Log[o].incident : o \in Offsets}
Writable(os) == {o \in os : Log[o].kind # "refused" \/ sink = "notifier"}

Init ==
  /\ sink \in Sinks
  /\ committed = 0 /\ position = 0 /\ at = "poll"
  /\ todo = {} /\ good = {} /\ aside = {} /\ refusals = 0
  /\ stored = {} /\ quarantined = {} /\ exporting = {}
  /\ exported = [u \in Updates |-> 0] /\ index = [i \in Incidents |-> 0]
  /\ faults = 0

-----------------------------------------------------------------------------
Fault == faults < MaxFaults /\ faults' = faults + 1

\* The consumer ends, is restarted, and goes on from the committed offset.
Again ==
  /\ position' = committed /\ at' = "poll"
  /\ todo' = {} /\ good' = {} /\ aside' = {} /\ refusals' = 0
  /\ UNCHANGED <<sink, committed>>

Crash == at # "poll" /\ Again /\ Fault /\ exporting' = {} /\ UNCHANGED <<stored, quarantined, exported, index>>

\* consume
Fetch ==
  /\ at = "poll"
  /\ \E n \in 1 .. MaxBatch :
       /\ position + n \in Offsets
       /\ position' = position + n /\ todo' = position + 1 .. position + n
  /\ at' = "transform" /\ good' = {} /\ aside' = {} /\ refusals' = 0
  /\ UNCHANGED <<sink, committed, stores, faults>>

\* transform, record by record.
Transform ==
  /\ at = "transform" /\ todo # {}
  /\ LET o == Min(todo) IN
       /\ Log[o].kind # "unreadable"
       /\ todo' = todo \ {o}
       /\ good' = IF Log[o].kind = "quiet" THEN good ELSE good \cup {o}
  /\ UNCHANGED <<sink, committed, position, at, aside, refusals, stores, faults>>

\* An unreadable record is put aside at once.
Unreadable ==
  /\ at = "transform" /\ todo # {} /\ Log[Min(todo)].kind = "unreadable"
  /\ todo' = todo \ {Min(todo)} /\ quarantined' = quarantined \cup {Min(todo)}
  /\ UNCHANGED <<sink, committed, position, at, good, aside, refusals, stored, exporting, exported, index, faults>>

\* If that fails the consumer starts again.
UnreadableFails ==
  at = "transform" /\ todo # {} /\ Log[Min(todo)].kind = "unreadable" /\ Again /\ Fault /\ UNCHANGED stores

Transformed ==
  /\ at = "transform" /\ todo = {} /\ at' = "write"
  /\ UNCHANGED <<sink, committed, position, todo, good, aside, refusals, stores, faults>>

-----------------------------------------------------------------------------
(***************************************************************************)
(* durable_write                                                           *)
(***************************************************************************)

\* external_gte: an older version does not replace a newer one.
Indexed(os) == [i \in Incidents |-> Max({index[i]} \cup {Log[o].version : o \in {x \in os : Log[x].incident = i}})]

\* What the store makes of the records; the notifier knows the updates it has.
Put(os) ==
  /\ stored' = stored \cup os
  /\ exporting' = IF sink = "notifier" THEN {Log[o].update : o \in os} \ {Log[o].update : o \in stored} ELSE {}
  /\ index' = IF sink = "search" THEN Indexed(os) ELSE index
  /\ UNCHANGED <<quarantined, exported>>

Write ==
  /\ at = "write" /\ good = Writable(good)
  /\ Put(good)
  /\ at' = IF sink = "notifier" /\ good # {} THEN "export" ELSE "aside"
  /\ UNCHANGED <<sink, committed, position, todo, good, aside, refusals, faults>>

\* The export of what is committed.
Export ==
  /\ at = "export"
  /\ exported' = [u \in Updates |-> exported[u] + (IF u \in exporting THEN 1 ELSE 0)]
  /\ exporting' = {} /\ at' = "aside"
  /\ UNCHANGED <<sink, committed, position, todo, good, aside, refusals, stored, quarantined, index, faults>>

\* Some lines are written, and the batch is tried again.
ExportFails ==
  /\ at = "export" /\ Fault
  /\ \E us \in SUBSET exporting : exported' = [u \in Updates |-> exported[u] + (IF u \in us THEN 1 ELSE 0)]
  /\ exporting' = {} /\ at' = "write"
  /\ UNCHANGED <<sink, committed, position, todo, good, aside, refusals, stored, quarantined, index>>

\* The store is unavailable, or does not answer in time; in the index some records
\* of a request may be there, in the others all or none.
Partly == {os \in SUBSET Writable(good) : sink = "search" \/ os \in {{}, good}}

WriteFails ==
  /\ at = "write" /\ good # {} /\ Fault
  /\ \E os \in (IF sink = "notifier" THEN {{}} ELSE Partly) : Put(os)
  /\ UNCHANGED <<sink, committed, locals>>

\* The store refuses a record for good.
IsRefused(o) == o \notin Writable({o})

\* The store refuses the batch; at last its records are tried one by one.
Refuse ==
  /\ at = "write" /\ good # Writable(good)
  /\ \E os \in Partly : Put(os)
  /\ refusals' = Min({refusals + 1, Tries})
  /\ IF refusals + 1 >= Tries THEN at' = "isolate" /\ todo' = good ELSE UNCHANGED <<at, todo>>
  /\ UNCHANGED <<sink, committed, position, good, aside, faults>>

Isolate ==
  /\ at = "isolate" /\ todo # {}
  /\ LET o == Min(todo) IN
       /\ todo' = todo \ {o} /\ good' = good \ {o}
       /\ IF IsRefused(o) THEN aside' = aside \cup {o} /\ UNCHANGED stores
          ELSE Put({o}) /\ UNCHANGED aside
  /\ UNCHANGED <<sink, committed, position, at, refusals, faults>>

\* Mutation: what could not be tried is taken for tried.
IsolateDropping ==
  /\ at = "isolate" /\ todo # {} /\ Fault
  /\ todo' = todo \ {Min(todo)} /\ good' = good \ {Min(todo)}
  /\ UNCHANGED <<sink, committed, position, at, aside, refusals, stores>>

\* Unavailable now, it remains to be written.
IsolateFails ==
  /\ at = "isolate" /\ todo # {} /\ Fault /\ todo' = todo \ {Min(todo)}
  /\ UNCHANGED <<sink, committed, position, at, good, aside, refusals, stores>>

Isolated ==
  /\ at = "isolate" /\ todo = {} /\ at' = "write"
  /\ UNCHANGED <<sink, committed, position, todo, good, aside, refusals, stores, faults>>

Quarantine ==
  /\ at = "aside" /\ quarantined' = quarantined \cup aside /\ at' = "commit"
  /\ UNCHANGED <<sink, committed, position, todo, good, aside, refusals, stored, exporting, exported, index, faults>>

\* The whole batch is tried again.
QuarantineFails ==
  /\ at = "aside" /\ aside # {} /\ Fault /\ at' = "write"
  /\ UNCHANGED <<sink, committed, position, todo, good, aside, refusals, stores>>

-----------------------------------------------------------------------------
Commit ==
  /\ at = "commit" /\ committed' = position /\ at' = "poll"
  /\ UNCHANGED <<sink, position, todo, good, aside, refusals, stores, faults>>

CommitFails == at = "commit" /\ Again /\ Fault /\ UNCHANGED stores

Progress ==
  \/ Fetch \/ Transform \/ Unreadable \/ Transformed
  \/ Write \/ Export \/ Refuse \/ Isolate \/ Isolated \/ Quarantine \/ Commit

Trouble ==
  \/ Crash \/ UnreadableFails \/ ExportFails \/ WriteFails
  \/ IsolateFails \/ QuarantineFails \/ CommitFails

Next == Progress \/ Trouble

Spec == Init /\ [][Next]_vars

\* The loop goes on, and the store is there again at some time.
FairSpec == Spec /\ WF_vars(Progress)

-----------------------------------------------------------------------------
\* Every record below the committed offset is stored or put aside, but for those the
\* store has no interest in, whatever fails between writing and committing
\* (base.py:1-6); and no record is both.
CommittedIsHandled ==
  /\ \A o \in 1 .. committed : o \in stored \cup quarantined \/ Log[o].kind = "quiet"
  /\ stored \cap quarantined = {}

\* A notification is exported at most once, and only after it is committed; without
\* a fault none is missing once the batch is done (notifier.py:3-6).
ExportedOnce ==
  sink = "notifier" =>
    LET known == {Log[o].update : o \in stored} IN
    /\ \A u \in Updates : exported[u] <= 1 /\ (exported[u] = 1 => u \in known)
    /\ faults = 0 /\ at # "export" => \A u \in known : exported[u] = 1

\* The index shows of an incident the newest version of what was written, whatever
\* was repeated or came out of order (opensearch_sink.py:1-2).
IndexIsLatest ==
  sink = "search" =>
    \A i \in Incidents : index[i] = Max({0} \cup {Log[o].version : o \in {x \in stored : Log[x].incident = i}})

\* What a consumer promises of its records (base.py:1-6).
RecordsAreHandled == CommittedIsHandled /\ ExportedOnce /\ IndexIsLatest

\* Every record is handled in the end (base.py:3-5).
EveryRecordHandled == <>[](committed = Len(Log))

=============================================================================
