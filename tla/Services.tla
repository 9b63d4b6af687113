------------------------------- MODULE Services -------------------------------
(***************************************************************************)
(* The services around the detection job: a consumer of a topic, the       *)
(* archive, the live updates, and the supervisor of the job.  Each has a   *)
(* process and a state of its own, and what they do to each other (a       *)
(* consumer inserting rows, a job publishing updates) may happen at any    *)
(* time, so that one service at a time is all there is.                    *)
(***************************************************************************)
EXTENDS ServicesConfig

VARIABLES
  unit, \* the service
  sink, committed, position, at, todo, good, aside, refusals,
  stored, quarantined, exporting, exported, index, faults,
  day, hot, objects, manifest, step, copy, inserted, late, mishaps,
  life, seq, fanned, member, queue, backlog, told, conn,
  last, base, got, evicted, lost,
  jobs, underway, checkpoints, stamp, phase, from, dirs,
  submissions, belated, started, slips

consumer ==
  <<sink, committed, position, at, todo, good, aside, refusals,
    stored, quarantined, exporting, exported, index, faults>>

archive == <<day, hot, objects, manifest, step, copy, inserted, late, mishaps>>

live == <<life, seq, fanned, member, queue, backlog, told, conn, last, base, got, evicted, lost>>

supervisor ==
  <<jobs, underway, checkpoints, stamp, phase, from, dirs, submissions, belated, started, slips>>

vars == <<unit, consumer, archive, live, supervisor>>

Consumers  == INSTANCE Consumers
Archive    == INSTANCE Archive
LiveHub    == INSTANCE LiveHub
Supervisor == INSTANCE Supervisor

Init ==
  /\ unit \in {"consumer", "archive", "live", "supervisor"}
  /\ Consumers!Init /\ (unit = "consumer" \/ sink = "clickhouse")
  /\ Archive!Init /\ LiveHub!Init /\ Supervisor!Init

RunConsumers  == unit = "consumer" /\ Consumers!Next /\ UNCHANGED <<unit, archive, live, supervisor>>
RunArchive    == unit = "archive" /\ Archive!Next /\ UNCHANGED <<unit, consumer, live, supervisor>>
RunLiveHub    == unit = "live" /\ LiveHub!Next /\ UNCHANGED <<unit, consumer, archive, supervisor>>
RunSupervisor == unit = "supervisor" /\ Supervisor!Next /\ UNCHANGED <<unit, consumer, archive, live>>

Next == RunConsumers \/ RunArchive \/ RunLiveHub \/ RunSupervisor

Spec == Init /\ [][Next]_vars

\* The fairness of each: its own loop goes on.
FairSpec ==
  /\ Spec
  /\ WF_vars(RunConsumers /\ Consumers!Progress)
  /\ WF_vars(RunArchive /\ Archive!Archiving) /\ WF_vars(RunArchive /\ Archive!TimePasses)
  /\ WF_vars(RunLiveHub /\ LiveHub!Sending)
  /\ WF_vars(RunSupervisor /\ Supervisor!Supervise)

-----------------------------------------------------------------------------
\* Whatever fails between writing and committing, a committed record is stored or put
\* aside, a notification is exported at most once, and the index shows the newest version
\* (base.py:1-6, notifier.py, opensearch_sink.py).
RecordsAreHandled == Consumers!RecordsAreHandled

\* Whatever fails between exporting, verifying and dropping, what came before the
\* partition was verified is kept, and a verified partition was archived whole
\* (archive.py:3-7).
PartitionsAreKept == Archive!PartitionsAreKept

\* What a client is sent has no gap but of numbers taken out of its full queue, and of
\* those it is told unless it reads past them and leaves before (live.py:3-7).
StreamHasNoGap == LiveHub!StreamHasNoGap

\* The state of a job that ended is handed on (supervisor.py:3-6).
StateIsHandedOn == Supervisor!StateIsHandedOn

\* Each service gets on with its work after whatever failed (base.py:3-5,
\* archive.py:177-186, live.py:3-5, supervisor.py:3-5).
WorkIsDone ==
  /\ unit = "consumer" => Consumers!EveryRecordHandled
  /\ unit = "archive" => Archive!PartitionIsArchived
  /\ unit = "live" => LiveHub!ClientIsServed
  /\ unit = "supervisor" => Supervisor!JobIsBack

=============================================================================
