---------------------------- MODULE ServicesConfig ----------------------------
(***************************************************************************)
(* The settings and bounds of the services around the detection job.       *)
(***************************************************************************)
EXTENDS Integers, Sequences, FiniteSets

CONSTANTS
  Sinks,         \* the consumers to look at, of "clickhouse", "notifier", "search"
  Log,           \* their topic, a sequence of [kind, update, incident, version]
  MaxBatch,      \* batch_max
  Tries,         \* of a batch that the store refuses, before its records are tried one by one
  MaxFaults,     \* bound on faults of a consumer
  Rows,          \* of an archived partition, repeated ones being the same
  MaxMishaps,    \* bound on failures of the archiver
  RingSize,      \* ring_size
  QueueSize,     \* client_queue
  MaxSeq,        \* bound on the updates that a process of the API publishes
  MaxLives,      \* bound on processes of the API
  Keep,          \* SIH_KEEP_CHECKPOINT_JOBS
  MaxCheckpoints,\* bound on checkpoints of the job
  MaxSlips       \* bound on failures of job and supervisor

Offsets == DOMAIN Log

\* A "fine" record, one that is "unreadable", one the store has "refused", and one it
\* has no interest in, which is "quiet".
Kinds == {"fine", "unreadable", "refused", "quiet"}

ASSUME ConsumersAssumption ==
  /\ Sinks \subseteq {"clickhouse", "notifier", "search"}
  /\ Len(Log) \in Nat /\ Offsets = 1 .. Len(Log)
  /\ \A o \in Offsets : Log[o].kind \in Kinds /\ Log[o].version \in Nat
  /\ MaxBatch \in Nat \ {0} /\ Tries \in Nat \ {0} /\ MaxFaults \in Nat

ASSUME ArchiveAssumption == IsFiniteSet(Rows) /\ MaxMishaps \in Nat

ASSUME LiveHubAssumption ==
  /\ RingSize \in Nat \ {0} /\ QueueSize \in Nat \ {0}
  /\ MaxSeq \in Nat /\ MaxLives \in Nat \ {0}

ASSUME SupervisorAssumption == Keep \in Nat \ {0} /\ MaxCheckpoints \in Nat /\ MaxSlips \in Nat

=============================================================================
