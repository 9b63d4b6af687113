------------------------------- MODULE Archive -------------------------------
(***************************************************************************)
(* The archive of one daily partition of a hot table (archive.py): it is   *)
(* exported once its day is over, read back and compared, and dropped when *)
(* it is old.  Consumers insert rows all the while, and an operator may    *)
(* restore what was archived.                                              *)
(***************************************************************************)
EXTENDS ServicesConfig

VARIABLES
  day,      \* "open", "closed" once it is over, "old" once it is past the retention
  hot,      \* rows in the hot table
  objects,  \* objects in the bucket, each a set of rows; none is ever removed
  manifest, \* the status of the partition and the object the manifest names
  step,     \* where the archiver is
  copy,     \* rows being exported
  inserted, \* rows the consumers have inserted
  late,     \* rows that came when the partition had been verified
  mishaps   \* how many failures there were

archiver == <<objects, manifest, step, copy>>
vars == <<day, hot, archiver, inserted, late, mishaps>>

\* Mark: the partition was counted and is about to be recorded as verified.
Steps == {"rest", "export", "put", "record", "verify", "mark", "stale", "drop", "dropped"}

Status == {"none", "exported", "stale", "verified", "deleted_hot"}

TypeOK ==
  /\ day \in {"open", "closed", "old"}
  /\ hot \subseteq Rows /\ inserted \subseteq Rows /\ late \subseteq inserted
  /\ objects \subseteq SUBSET Rows /\ copy \subseteq Rows
  /\ manifest \in [status : Status, object : SUBSET Rows]
  /\ step \in Steps /\ mishaps \in 0 .. MaxMishaps

Init ==
  /\ day = "open" /\ hot = {} /\ inserted = {} /\ late = {}
  /\ objects = {} /\ manifest = [status |-> "none", object |-> {}]
  /\ step = "rest" /\ copy = {} /\ mishaps = 0

-----------------------------------------------------------------------------
\* The rest of the system.

\* A row comes late when nothing looks at the partition's contents again.
Settled == step = "mark" \/ manifest.status \in {"verified", "deleted_hot"}

\* A consumer inserts a row, for the first time or again after a failure.
Insert ==
  /\ \E r \in Rows :
       /\ hot' = hot \cup {r} /\ inserted' = inserted \cup {r}
       /\ late' = IF Settled /\ r \notin inserted THEN late \cup {r} ELSE late
  /\ UNCHANGED <<day, archiver, mishaps>>

TimePasses ==
  /\ \/ day = "open" /\ day' = "closed"
     \/ day = "closed" /\ day' = "old"
  /\ UNCHANGED <<hot, archiver, inserted, late, mishaps>>

\* restore
Restore ==
  /\ manifest.status # "none" /\ manifest.object \in objects
  /\ hot' = hot \cup manifest.object
  /\ UNCHANGED <<day, archiver, inserted, late, mishaps>>

-----------------------------------------------------------------------------
\* cycle

\* What is to be done for a partition of that status, if anything.
Task(status) ==
  CASE status \in {"none", "stale"} -> "export"
    [] status = "exported"          -> "verify"
    [] status = "verified"          -> IF day = "old" THEN "drop" ELSE "rest"
    [] status = "deleted_hot"       -> "rest"

\* closed_partitions knows a partition that holds rows.
Look ==
  /\ step = "rest" /\ day # "open" /\ hot # {}
  /\ step' = Task(manifest.status) /\ step' # "rest"
  /\ UNCHANGED <<day, hot, objects, manifest, copy, inserted, late, mishaps>>

Export ==
  /\ step = "export" /\ copy' = hot /\ step' = "put"
  /\ UNCHANGED <<day, hot, objects, manifest, inserted, late, mishaps>>

PutObject ==
  /\ step = "put" /\ objects' = objects \cup {copy} /\ step' = "record"
  /\ UNCHANGED <<day, hot, manifest, copy, inserted, late, mishaps>>

\* _record
Record(status, object) == manifest' = [status |-> status, object |-> object]

RecordExported ==
  /\ step = "record" /\ Record("exported", copy) /\ step' = "verify" /\ copy' = {}
  /\ UNCHANGED <<day, hot, objects, inserted, late, mishaps>>

\* Mutation: the object alone is compared.
SameRows == TRUE

\* hot_count: what was exported is all there is.
SameCount == Cardinality(hot) = Cardinality(manifest.object)

\* verify
Verify ==
  /\ step = "verify" /\ manifest.object \in objects
  /\ step' = IF SameCount THEN "mark" ELSE "stale"
  /\ UNCHANGED <<day, hot, objects, manifest, copy, inserted, late, mishaps>>

RecordVerified ==
  /\ step = "mark" /\ Record("verified", manifest.object) /\ step' = Task("verified")
  /\ UNCHANGED <<day, hot, objects, copy, inserted, late, mishaps>>

RecordStale ==
  /\ step = "stale" /\ Record("stale", manifest.object) /\ step' = "rest"
  /\ UNCHANGED <<day, hot, objects, copy, inserted, late, mishaps>>

Drop ==
  /\ step = "drop" /\ hot' = {} /\ step' = "dropped"
  /\ UNCHANGED <<day, objects, manifest, copy, inserted, late, mishaps>>

RecordDeleted ==
  /\ step = "dropped" /\ Record("deleted_hot", manifest.object) /\ step' = "rest"
  /\ UNCHANGED <<day, hot, objects, copy, inserted, late, mishaps>>

\* An exception or the end of the process; the next cycle begins with the manifest.
\* So it is when the object does not read back as it was written.
Fail ==
  /\ step # "rest" /\ step' = "rest" /\ copy' = {}
  /\ late' = IF step = "mark" THEN {} ELSE late
  /\ mishaps < MaxMishaps /\ mishaps' = mishaps + 1
  /\ UNCHANGED <<day, hot, objects, manifest, inserted>>

Archiving ==
  \/ Look \/ Export \/ PutObject \/ RecordExported \/ Verify
  \/ RecordVerified \/ RecordStale \/ Drop \/ RecordDeleted

Next == Insert \/ TimePasses \/ Restore \/ Archiving \/ Fail

Spec == Init /\ [][Next]_vars

\* A cycle begins every ARCHIVE_INTERVAL_S, whatever became of the one before, and
\* days pass.
FairSpec == Spec /\ WF_vars(Archiving) /\ WF_vars(TimePasses)

-----------------------------------------------------------------------------
\* Every row is in the hot table or in the object that a restore would bring back,
\* whatever fails between exporting, verifying, recording and dropping (archive.py:3-7),
\* but for those that came when the partition had been verified.
RowsAreKept == inserted \ late \subseteq hot \cup manifest.object

\* The object a restore would read is there, and a partition that is recorded as
\* verified was archived whole.
ManifestIsTrue ==
  /\ manifest.status # "none" => manifest.object \in objects
  /\ manifest.status \in {"verified", "deleted_hot"} => inserted \ late \subseteq manifest.object

\* What the archive promises, with the types of its state (archive.py:3-7).
PartitionsAreKept == TypeOK /\ RowsAreKept /\ ManifestIsTrue

\* A partition that holds rows when its day is over is verified in the end, and one
\* that is old is dropped, or was dropped before (archive.py:177-186).
PartitionIsArchived ==
  /\ (day # "open" /\ hot # {}) ~> manifest.status \in {"verified", "deleted_hot"}
  /\ (day = "old" /\ hot # {}) ~> (hot = {} \/ manifest.status = "deleted_hot")

=============================================================================
