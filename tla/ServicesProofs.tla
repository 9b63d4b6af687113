---------------------------- MODULE ServicesProofs ----------------------------
(***************************************************************************)
(* What the services around the detection job promise, for any settings    *)
(* and any number of faults.  Each part has an inductive invariant of one  *)
(* service; the other services' steps leave its variables alone.           *)
(***************************************************************************)
EXTENDS Services, FiniteSetTheorems, SequenceTheorems, WellFoundedInduction, TLAPS

-----------------------------------------------------------------------------
(***************************************************************************)
(* Numbers                                                                 *)
(***************************************************************************)

\* To be less is well-founded on the natural numbers.
LEMMA LessIsWellFounded == IsWellFoundedOn({ss \in Nat \X Nat : ss[1] < ss[2]}, Nat)
BY NatLessThanWellFounded DEF OpToRel

\* A set of numbers that is not empty has a least one.
LEMMA LeastIsThere ==
  ASSUME NEW R, R = {ss \in Nat \X Nat : ss[1] < ss[2]}, NEW S \in SUBSET Nat, S # {}
  PROVE  \E x \in S : \A y \in S : x <= y
<1>1. IsWellFoundedOn(R, Nat)
  BY LessIsWellFounded
<1>2. S \subseteq Nat
  OBVIOUS
<1>3. \E x \in S : \A y \in S : ~(<<y, x>> \in R)
  BY ONLY WFMin, <1>1, <1>2, S # {}, Zenon
<1>4. PICK x \in S : \A y \in S : ~(<<y, x>> \in R)
  BY <1>3
<1>5. \A y \in S : ~(y < x)
  BY <1>4
<1> QED BY <1>5

\* Which is what the library calls the least.
LEMMA MinIsThere ==
  ASSUME NEW S \in SUBSET Nat, S # {}
  PROVE  Consumers!Min(S) \in S
<1>1. \E x \in S : \A y \in S : x <= y
  BY LeastIsThere
<1> QED BY <1>1, Zenon DEF Consumers!Min

\* A bounded set of numbers that is not empty has a greatest one.
LEMMA GreatestIsThere ==
  ASSUME NEW v \in Nat, NEW S \in SUBSET (0 .. v), S # {}
  PROVE  \E m \in S : \A x \in S : m >= x
<1> DEFINE T == {v - x : x \in S}
<1>0. \A x \in S : v - x \in Nat
  OBVIOUS
<1>1. T \in SUBSET Nat /\ T # {}
  BY <1>0
<1>2. PICK t \in T : \A y \in T : t <= y
  BY <1>1, LeastIsThere
<1>3. PICK m \in S : t = v - m
  BY <1>2
<1>4. \A x \in S : v - m <= v - x
  BY <1>2, <1>3
<1>5. \A x \in S : m >= x
  BY <1>4
<1> QED BY <1>5

\* Which is what the library calls the greatest.
LEMMA MaxIsThere ==
  ASSUME NEW v \in Nat, NEW S \in SUBSET (0 .. v), S # {}
  PROVE  Consumers!Max(S) \in S /\ \A x \in S : x <= Consumers!Max(S)
<1>1. \E m \in S : \A x \in S : m >= x
  BY GreatestIsThere
<1>2. Consumers!Max(S) \in S /\ \A x \in S : Consumers!Max(S) >= x
  BY <1>1, Zenon DEF Consumers!Max
<1>3. S \subseteq Int
  OBVIOUS
<1> QED BY <1>2, <1>3

LEMMA LatestIsThere ==
  ASSUME NEW v \in Nat, NEW S \in SUBSET (0 .. v), S # {}
  PROVE  Supervisor!Max(S) \in S /\ \A x \in S : x <= Supervisor!Max(S)
<1>1. \E m \in S : \A x \in S : m >= x
  BY GreatestIsThere
<1>2. Supervisor!Max(S) \in S /\ \A x \in S : Supervisor!Max(S) >= x
  BY <1>1, Zenon DEF Supervisor!Max
<1>3. S \subseteq Int
  OBVIOUS
<1> QED BY <1>2, <1>3

-----------------------------------------------------------------------------
(***************************************************************************)
(* The archive                                                             *)
(***************************************************************************)

\* What is so between the steps of a cycle: until the partition is dropped the hot
\* table has every row; what is exported, and what the manifest names, was taken from
\* there; from counting on the two are the same, but for what comes late.
CycleInv ==
  /\ manifest.status \in {"none", "exported", "stale"} =>
       inserted \subseteq hot /\ manifest.object \subseteq hot
  /\ ~Archive!Settled => late = {}
  /\ step \in {"put", "record"} => copy \subseteq hot
  /\ step = "record" => copy \in objects
  /\ step \in {"export", "put", "record"} => manifest.status \in {"none", "stale"}
  /\ step \in {"verify", "mark", "stale"} => manifest.status = "exported"
  /\ step = "mark" => inserted \ late \subseteq manifest.object
  /\ step \in {"drop", "dropped"} => manifest.status = "verified"

\* The inductive invariant of the archive.
ArchiveInv == Archive!TypeOK /\ Archive!ManifestIsTrue /\ CycleInv

\* The invariant implies what the archive promises.
LEMMA ArchiveImplied == ArchiveInv => Archive!PartitionsAreKept
BY DEF ArchiveInv, Archive!TypeOK, Archive!ManifestIsTrue, CycleInv, Archive!PartitionsAreKept,
       Archive!RowsAreKept, Archive!Status

\* No row is there at first.
LEMMA ArchiveStarts == Archive!Init => ArchiveInv
BY ArchiveAssumption DEF Archive!Init, ArchiveInv, Archive!TypeOK, Archive!ManifestIsTrue,
                         CycleInv, Archive!Settled, Archive!Status, Archive!Steps

\* The object has as many rows as the hot table and none that is not there: it has all
\* (hot_count in verify).
LEMMA CountTells == ArchiveInv /\ Archive!Verify /\ Archive!SameCount => manifest.object = hot
<1> SUFFICES ASSUME ArchiveInv, Archive!Verify, Archive!SameCount PROVE manifest.object = hot
  OBVIOUS
<1>1. hot \subseteq Rows /\ manifest.object \subseteq hot
  BY DEF ArchiveInv, Archive!TypeOK, CycleInv, Archive!Verify, Archive!Status
<1>2. IsFiniteSet(hot)
  BY <1>1, ArchiveAssumption, FS_Subset
<1>3. Cardinality(hot) = Cardinality(manifest.object)
  BY Zenon DEF Archive!SameCount, Archive!Cardinality, Cardinality
<1> QED BY <1>1, <1>2, <1>3, FS_Subset

\* Every step keeps the invariant.
LEMMA ArchiveKept == ArchiveInv /\ [Archive!Next]_(Archive!vars) => ArchiveInv'
<1> SUFFICES ASSUME ArchiveInv, [Archive!Next]_(Archive!vars) PROVE ArchiveInv' OBVIOUS
<1> USE ArchiveAssumption
<1> USE DEF ArchiveInv, Archive!TypeOK, Archive!ManifestIsTrue, CycleInv, Archive!Settled,
            Archive!Status, Archive!Steps
<1>1. CASE Archive!Insert
  BY <1>1 DEF Archive!Insert, Archive!archiver
<1>2. CASE Archive!TimePasses
  BY <1>2 DEF Archive!TimePasses, Archive!archiver
<1>3. CASE Archive!Restore
  BY <1>3 DEF Archive!Restore, Archive!archiver
<1>4. CASE Archive!Look
  BY <1>4 DEF Archive!Look, Archive!Task
<1>5. CASE Archive!Export
  BY <1>5 DEF Archive!Export
<1>6. CASE Archive!PutObject
  BY <1>6 DEF Archive!PutObject
<1>7. CASE Archive!RecordExported
  BY <1>7 DEF Archive!RecordExported, Archive!Record
<1>8. CASE Archive!Verify
  <2>1. CASE Archive!SameCount
    BY <1>8, <2>1, CountTells DEF Archive!Verify
  <2>2. CASE ~Archive!SameCount
    BY <1>8, <2>2 DEF Archive!Verify
  <2> QED BY <2>1, <2>2
<1>9. CASE Archive!RecordVerified
  BY <1>9 DEF Archive!RecordVerified, Archive!Record, Archive!Task
<1>10. CASE Archive!RecordStale
  BY <1>10 DEF Archive!RecordStale, Archive!Record
<1>11. CASE Archive!Drop
  BY <1>11 DEF Archive!Drop
<1>12. CASE Archive!RecordDeleted
  BY <1>12 DEF Archive!RecordDeleted, Archive!Record
<1>13. CASE Archive!Fail
  BY <1>13 DEF Archive!Fail
<1>14. CASE UNCHANGED Archive!vars
  BY <1>14 DEF Archive!vars, Archive!archiver
<1> QED
  BY <1>1, <1>2, <1>3, <1>4, <1>5, <1>6, <1>7, <1>8, <1>9, <1>10, <1>11, <1>12, <1>13, <1>14
     DEF Archive!Next, Archive!Archiving

\* Any other step of Services leaves it alone.
LEMMA ArchiveSteps == [Next]_vars => [Archive!Next]_(Archive!vars)
<1> SUFFICES ASSUME [Next]_vars PROVE [Archive!Next]_(Archive!vars)
  OBVIOUS
<1>1. CASE RunArchive
  BY <1>1 DEF RunArchive
<1>2. CASE UNCHANGED archive
  BY <1>2 DEF archive, Archive!vars, Archive!archiver
<1> QED
  BY <1>1, <1>2 DEF Next, vars, RunConsumers, RunLiveHub, RunSupervisor

\* Whatever the other services do, and whatever fails, what came before the
\* verification of a partition is in the hot table or in its object (archive.py:3-7).
THEOREM PartitionsKept == Spec => []PartitionsAreKept
<1>1. Init => ArchiveInv
  BY ArchiveStarts DEF Init
<1>2. ArchiveInv /\ [Next]_vars => ArchiveInv'
  BY ArchiveSteps, ArchiveKept
<1>3. ArchiveInv => PartitionsAreKept
  BY ArchiveImplied DEF PartitionsAreKept
<1> QED BY <1>1, <1>2, <1>3, PTL DEF Spec

-----------------------------------------------------------------------------
(***************************************************************************)
(* The consumers                                                           *)
(***************************************************************************)

\* The settings of the consumers.
LEMMA ConsumerSettings ==
  /\ Sinks \subseteq {"clickhouse", "notifier", "search"}
  /\ Len(Log) \in Nat /\ Consumers!Offsets = 1 .. Len(Log)
  /\ \A o \in Consumers!Offsets : Log[o].kind \in Consumers!Kinds /\ Log[o].version \in Nat
  /\ MaxBatch \in Nat \ {0} /\ Tries \in Nat \ {0} /\ MaxFaults \in Nat
BY ConsumersAssumption DEF Consumers!Offsets, Offsets, Consumers!Kinds, Kinds

\* What the store takes, and what it does not.
Storable ==
  {o \in Consumers!Offsets :
     Log[o].kind = "fine" \/ (Log[o].kind = "refused" /\ sink = "notifier")}
Rejected ==
  {o \in Consumers!Offsets :
     Log[o].kind = "unreadable" \/ (Log[o].kind = "refused" /\ sink # "notifier")}

\* The positions are in order, and the records are where their kind allows it.
ConsumerTypes ==
  /\ committed \in Nat /\ position \in Nat
  /\ committed <= position /\ position <= Len(Log)
  /\ at \in {"poll", "transform", "write", "export", "isolate", "aside", "commit"}
  /\ todo \in SUBSET Consumers!Offsets
  /\ good \in SUBSET {o \in Consumers!Offsets : Log[o].kind \in {"fine", "refused"}}
  /\ aside \in SUBSET Rejected
  /\ stored \in SUBSET Storable /\ quarantined \in SUBSET Rejected

\* What nothing is to be done about any more.
Done == stored \cup quarantined \cup {o \in Consumers!Offsets : Log[o].kind = "quiet"}

\* Where the records of the batch are.
BatchInv ==
  /\ 1 .. committed \subseteq Done
  /\ at = "poll" => position = committed
  /\ at = "isolate" => todo \subseteq good
  /\ at = "transform" => 1 .. position \subseteq Done \cup good \cup todo
  /\ at \in {"write", "isolate"} => 1 .. position \subseteq Done \cup good \cup aside
  /\ at \in {"export", "aside"} => 1 .. position \subseteq Done \cup aside
  /\ at = "commit" => 1 .. position \subseteq Done

\* The invariant implies that what is committed is handled.
LEMMA HandledImplied == ConsumerTypes /\ BatchInv => Consumers!CommittedIsHandled
BY ConsumerSettings DEF ConsumerTypes, BatchInv, Consumers!CommittedIsHandled, Done, Storable,
                           Rejected, Kinds

\* Nothing is committed at first.
LEMMA HandledInitially == Consumers!Init => ConsumerTypes /\ BatchInv
BY ConsumerSettings DEF Consumers!Init, ConsumerTypes, BatchInv, Done

\* Every step keeps the invariant.
LEMMA HandledKept ==
  ConsumerTypes /\ BatchInv /\ [Consumers!Next]_(Consumers!vars) => (ConsumerTypes /\ BatchInv)'
<1> SUFFICES ASSUME ConsumerTypes, BatchInv, [Consumers!Next]_(Consumers!vars)
             PROVE  (ConsumerTypes /\ BatchInv)'
  OBVIOUS
<1> USE ConsumerSettings
<1>0. \A o \in Consumers!Offsets : Log[o].kind \in {"fine", "unreadable", "refused", "quiet"}
  BY DEF Consumers!Kinds
<1>m. todo # {} => Consumers!Min(todo) \in todo
  BY MinIsThere DEF ConsumerTypes
<1>s. sink' = sink
  BY DEF Consumers!Next, Consumers!Progress, Consumers!Trouble, Consumers!vars, Consumers!Crash,
         Consumers!Again, Consumers!Fetch, Consumers!Transform, Consumers!Unreadable,
         Consumers!UnreadableFails,
         Consumers!Transformed, Consumers!Write, Consumers!Export, Consumers!ExportFails,
         Consumers!WriteFails, Consumers!Refuse, Consumers!Isolate, Consumers!IsolateFails,
         Consumers!Isolated, Consumers!Quarantine, Consumers!QuarantineFails,
         Consumers!Commit, Consumers!CommitFails, Consumers!locals
<1>r. Storable' = Storable /\ Rejected' = Rejected
  BY <1>s DEF Storable, Rejected
<1>1. CASE Consumers!Fetch
  BY <1>1, <1>r DEF Consumers!Fetch, ConsumerTypes, BatchInv, Done, Consumers!stores
<1>2. CASE Consumers!Transform
  BY <1>2, <1>r, <1>m, <1>0 DEF Consumers!Transform, ConsumerTypes, BatchInv, Done,
                                Consumers!stores
<1>3. CASE Consumers!Unreadable
  BY <1>3, <1>r, <1>m DEF Consumers!Unreadable, ConsumerTypes, BatchInv, Done, Rejected
<1>4. CASE Consumers!Transformed
  BY <1>4, <1>r DEF Consumers!Transformed, ConsumerTypes, BatchInv, Done, Consumers!stores
<1>5. CASE Consumers!Write
  BY <1>5, <1>r DEF Consumers!Write, Consumers!Put, Consumers!Writable, ConsumerTypes, BatchInv,
                    Done, Storable
<1>6. CASE Consumers!Export
  BY <1>6, <1>r DEF Consumers!Export, ConsumerTypes, BatchInv, Done
<1>7. CASE Consumers!Refuse
  <2>1. PICK os \in SUBSET Consumers!Writable(good) : Consumers!Put(os)
    BY <1>7 DEF Consumers!Refuse, Consumers!Partly
  <2>2. stored' = stored \cup os /\ quarantined' = quarantined /\ os \in SUBSET Storable
    BY <2>1 DEF Consumers!Put, Consumers!Writable, ConsumerTypes, Storable
  <2> QED BY <1>7, <1>r, <2>2 DEF Consumers!Refuse, ConsumerTypes, BatchInv, Done
<1>8. CASE Consumers!Isolate
  <2> DEFINE o == Consumers!Min(todo)
  <2>1. /\ at = "isolate" /\ o \in todo /\ UNCHANGED <<committed, position, at>>
        /\ todo' = todo \ {o} /\ good' = good \ {o}
    BY <1>8, <1>m DEF Consumers!Isolate
  <2>2. /\ quarantined' = quarantined
        /\ \/ aside' = aside \cup {o} /\ stored' = stored /\ o \in Rejected
           \/ aside' = aside /\ stored' = stored \cup {o} /\ o \in Storable
    <3>1. o \in Consumers!Offsets /\ Log[o].kind \in {"fine", "refused"}
      BY <2>1 DEF ConsumerTypes, BatchInv
    <3>2. CASE Consumers!IsRefused(o)
      <4>1. o \in Rejected
        BY <3>1, <3>2 DEF Consumers!IsRefused, Consumers!Writable, Rejected
      <4> QED BY <1>8, <3>2, <4>1 DEF Consumers!Isolate, Consumers!stores
    <3>3. CASE ~Consumers!IsRefused(o)
      <4>1. o \in Storable
        BY <3>1, <3>3 DEF Consumers!IsRefused, Consumers!Writable, Storable
      <4> QED BY <1>8, <3>3, <4>1 DEF Consumers!Isolate, Consumers!Put
    <3> QED BY <3>2, <3>3
  <2> HIDE DEF o
  <2> QED BY <2>1, <2>2, <1>r DEF ConsumerTypes, BatchInv, Done
<1>9. CASE Consumers!Isolated
  BY <1>9, <1>r DEF Consumers!Isolated, ConsumerTypes, BatchInv, Done, Consumers!stores
<1>10. CASE Consumers!Quarantine
  BY <1>10, <1>r DEF Consumers!Quarantine, ConsumerTypes, BatchInv, Done
<1>11. CASE Consumers!Commit
  BY <1>11, <1>r DEF Consumers!Commit, ConsumerTypes, BatchInv, Done, Consumers!stores
<1>12. CASE Consumers!Crash \/ Consumers!UnreadableFails \/ Consumers!CommitFails
  BY <1>12, <1>r DEF Consumers!Crash, Consumers!UnreadableFails, Consumers!CommitFails,
                     Consumers!Again, ConsumerTypes, BatchInv, Done, Consumers!stores
<1>13. CASE Consumers!ExportFails
  BY <1>13, <1>r DEF Consumers!ExportFails, ConsumerTypes, BatchInv, Done
<1>14. CASE Consumers!WriteFails
  <2>1. PICK os \in SUBSET Consumers!Writable(good) : Consumers!Put(os)
    BY <1>14 DEF Consumers!WriteFails, Consumers!Partly
  <2>2. stored' = stored \cup os /\ quarantined' = quarantined /\ os \in SUBSET Storable
    BY <2>1 DEF Consumers!Put, Consumers!Writable, ConsumerTypes, Storable
  <2> QED BY <1>14, <1>r, <2>2 DEF Consumers!WriteFails, ConsumerTypes, BatchInv, Done,
                                   Consumers!locals
<1>15. CASE Consumers!IsolateFails \/ Consumers!QuarantineFails
  BY <1>15, <1>r DEF Consumers!IsolateFails, Consumers!QuarantineFails, ConsumerTypes, BatchInv,
                     Done, Consumers!stores
<1>16. CASE UNCHANGED Consumers!vars
  BY <1>16, <1>r DEF Consumers!vars, Consumers!locals, Consumers!stores, ConsumerTypes, BatchInv,
                     Done
<1> QED
  BY <1>1, <1>2, <1>3, <1>4, <1>5, <1>6, <1>7, <1>8, <1>9, <1>10, <1>11, <1>12, <1>13, <1>14,
     <1>15, <1>16
  DEF Consumers!Next, Consumers!Progress, Consumers!Trouble

-----------------------------------------------------------------------------
(***************************************************************************)
(* The notifier's export                                                   *)
(***************************************************************************)

\* The updates that the notifier's database has.
Known == {Log[o].update : o \in stored}

\* What waits for its export is known and not exported; but for faults all else that
\* is known has been.  The notifier's store refuses nothing.
ExportInv ==
  /\ faults \in Nat
  /\ sink = "notifier" =>
       /\ exported \in [Consumers!Updates -> {0, 1}]
       /\ exporting \subseteq Known
       /\ \A u \in exporting : exported[u] = 0
       /\ \A u \in Consumers!Updates : exported[u] = 1 => u \in Known
       /\ at # "export" => exporting = {}
       /\ at # "isolate"
       /\ faults = 0 => \A u \in Known \ exporting : exported[u] = 1

\* The invariant implies that nothing is exported twice.
LEMMA ExportImplied == ConsumerTypes /\ ExportInv => Consumers!ExportedOnce
BY DEF ConsumerTypes, ExportInv, Consumers!ExportedOnce, Known, Storable, Consumers!Updates

\* Nothing is exported at first.
LEMMA ExportInitially == Consumers!Init => ExportInv
BY DEF Consumers!Init, ExportInv, Known

\* Every step keeps the invariant.
LEMMA ExportKept == ConsumerTypes /\ ExportInv /\ [Consumers!Next]_(Consumers!vars) => ExportInv'
<1> SUFFICES ASSUME ConsumerTypes, ExportInv, [Consumers!Next]_(Consumers!vars) PROVE ExportInv'
  OBVIOUS
<1>k. Known \subseteq Consumers!Updates
  BY DEF Known, Consumers!Updates, ConsumerTypes, Storable
<1>f. Consumers!Fault => faults' \in Nat /\ faults' # 0
  BY ConsumerSettings DEF Consumers!Fault, ExportInv
<1>1. CASE \/ Consumers!Fetch \/ Consumers!Transform \/ Consumers!Transformed
           \/ Consumers!Isolated \/ Consumers!Commit
  BY <1>1 DEF Consumers!Fetch, Consumers!Transform, Consumers!Transformed, Consumers!Isolated,
              Consumers!Commit, ExportInv, Known, Consumers!stores
<1>2. CASE Consumers!Unreadable \/ Consumers!Quarantine
  BY <1>2 DEF Consumers!Unreadable, Consumers!Quarantine, ExportInv, Known
<1>3. CASE Consumers!UnreadableFails \/ Consumers!CommitFails
  BY <1>3, <1>f DEF Consumers!UnreadableFails, Consumers!CommitFails, Consumers!Again, ExportInv,
                    Known, Consumers!stores
<1>4. CASE Consumers!Crash
  BY <1>4, <1>f DEF Consumers!Crash, Consumers!Again, ExportInv, Known
<1>5. CASE Consumers!Write
  <2> SUFFICES ASSUME sink = "notifier" PROVE ExportInv'
    BY <1>5 DEF Consumers!Write, ExportInv
  <2>1. Known' = Known \cup {Log[o].update : o \in good}
    BY <1>5 DEF Consumers!Write, Consumers!Put, Known
  <2>2. /\ exporting' = {Log[o].update : o \in good} \ Known /\ exported' = exported
        /\ UNCHANGED <<faults, sink>>
    BY <1>5 DEF Consumers!Write, Consumers!Put, Known
  <2>3. at = "write" /\ at' = IF good # {} THEN "export" ELSE "aside"
    BY <1>5 DEF Consumers!Write
  <2>4. {Log[o].update : o \in good} \subseteq Consumers!Updates
    BY DEF Consumers!Updates, ConsumerTypes
  <2> QED BY <2>1, <2>2, <2>3, <2>4, <1>k DEF ExportInv
<1>6. CASE Consumers!Export
  BY <1>6, <1>k DEF Consumers!Export, ExportInv, Known
<1>7. CASE Consumers!ExportFails
  BY <1>7, <1>k, <1>f DEF Consumers!ExportFails, ExportInv, Known
<1>8. CASE Consumers!WriteFails
  BY <1>8, <1>f DEF Consumers!WriteFails, Consumers!Put, ExportInv, Known, Consumers!locals
<1>9. CASE Consumers!Refuse \/ Consumers!Isolate
  BY <1>9 DEF Consumers!Refuse, Consumers!Isolate, Consumers!Writable, ExportInv, ConsumerTypes
<1>10. CASE Consumers!IsolateFails \/ Consumers!QuarantineFails
  BY <1>10, <1>f DEF Consumers!IsolateFails, Consumers!QuarantineFails, ExportInv, Known,
                     Consumers!stores
<1>11. CASE UNCHANGED Consumers!vars
  BY <1>11 DEF Consumers!vars, Consumers!locals, Consumers!stores, ExportInv, Known
<1> QED
  BY <1>1, <1>2, <1>3, <1>4, <1>5, <1>6, <1>7, <1>8, <1>9, <1>10, <1>11
     DEF Consumers!Next, Consumers!Progress, Consumers!Trouble

-----------------------------------------------------------------------------
(***************************************************************************)
(* The search index                                                        *)
(***************************************************************************)

\* The versions of an incident among some records.
Versions(os, i) == {Log[o].version : o \in {x \in os : Log[x].incident = i}}

\* The index has the greatest of the versions that were written.
IndexInv ==
  sink = "search" =>
    /\ index \in [Consumers!Incidents -> Nat]
    /\ \A i \in Consumers!Incidents :
         /\ index[i] \in {0} \cup Versions(stored, i)
         /\ \A x \in Versions(stored, i) : x <= index[i]

\* The index is empty at first.
LEMMA IndexInitially == Consumers!Init => IndexInv
BY DEF Consumers!Init, IndexInv, Versions

\* Written are versions up to a bound.
Bounded(v) == v \in Nat /\ \A o \in Consumers!Offsets : Log[o].version <= v

\* A log has one: a first record that no bound reaches would have a predecessor.
LEMMA LogIsBounded == \E v : Bounded(v)
<1> DEFINE Reaches(n, v) == \A o \in 1 .. n : Log[o].version <= v
           S == {n \in 0 .. Len(Log) : ~ \E v \in Nat : Reaches(n, v)}
<1>0. Len(Log) \in Nat /\ \A o \in 1 .. Len(Log) : Log[o].version \in Nat
  BY ConsumerSettings
<1>1. CASE S = {}
  <2>1. Len(Log) \in 0 .. Len(Log)
    BY <1>0
  <2>2. PICK v \in Nat : Reaches(Len(Log), v)
    BY <1>1, <2>1
  <2> QED BY <2>2, ConsumerSettings DEF Bounded
<1>2. CASE S # {}
  <2>0. S \subseteq 0 .. Len(Log)
    OBVIOUS
  <2>1. S \in SUBSET Nat
    BY <2>0
  <2> HIDE DEF S
  <2>2. PICK n \in S : \A y \in S : n <= y
    BY <1>2, <2>1, LeastIsThere
  <2>3. n # 0
    <3>1. Reaches(0, 0) /\ 0 \in Nat
      OBVIOUS
    <3> QED BY <3>1 DEF S
  <2>4. n \in 1 .. Len(Log) /\ n - 1 \in 0 .. Len(Log)
    BY <1>0, <2>0, <2>3
  <2>5. n - 1 \notin S
    BY <2>2, <2>4
  <2>6. PICK v \in Nat : Reaches(n - 1, v)
    BY <2>4, <2>5 DEF S
  <2>7. PICK w \in Nat : v <= w /\ Log[n].version <= w
    <3>1. Log[n].version \in Nat
      BY <1>0, <2>4
    <3>2. CASE v <= Log[n].version
      BY <3>1, <3>2
    <3>3. CASE ~(v <= Log[n].version)
      BY <3>1, <3>3
    <3> QED BY <3>2, <3>3
  <2>8. ASSUME NEW o \in 1 .. n PROVE Log[o].version <= w
    <3>1. Log[o].version \in Nat
      BY <1>0, <2>4
    <3>2. CASE o = n
      BY <2>7, <3>2
    <3>3. CASE o # n
      <4>1. o \in 1 .. n - 1
        BY <2>4, <3>3
      <4>2. Log[o].version <= v
        BY <2>6, <4>1
      <4> QED BY <2>7, <3>1, <4>2
    <3> QED BY <3>2, <3>3
  <2>9. Reaches(n, w)
    BY <2>8
  <2> HIDE DEF Reaches
  <2> QED BY <2>9 DEF S
<1> QED BY <1>1, <1>2

\* So are those of an incident.
LEMMA VersionsBounded ==
  ASSUME NEW v, Bounded(v), NEW os \in SUBSET Consumers!Offsets, NEW i
  PROVE  Versions(os, i) \in SUBSET (0 .. v)
BY ConsumerSettings DEF Bounded, Versions

\* The invariant implies that the index shows the newest version.
LEMMA IndexImplied ==
  ASSUME NEW v, Bounded(v), ConsumerTypes, IndexInv
  PROVE  Consumers!IndexIsLatest
<1> SUFFICES ASSUME sink = "search", NEW i \in Consumers!Incidents
             PROVE  index[i] = Consumers!Max({0} \cup Versions(stored, i))
  BY DEF Consumers!IndexIsLatest, Versions
<1> DEFINE S == {0} \cup Versions(stored, i)
<1>0. stored \in SUBSET Consumers!Offsets /\ v \in Nat
  BY DEF ConsumerTypes, Storable, Bounded
<1>1. S \in SUBSET (0 .. v) /\ S # {}
  BY <1>0, VersionsBounded
<1>2. index[i] \in S /\ \A x \in S : x <= index[i]
  BY DEF IndexInv
<1> HIDE DEF S
<1> DEFINE m == Consumers!Max(S)
<1>3. m \in S /\ \A x \in S : x <= m
  BY <1>0, <1>1, MaxIsThere
<1>4. S \subseteq Int
  BY <1>0, <1>1
<1> HIDE DEF m
<1>5. index[i] <= m /\ m <= index[i] /\ m \in Int /\ index[i] \in Int
  BY <1>2, <1>3, <1>4
<1>6. index[i] = m
  BY <1>5
<1> QED BY <1>6 DEF S, m

\* What is written leaves the greatest version in the index, in whatever order and
\* however often it is written.
LEMMA PutKeeps ==
  ASSUME NEW v, Bounded(v), ConsumerTypes, IndexInv,
         NEW os \in SUBSET Consumers!Offsets, Consumers!Put(os), sink' = sink
  PROVE  IndexInv'
<1> SUFFICES ASSUME sink = "search" PROVE IndexInv'
  BY DEF IndexInv
<1>1. index' = Consumers!Indexed(os) /\ stored' = stored \cup os
  BY DEF Consumers!Put
<1>2. ASSUME NEW i \in Consumers!Incidents
      PROVE  /\ index'[i] \in Nat
             /\ index'[i] \in {0} \cup Versions(stored', i)
             /\ \A x \in Versions(stored', i) : x <= index'[i]
  <2> DEFINE S == {index[i]} \cup Versions(os, i)
  <2>1. index'[i] = Consumers!Max(S)
    BY <1>1 DEF Consumers!Indexed, Versions
  <2>2. Versions(stored', i) = Versions(stored, i) \cup Versions(os, i)
    BY <1>1 DEF Versions
  <2>3. /\ Versions(os, i) \in SUBSET (0 .. v) /\ Versions(stored, i) \in SUBSET (0 .. v)
        /\ v \in Nat
    BY VersionsBounded DEF ConsumerTypes, Storable, Bounded
  <2>4. index[i] \in {0} \cup Versions(stored, i) /\ \A x \in Versions(stored, i) : x <= index[i]
    BY DEF IndexInv
  <2>5. S \in SUBSET (0 .. v) /\ S # {}
    BY <2>3, <2>4
  <2>6. Consumers!Max(S) \in S /\ \A x \in S : x <= Consumers!Max(S)
    BY <2>3, <2>5, MaxIsThere
  <2> DEFINE m == Consumers!Max(S)
  <2>7. /\ m \in {index[i]} \cup Versions(os, i)
        /\ index[i] <= m /\ \A x \in Versions(os, i) : x <= m
    BY <2>6
  <2> HIDE DEF m, S
  <2>8. index'[i] = m
    BY <2>1 DEF m
  <2> QED BY <2>2, <2>3, <2>4, <2>7, <2>8
<1>3. index' \in [Consumers!Incidents -> Nat]
  <2>1. index' = [i \in Consumers!Incidents |-> index'[i]]
    BY <1>1 DEF Consumers!Indexed
  <2> QED BY <1>2, <2>1
<1> QED BY <1>2, <1>3 DEF IndexInv

\* Every step keeps the invariant: a store changes only by what is put in it.
LEMMA IndexKept ==
  ASSUME NEW v, Bounded(v), ConsumerTypes, BatchInv, IndexInv, [Consumers!Next]_(Consumers!vars)
  PROVE  IndexInv'
<1>1. CASE \E os \in SUBSET Consumers!Offsets : Consumers!Put(os) /\ sink' = sink
  BY <1>1, PutKeeps
<1>2. CASE UNCHANGED <<sink, stored, index>>
  BY <1>2 DEF IndexInv, Versions
<1>3. CASE Consumers!Write
  BY <1>1, <1>3 DEF Consumers!Write, ConsumerTypes
<1>4. CASE Consumers!WriteFails
  BY <1>1, <1>4 DEF Consumers!WriteFails, Consumers!Partly, Consumers!Writable, ConsumerTypes
<1>5. CASE Consumers!Refuse
  BY <1>1, <1>5 DEF Consumers!Refuse, Consumers!Partly, Consumers!Writable, ConsumerTypes
<1>6. CASE Consumers!Isolate
  <2>0. todo \in SUBSET Consumers!Offsets /\ todo # {} /\ Consumers!Offsets \in SUBSET Nat
    BY <1>6, ConsumerSettings DEF Consumers!Isolate, ConsumerTypes
  <2>1. Consumers!Min(todo) \in Consumers!Offsets
    BY <2>0, MinIsThere
  <2>2. sink' = sink
    BY <1>6 DEF Consumers!Isolate
  <2>3. CASE Consumers!IsRefused(Consumers!Min(todo))
    BY <1>2, <1>6, <2>2, <2>3 DEF Consumers!Isolate, Consumers!stores
  <2>4. CASE ~Consumers!IsRefused(Consumers!Min(todo))
    <3>1. Consumers!Put({Consumers!Min(todo)})
      BY <1>6, <2>4, Zenon DEF Consumers!Isolate
    <3> QED BY <1>1, <2>1, <2>2, <3>1
  <2> QED BY <2>3, <2>4
<1>7. CASE \/ Consumers!Fetch \/ Consumers!Transform \/ Consumers!Unreadable
           \/ Consumers!UnreadableFails \/ Consumers!Transformed
           \/ Consumers!Export \/ Consumers!ExportFails
  BY <1>2, <1>7 DEF Consumers!Fetch, Consumers!Transform, Consumers!Unreadable,
                    Consumers!UnreadableFails, Consumers!Transformed, Consumers!Export,
                    Consumers!ExportFails, Consumers!Again, Consumers!stores
<1>8. CASE \/ Consumers!IsolateFails \/ Consumers!Isolated \/ Consumers!Quarantine
           \/ Consumers!QuarantineFails \/ Consumers!Commit \/ Consumers!CommitFails
           \/ Consumers!Crash
  BY <1>2, <1>8 DEF Consumers!IsolateFails, Consumers!Isolated, Consumers!Quarantine,
                    Consumers!QuarantineFails, Consumers!Commit, Consumers!CommitFails,
                    Consumers!Crash, Consumers!Again, Consumers!stores
<1>9. CASE UNCHANGED Consumers!vars
  BY <1>2, <1>9 DEF Consumers!vars, Consumers!stores
<1> QED
  BY <1>3, <1>4, <1>5, <1>6, <1>7, <1>8, <1>9 DEF Consumers!Next, Consumers!Progress,
                                                  Consumers!Trouble

-----------------------------------------------------------------------------
\* The inductive invariant of the consumers.
ConsumersInv == ConsumerTypes /\ BatchInv /\ ExportInv /\ IndexInv

\* The invariant holds at first.
LEMMA ConsumersStart == Consumers!Init => ConsumersInv
BY HandledInitially, ExportInitially, IndexInitially DEF ConsumersInv

\* Every step keeps the invariant.
LEMMA ConsumersKept ==
  ASSUME NEW v, Bounded(v)
  PROVE  ConsumersInv /\ [Consumers!Next]_(Consumers!vars) => ConsumersInv'
BY HandledKept, ExportKept, IndexKept DEF ConsumersInv

\* The invariant implies what the consumers promise.
LEMMA ConsumersImplied ==
  ASSUME NEW v, Bounded(v)
  PROVE  ConsumersInv => Consumers!RecordsAreHandled
BY HandledImplied, ExportImplied, IndexImplied DEF ConsumersInv, Consumers!RecordsAreHandled

\* Any other step of Services leaves it alone.
LEMMA ConsumersSteps == [Next]_vars => [Consumers!Next]_(Consumers!vars)
<1> SUFFICES ASSUME [Next]_vars PROVE [Consumers!Next]_(Consumers!vars)
  OBVIOUS
<1>1. CASE RunConsumers
  BY <1>1 DEF RunConsumers
<1>2. CASE UNCHANGED consumer
  BY <1>2 DEF consumer, Consumers!vars, Consumers!locals, Consumers!stores
<1> QED
  BY <1>1, <1>2 DEF Next, vars, RunArchive, RunLiveHub, RunSupervisor

\* Whatever the other services do, and whatever fails, a committed record was stored
\* or put aside, a notification is exported at most once, and the index shows the
\* newest version of what was written (base.py, notifier.py, opensearch_sink.py).
THEOREM RecordsHandled == Spec => []RecordsAreHandled
<1>0. PICK v : Bounded(v)
  BY LogIsBounded
<1>1. Init => ConsumersInv
  BY ConsumersStart DEF Init
<1>2. ConsumersInv /\ [Next]_vars => ConsumersInv'
  BY <1>0, ConsumersSteps, ConsumersKept
<1>3. ConsumersInv => RecordsAreHandled
  BY <1>0, ConsumersImplied DEF RecordsAreHandled
<1> QED BY <1>1, <1>2, <1>3, PTL DEF Spec

-----------------------------------------------------------------------------
(***************************************************************************)
(* The live updates                                                        *)
(***************************************************************************)

HubTypes ==
  /\ life \in Nat /\ seq \in Nat /\ fanned \in 0 .. seq
  /\ queue \in Seq(Nat) /\ backlog \in Seq(Nat)
  /\ last.life \in Nat /\ last.seq \in Nat /\ base \in Nat

\* The numbers are those of this process, and a client that is away has no queue.
HubPlaces ==
  /\ last.life <= life /\ (last.life = life => last.seq <= seq)
  /\ LiveHub!ToSet(queue) \subseteq 0 .. seq /\ LiveHub!ToSet(backlog) \subseteq 1 .. seq
  /\ ~conn => ~member /\ queue = <<>> /\ backlog = <<>>
  /\ member => LiveHub!Cut \notin LiveHub!ToSet(queue)

\* What precedes a number of s, from b on, is in A or comes before it.
Ordered(s, b, A) ==
  \A i \in 1 .. Len(s) : s[i] # LiveHub!Cut =>
    \A n \in b + 1 .. s[i] - 1 : n \in A \/ \E j \in 1 .. i - 1 : s[j] = n

Had == got \cup (evicted \cup lost)

OrderInv == Ordered(backlog, base, Had) /\ Ordered(queue, base, Had \cup LiveHub!ToSet(backlog))

GapInv ==
  /\ last.life = life => base + 1 .. last.seq \subseteq Had
  /\ conn /\ member =>
       base + 1 .. fanned \subseteq Had \cup LiveHub!ToSet(backlog) \cup LiveHub!ToSet(queue)
  /\ conn /\ ~member => LiveHub!Cut \in LiveHub!ToSet(queue)
  /\ evicted # {} => conn /\ LiveHub!Cut \in LiveHub!ToSet(queue)

HubInv == HubTypes /\ HubPlaces /\ OrderInv /\ GapInv

-----------------------------------------------------------------------------
(***************************************************************************)
(* Sequences of numbers                                                    *)
(***************************************************************************)

LEMMA Members ==
  ASSUME NEW s \in Seq(Nat)
  PROVE  /\ \A i \in 1 .. Len(s) : s[i] \in LiveHub!ToSet(s)
         /\ \A x \in LiveHub!ToSet(s) : \E i \in 1 .. Len(s) : x = s[i]
BY DEF LiveHub!ToSet

LEMMA Nothing == <<>> \in Seq(Nat) /\ Len(<<>>) = 0 /\ LiveHub!ToSet(<<>>) = {}
<1>1. <<>> \in Seq(Nat) /\ Len(<<>>) = 0
  BY EmptySeq
<1>2. \A i \in 1 .. 0 : FALSE
  OBVIOUS
<1>3. \A x \in LiveHub!ToSet(<<>>) : FALSE
  BY <1>1, <1>2, Members
<1> QED BY <1>1, <1>3

LEMMA NothingOrdered ==
  ASSUME NEW b, NEW A
  PROVE  Ordered(<<>>, b, A)
<1>1. \A i \in 1 .. Len(<<>>) : FALSE
  BY Nothing
<1> QED BY <1>1 DEF Ordered

LEMMA TailOf ==
  ASSUME NEW s \in Seq(Nat), s # <<>>
  PROVE  /\ Head(s) = s[1] /\ s[1] \in Nat /\ Len(s) \in Nat \ {0}
         /\ Tail(s) \in Seq(Nat) /\ Len(Tail(s)) = Len(s) - 1
         /\ \A i \in 1 .. Len(s) - 1 : Tail(s)[i] = s[i + 1]
         /\ \A i \in 2 .. Len(s) : Tail(s)[i - 1] = s[i]
OBVIOUS

LEMMA AppendOf ==
  ASSUME NEW s \in Seq(Nat), NEW m \in Nat
  PROVE  /\ Append(s, m) \in Seq(Nat) /\ Len(Append(s, m)) = Len(s) + 1
         /\ Append(s, m)[Len(s) + 1] = m
         /\ \A i \in 1 .. Len(s) : Append(s, m)[i] = s[i]
OBVIOUS

\* What a sequence has after its head was taken, or a number appended.
LEMMA TailMembers ==
  ASSUME NEW s \in Seq(Nat), s # <<>>
  PROVE  LiveHub!ToSet(s) = {Head(s)} \cup LiveHub!ToSet(Tail(s))
<1> DEFINE t == Tail(s)
<1>1. \A x \in LiveHub!ToSet(s) : x = Head(s) \/ x \in LiveHub!ToSet(t)
  <2> SUFFICES ASSUME NEW x \in LiveHub!ToSet(s), x # Head(s) PROVE x \in LiveHub!ToSet(t)
    OBVIOUS
  <2>1. PICK i \in 1 .. Len(s) : x = s[i]
    BY Members
  <2>2. i - 1 \in 1 .. Len(t) /\ t[i - 1] = x
    BY <2>1, TailOf
  <2> QED BY <2>2, TailOf, Members
<1>2. \A x \in LiveHub!ToSet(t) : x \in LiveHub!ToSet(s)
  <2> SUFFICES ASSUME NEW x \in LiveHub!ToSet(t) PROVE x \in LiveHub!ToSet(s)
    OBVIOUS
  <2>1. PICK i \in 1 .. Len(t) : x = t[i]
    BY TailOf, Members
  <2>2. i + 1 \in 1 .. Len(s) /\ s[i + 1] = x
    BY <2>1, TailOf
  <2> QED BY <2>2, Members
<1>3. Head(s) \in LiveHub!ToSet(s)
  BY TailOf, Members
<1> QED BY <1>1, <1>2, <1>3

LEMMA AppendMembers ==
  ASSUME NEW s \in Seq(Nat), NEW m \in Nat
  PROVE  LiveHub!ToSet(Append(s, m)) = LiveHub!ToSet(s) \cup {m}
<1> DEFINE t == Append(s, m)
<1>0. t \in Seq(Nat) /\ Len(t) = Len(s) + 1 /\ Len(s) \in Nat /\ t[Len(s) + 1] = m
      /\ \A i \in 1 .. Len(s) : t[i] = s[i]
  BY AppendOf
<1> HIDE DEF t
<1>1. \A x \in LiveHub!ToSet(t) : x = m \/ x \in LiveHub!ToSet(s)
  <2> SUFFICES ASSUME NEW x \in LiveHub!ToSet(t), x # m PROVE x \in LiveHub!ToSet(s)
    OBVIOUS
  <2>1. PICK i \in 1 .. Len(t) : x = t[i]
    BY <1>0, Members
  <2>2. i \in 1 .. Len(s) /\ s[i] = x
    BY <1>0, <2>1
  <2> QED BY <2>2, Members
<1>2. \A x \in LiveHub!ToSet(s) : x \in LiveHub!ToSet(t)
  <2> SUFFICES ASSUME NEW x \in LiveHub!ToSet(s) PROVE x \in LiveHub!ToSet(t)
    OBVIOUS
  <2>1. PICK i \in 1 .. Len(s) : x = s[i]
    BY Members
  <2>2. i \in 1 .. Len(t) /\ t[i] = x
    BY <1>0, <2>1
  <2> QED BY <1>0, <2>2, Members
<1>3. m \in LiveHub!ToSet(t)
  BY <1>0, Members
<1> QED BY <1>1, <1>2, <1>3 DEF t

\* More in A does no harm.
LEMMA OrderedMore ==
  ASSUME NEW s, NEW b, NEW A, NEW B, A \subseteq B, Ordered(s, b, A)
  PROVE  Ordered(s, b, B)
BY DEF Ordered

\* The head's predecessors are in A, the others' in A with the head.
LEMMA OrderedTail ==
  ASSUME NEW s \in Seq(Nat), s # <<>>, NEW b \in Nat, NEW A, Ordered(s, b, A)
  PROVE  /\ Head(s) # LiveHub!Cut => b + 1 .. Head(s) \subseteq A \cup {Head(s)}
         /\ Ordered(Tail(s), b, A \cup {Head(s)})
<1> DEFINE t == Tail(s)
<1>0. /\ Head(s) = s[1] /\ s[1] \in Nat /\ Len(s) \in Nat \ {0} /\ Len(t) = Len(s) - 1
      /\ \A i \in 1 .. Len(t) : t[i] = s[i + 1] /\ t[i] \in Nat
      /\ \A i \in 2 .. Len(s) : t[i - 1] = s[i]
  BY TailOf
<1> HIDE DEF t
<1>1. ASSUME s[1] # LiveHub!Cut, NEW n \in b + 1 .. s[1], n # s[1] PROVE n \in A
  <2>1. n \in b + 1 .. s[1] - 1 /\ 1 \in 1 .. Len(s)
    BY <1>0, <1>1
  <2> QED BY <1>1, <2>1 DEF Ordered
<1>2. ASSUME NEW i \in 1 .. Len(t), t[i] # LiveHub!Cut, NEW n \in b + 1 .. t[i] - 1,
             n \notin A, n # s[1]
      PROVE  \E j \in 1 .. i - 1 : t[j] = n
  <2>1. i + 1 \in 1 .. Len(s) /\ s[i + 1] = t[i]
    BY <1>0
  <2>2. PICK j \in 1 .. (i + 1) - 1 : s[j] = n
    BY <1>2, <2>1 DEF Ordered
  <2>3. j \in 2 .. Len(s) /\ j - 1 \in 1 .. i - 1
    BY <1>0, <1>2, <2>2
  <2> QED BY <1>0, <2>2, <2>3
<1>3. Ordered(t, b, A \cup {s[1]})
  BY <1>2 DEF Ordered
<1> QED BY <1>0, <1>1, <1>3 DEF t

LEMMA OrderedAppend ==
  ASSUME NEW s \in Seq(Nat), NEW m \in Nat, NEW b \in Nat, NEW A, Ordered(s, b, A),
         m # LiveHub!Cut => b + 1 .. m - 1 \subseteq A \cup LiveHub!ToSet(s)
  PROVE  Ordered(Append(s, m), b, A)
<1> DEFINE t == Append(s, m)
<1>0. /\ Len(t) = Len(s) + 1 /\ Len(s) \in Nat /\ t[Len(s) + 1] = m
      /\ \A i \in 1 .. Len(s) : t[i] = s[i]
  BY AppendOf
<1> HIDE DEF t
<1> SUFFICES ASSUME NEW i \in 1 .. Len(t), t[i] # LiveHub!Cut,
                    NEW n \in b + 1 .. t[i] - 1, n \notin A
             PROVE  \E j \in 1 .. i - 1 : t[j] = n
  BY DEF Ordered, t
<1>1. CASE i = Len(s) + 1
  <2>1. n \in LiveHub!ToSet(s)
    BY <1>0, <1>1
  <2>2. PICK j \in 1 .. Len(s) : s[j] = n
    BY <2>1, Members
  <2> QED BY <1>0, <1>1, <2>2
<1>2. CASE i \in 1 .. Len(s)
  <2>1. s[i] = t[i]
    BY <1>0, <1>2
  <2>2. PICK j \in 1 .. i - 1 : s[j] = n
    BY <1>2, <2>1 DEF Ordered
  <2>3. j \in 1 .. Len(s)
    BY <1>0, <1>2
  <2> QED BY <1>0, <2>2, <2>3
<1> QED BY <1>0, <1>1, <1>2

-----------------------------------------------------------------------------
(***************************************************************************)
(* The invariant                                                           *)
(***************************************************************************)

\* The invariant implies the promise.
LEMMA HubImplied == HubInv => LiveHub!StreamHasNoGap
<1> SUFFICES ASSUME HubInv PROVE LiveHub!StreamHasNoGap
  OBVIOUS
<1>1. base + 1 .. seq \subseteq (base + 1 .. fanned) \cup (fanned + 1 .. seq)
  BY DEF HubInv, HubTypes
<1> QED BY <1>1 DEF HubInv, GapInv, Had, LiveHub!StreamHasNoGap

LEMMA HubStarts == LiveHub!Init => HubInv
<1> SUFFICES ASSUME LiveHub!Init PROVE HubInv
  OBVIOUS
<1>1. /\ life = 1 /\ seq = 0 /\ fanned = 0 /\ member = FALSE /\ conn = FALSE /\ evicted = {}
      /\ queue = <<>> /\ backlog = <<>> /\ last.life = 0 /\ last.seq = 0 /\ base = 0
  BY DEF LiveHub!Init, LiveHub!Unread
<1>2. HubTypes
  BY <1>1, Nothing DEF HubTypes
<1>3. HubPlaces
  BY <1>1, Nothing DEF HubPlaces
<1>4. OrderInv
  BY <1>1, NothingOrdered DEF OrderInv
<1>5. GapInv
  BY <1>1 DEF GapInv
<1> QED BY <1>2, <1>3, <1>4, <1>5 DEF HubInv

\* The queue is offered the next number in order, or the sentinel.
LEMMA FanoutKeeps == HubInv /\ LiveHub!Fanout => HubInv'
<1> SUFFICES ASSUME HubInv, LiveHub!Fanout PROVE HubInv'
  OBVIOUS
<1> USE LiveHubAssumption DEF HubInv, HubTypes
<1>0. /\ fanned < seq /\ fanned' = fanned + 1
      /\ UNCHANGED <<life, seq, backlog, told, conn, last, base, got, lost>>
  BY DEF LiveHub!Fanout
<1>1. CASE ~member
  <2>1. UNCHANGED <<queue, member, evicted>>
    BY <1>1 DEF LiveHub!Fanout, LiveHub!Offer
  <2> QED BY <1>0, <1>1, <2>1 DEF HubPlaces, OrderInv, GapInv, Had
<1>2. CASE member /\ Len(queue) < QueueSize
  <2>1. queue' = Append(queue, fanned + 1) /\ UNCHANGED <<member, evicted>>
    BY <1>2 DEF LiveHub!Fanout, LiveHub!Offer
  <2>2. conn /\ fanned + 1 \in Nat /\ fanned + 1 # LiveHub!Cut
    BY <1>2 DEF HubPlaces, LiveHub!Cut
  <2>3. queue' \in Seq(Nat) /\ LiveHub!ToSet(queue') = LiveHub!ToSet(queue) \cup {fanned + 1}
    BY <2>1, <2>2, AppendOf, AppendMembers
  <2>4. HubTypes' /\ HubPlaces'
    BY <1>0, <2>1, <2>2, <2>3 DEF HubPlaces
  <2>5. base + 1 .. (fanned + 1) - 1
          \subseteq (Had \cup LiveHub!ToSet(backlog)) \cup LiveHub!ToSet(queue)
    BY <1>2, <2>2 DEF GapInv
  <2>6. Ordered(queue', base, Had \cup LiveHub!ToSet(backlog))
    BY <2>1, <2>2, <2>5, OrderedAppend DEF OrderInv
  <2>7. OrderInv'
    BY <1>0, <2>1, <2>6 DEF OrderInv, Had
  <2>8. GapInv'
    BY <1>0, <1>2, <2>1, <2>2, <2>3 DEF GapInv, Had
  <2> QED BY <2>4, <2>7, <2>8
<1>3. CASE member /\ Len(queue) >= QueueSize
  <2>1. /\ queue' = Append(Tail(queue), LiveHub!Cut) /\ member' = FALSE
        /\ evicted' = evicted \cup {Head(queue)}
    <3>1. LiveHub!Offer(fanned + 1) /\ ~(Len(queue) < QueueSize) /\ ~~member
      BY <1>3 DEF LiveHub!Fanout
    <3> QED BY <3>1, Zenon DEF LiveHub!Offer
  <2>2. conn /\ queue # <<>> /\ LiveHub!Cut \in Nat
    BY <1>3, Nothing DEF HubPlaces, LiveHub!Cut
  <2>3. /\ Tail(queue) \in Seq(Nat)
        /\ LiveHub!ToSet(queue) = {Head(queue)} \cup LiveHub!ToSet(Tail(queue))
    BY <2>2, TailOf, TailMembers
  <2>4. /\ queue' \in Seq(Nat)
        /\ LiveHub!ToSet(queue') = LiveHub!ToSet(Tail(queue)) \cup {LiveHub!Cut}
    BY <2>1, <2>2, <2>3, AppendOf, AppendMembers
  <2>5. HubTypes' /\ HubPlaces'
    BY <1>0, <2>1, <2>2, <2>3, <2>4 DEF HubPlaces, LiveHub!Cut
  <2>6. Ordered(Tail(queue), base, (Had \cup LiveHub!ToSet(backlog)) \cup {Head(queue)})
    BY <2>2, OrderedTail DEF OrderInv
  <2>7. Ordered(queue', base, (Had \cup LiveHub!ToSet(backlog)) \cup {Head(queue)})
    BY <2>1, <2>2, <2>3, <2>6, OrderedAppend
  <2>8. /\ Had' = Had \cup {Head(queue)}
        /\ Had' \cup LiveHub!ToSet(backlog') = (Had \cup LiveHub!ToSet(backlog)) \cup {Head(queue)}
    BY <1>0, <2>1 DEF Had
  <2>9. Ordered(backlog, base, Had')
    BY <2>8, OrderedMore DEF OrderInv
  <2>10. OrderInv'
    BY <1>0, <2>7, <2>8, <2>9 DEF OrderInv
  <2>11. GapInv'
    BY <1>0, <2>1, <2>2, <2>4, <2>8 DEF GapInv
  <2> QED BY <2>5, <2>10, <2>11
<1> QED BY <1>1, <1>2, <1>3

\* What is received comes after all that precedes it.
LEMMA BackloggedKeeps == HubInv /\ LiveHub!Backlogged => HubInv'
<1> SUFFICES ASSUME HubInv, LiveHub!Backlogged PROVE HubInv'
  OBVIOUS
<1> USE DEF HubInv, HubTypes
<1>1. /\ conn /\ backlog # <<>> /\ backlog' = Tail(backlog)
      /\ last' = [life |-> life, seq |-> Head(backlog)] /\ got' = got \cup {Head(backlog)}
      /\ UNCHANGED <<life, seq, fanned, member, queue, told, conn, base, evicted, lost>>
  BY DEF LiveHub!Backlogged, LiveHub!Received, LiveHub!server
<1>2. /\ backlog' \in Seq(Nat) /\ Head(backlog) \in Nat
      /\ LiveHub!ToSet(backlog) = {Head(backlog)} \cup LiveHub!ToSet(backlog')
  BY <1>1, TailOf, TailMembers
<1>3. Head(backlog) # LiveHub!Cut
  BY <1>2 DEF HubPlaces, LiveHub!Cut
<1>4. last'.life = life /\ last'.seq = Head(backlog)
  BY <1>1
<1>5. HubTypes' /\ HubPlaces'
  BY <1>1, <1>2, <1>4 DEF HubPlaces
<1>6. /\ Had' = Had \cup {Head(backlog)}
      /\ Had' \cup LiveHub!ToSet(backlog') = Had \cup LiveHub!ToSet(backlog)
  BY <1>1, <1>2 DEF Had
<1>7. base + 1 .. Head(backlog) \subseteq Had' /\ Ordered(backlog', base, Had')
  BY <1>1, <1>3, <1>6, OrderedTail DEF OrderInv
<1>8. OrderInv'
  BY <1>1, <1>6, <1>7 DEF OrderInv
<1>9. GapInv'
  BY <1>1, <1>4, <1>6, <1>7 DEF GapInv
<1> QED BY <1>5, <1>8, <1>9

LEMMA QueuedKeeps == HubInv /\ LiveHub!Queued => HubInv'
<1> SUFFICES ASSUME HubInv, LiveHub!Queued PROVE HubInv'
  OBVIOUS
<1> USE DEF HubInv, HubTypes
<1>1. /\ conn /\ backlog = <<>> /\ queue # <<>> /\ Head(queue) # LiveHub!Cut
      /\ queue' = Tail(queue)
      /\ last' = [life |-> life, seq |-> Head(queue)] /\ got' = got \cup {Head(queue)}
      /\ UNCHANGED <<life, seq, fanned, member, backlog, told, conn, base, evicted, lost>>
  BY DEF LiveHub!Queued, LiveHub!Received, LiveHub!server
<1>2. /\ queue' \in Seq(Nat) /\ Head(queue) \in Nat
      /\ LiveHub!ToSet(queue) = {Head(queue)} \cup LiveHub!ToSet(queue')
  BY <1>1, TailOf, TailMembers
<1>3. last'.life = life /\ last'.seq = Head(queue)
  BY <1>1
<1>4. HubTypes' /\ HubPlaces'
  BY <1>1, <1>2, <1>3 DEF HubPlaces
<1>5. Had' = Had \cup {Head(queue)} /\ LiveHub!ToSet(backlog) = {}
  BY <1>1, Nothing DEF Had
<1>6. Had \cup LiveHub!ToSet(backlog) = Had /\ Had' \cup LiveHub!ToSet(backlog') = Had'
  BY <1>1, <1>5
<1>7. base + 1 .. Head(queue) \subseteq Had' /\ Ordered(queue', base, Had')
  BY <1>1, <1>5, <1>6, OrderedTail DEF OrderInv
<1>8. Ordered(backlog', base', Had')
  <2>1. backlog' = <<>>
    BY <1>1
  <2> QED BY <2>1, NothingOrdered
<1>9. OrderInv'
  BY <1>1, <1>6, <1>7, <1>8 DEF OrderInv
<1>10. GapInv'
  BY <1>1, <1>2, <1>3, <1>5, <1>7 DEF GapInv
<1> QED BY <1>4, <1>9, <1>10

\* The backlog continues where the client's last id is, or the client is told.
LEMMA ReconnectKeeps == HubInv /\ LiveHub!Reconnect => HubInv'
<1> SUFFICES ASSUME HubInv, LiveHub!Reconnect PROVE HubInv'
  OBVIOUS
<1> USE LiveHubAssumption DEF HubInv, HubTypes
<1>1. /\ conn' = TRUE /\ member' = TRUE /\ queue' = <<>>
      /\ UNCHANGED <<life, seq, fanned, last>>
  BY DEF LiveHub!Reconnect, LiveHub!Subscribe, LiveHub!server
<1>2. CASE LiveHub!Resync
  <2>1. backlog' = <<>> /\ base' = seq /\ got' = {} /\ evicted' = {}
    BY <1>2 DEF LiveHub!Reconnect, LiveHub!After, LiveHub!Anew
  <2>2. HubTypes' /\ HubPlaces'
    BY <1>1, <2>1, Nothing DEF HubPlaces
  <2>3. OrderInv'
    BY <1>1, <2>1, NothingOrdered DEF OrderInv
  <2>4. GapInv'
    BY <1>1, <2>1 DEF HubPlaces, GapInv
  <2> QED BY <2>2, <2>3, <2>4
<1>3. CASE ~LiveHub!Resync
  <2>1. /\ last.life = life /\ last.seq >= LiveHub!Oldest - 1 /\ last.seq <= seq
        /\ UNCHANGED <<base, got, evicted, lost>>
    BY <1>3 DEF LiveHub!Reconnect, LiveHub!Resync, LiveHub!Oldest, HubPlaces
  <2> DEFINE len == seq - last.seq
             rest == [k \in 1 .. len |-> last.seq + k]
  <2>2. backlog' = rest
    BY <1>3, <2>1 DEF LiveHub!Reconnect, LiveHub!After, LiveHub!Oldest
  <2>3. len \in Nat /\ \A k \in 1 .. len : last.seq + k \in Nat
    BY <2>1
  <2> HIDE DEF len
  <2>4. rest \in Seq(Nat) /\ Len(rest) = len /\ \A k \in 1 .. len : rest[k] = last.seq + k
    BY <2>3
  <2> HIDE DEF rest
  <2>5. \A n \in last.seq + 1 .. seq : n - last.seq \in 1 .. len /\ rest[n - last.seq] = n
    BY <2>1, <2>4 DEF len
  <2>6. last.seq + 1 .. seq \subseteq LiveHub!ToSet(rest)
    BY <2>4, <2>5, Members
  <2>7. LiveHub!ToSet(rest) \subseteq 1 .. seq
    <3> SUFFICES ASSUME NEW x \in LiveHub!ToSet(rest) PROVE x \in 1 .. seq
      OBVIOUS
    <3>1. PICK k \in 1 .. len : x = rest[k]
      BY <2>4, Members
    <3>2. x = last.seq + k /\ last.seq + k \in 1 .. seq
      BY <2>1, <2>4, <3>1 DEF len
    <3> QED BY <3>2
  <2>8. HubTypes' /\ HubPlaces'
    BY <1>1, <2>1, <2>2, <2>4, <2>7, Nothing DEF HubPlaces
  <2>9. base + 1 .. last.seq \subseteq Had
    BY <2>1 DEF GapInv
  <2>10. ASSUME NEW i \in 1 .. Len(rest), NEW n \in base + 1 .. rest[i] - 1, n \notin Had
         PROVE  \E j \in 1 .. i - 1 : rest[j] = n
    <3>1. n \in last.seq + 1 .. seq /\ n < last.seq + i
      <4>1. i \in 1 .. len /\ n \in base + 1 .. last.seq + i - 1
        BY <2>4
      <4>2. n \notin base + 1 .. last.seq
        BY <2>9, <2>10
      <4> QED BY <2>1, <4>1, <4>2 DEF len
    <3>2. n - last.seq \in 1 .. i - 1
      BY <3>1
    <3> QED BY <2>5, <3>1, <3>2
  <2>11. OrderInv'
    BY <1>1, <2>1, <2>2, <2>10, Nothing DEF OrderInv, Ordered, Had
  <2>12. GapInv'
    <3>1. Had' = Had /\ last' = last /\ life' = life /\ base' = base /\ fanned' = fanned
      BY <1>1, <2>1 DEF Had
    <3>2. base + 1 .. fanned \subseteq (base + 1 .. last.seq) \cup (last.seq + 1 .. seq)
      BY <2>1
    <3>3. base + 1 .. fanned \subseteq Had \cup LiveHub!ToSet(backlog')
      BY <2>2, <2>6, <2>9, <3>2
    <3>4. evicted' = {}
      BY <2>1, Nothing DEF LiveHub!Reconnect, GapInv
    <3> QED BY <1>1, <2>9, <3>1, <3>3, <3>4 DEF GapInv
  <2> QED BY <2>8, <2>11, <2>12
<1> QED BY <1>2, <1>3

\* Steps that begin or end a connection leave nothing to read.
LEMMA RestartKeeps == HubInv /\ LiveHub!Restart => HubInv'
<1> SUFFICES ASSUME HubInv, LiveHub!Restart PROVE HubInv'
  OBVIOUS
<1> USE DEF HubInv, HubTypes
<1>1. /\ life' = life + 1 /\ seq' = 0 /\ fanned' = 0 /\ member' = FALSE /\ conn' = FALSE
      /\ queue' = <<>> /\ backlog' = <<>> /\ evicted' = {} /\ UNCHANGED <<last, base>>
  BY DEF LiveHub!Restart, LiveHub!Gone
<1>2. last'.life < life'
  BY <1>1 DEF HubPlaces
<1>3. HubTypes' /\ HubPlaces'
  BY <1>1, <1>2, Nothing DEF HubPlaces
<1>4. OrderInv'
  BY <1>1, NothingOrdered DEF OrderInv
<1>5. GapInv'
  BY <1>1, <1>2 DEF GapInv, HubPlaces
<1> QED BY <1>3, <1>4, <1>5

LEMMA ConnectKeeps == HubInv /\ LiveHub!Connect => HubInv'
<1> SUFFICES ASSUME HubInv, LiveHub!Connect PROVE HubInv'
  OBVIOUS
<1> USE DEF HubInv, HubTypes
<1>1. /\ conn' = TRUE /\ member' = TRUE /\ queue' = <<>> /\ backlog' = <<>> /\ base' = fanned
      /\ evicted' = {} /\ last.seq = 0 /\ UNCHANGED <<life, seq, fanned, last>>
  BY DEF LiveHub!Connect, LiveHub!Subscribe, LiveHub!server, LiveHub!Unread, LiveHub!Anew
<1>2. HubTypes' /\ HubPlaces'
  BY <1>1, Nothing DEF HubPlaces
<1>3. OrderInv'
  BY <1>1, NothingOrdered DEF OrderInv
<1>4. GapInv'
  BY <1>1 DEF GapInv
<1> QED BY <1>2, <1>3, <1>4

\* What is no longer in the queue, and precedes the last id, is lost.
LEMMA DisconnectKeeps == HubInv /\ LiveHub!Disconnect => HubInv'
<1> SUFFICES ASSUME HubInv, LiveHub!Disconnect PROVE HubInv'
  OBVIOUS
<1> USE DEF HubInv, HubTypes
<1>1. /\ conn' = FALSE /\ member' = FALSE /\ queue' = <<>> /\ backlog' = <<>>
      /\ lost' = lost \cup {n \in evicted : last.life = life /\ n <= last.seq} /\ evicted' = {}
      /\ UNCHANGED <<life, seq, fanned, last, base, got>>
  BY DEF LiveHub!Disconnect, LiveHub!Gone, LiveHub!server
<1>2. HubTypes' /\ HubPlaces'
  BY <1>1, Nothing DEF HubPlaces
<1>3. OrderInv'
  BY <1>1, NothingOrdered DEF OrderInv
<1>4. ASSUME last.life = life PROVE base + 1 .. last.seq \subseteq Had'
  <2> SUFFICES ASSUME NEW n \in base + 1 .. last.seq PROVE n \in Had'
    OBVIOUS
  <2>1. n \in got \/ n \in lost \/ n \in evicted
    BY <1>4 DEF GapInv, Had
  <2>2. n <= last.seq
    OBVIOUS
  <2> QED BY <1>1, <1>4, <2>1, <2>2 DEF Had
<1>5. GapInv'
  BY <1>1, <1>4 DEF GapInv
<1> QED BY <1>2, <1>3, <1>5

LEMMA ClosedKeeps == HubInv /\ LiveHub!Closed => HubInv'
<1> SUFFICES ASSUME HubInv, LiveHub!Closed PROVE HubInv'
  OBVIOUS
<1> USE DEF HubInv, HubTypes
<1>1. /\ conn /\ queue # <<>> /\ Head(queue) = LiveHub!Cut /\ backlog = <<>>
      /\ conn' = FALSE /\ queue' = <<>> /\ base' = last.seq /\ evicted' = {}
      /\ UNCHANGED <<life, seq, fanned, member, backlog, last>>
  BY DEF LiveHub!Closed, LiveHub!server, LiveHub!Anew
<1>2. ~member
  BY <1>1, TailMembers DEF HubPlaces
<1>3. HubTypes' /\ HubPlaces'
  BY <1>1, <1>2, Nothing DEF HubPlaces
<1>4. OrderInv'
  <2>1. backlog' = <<>>
    BY <1>1
  <2> QED BY <1>1, <2>1, NothingOrdered DEF OrderInv
<1>5. GapInv'
  BY <1>1 DEF GapInv
<1> QED BY <1>3, <1>4, <1>5

\* Every step keeps the invariant.
LEMMA HubKept == HubInv /\ [LiveHub!Next]_(LiveHub!vars) => HubInv'
<1> SUFFICES ASSUME HubInv, [LiveHub!Next]_(LiveHub!vars) PROVE HubInv'
  OBVIOUS
<1>1. CASE LiveHub!Publish
  BY <1>1 DEF LiveHub!Publish, LiveHub!stream, LiveHub!client, HubInv, HubTypes, HubPlaces,
              OrderInv, GapInv, Had
<1>2. CASE LiveHub!Told
  BY <1>2 DEF LiveHub!Told, LiveHub!server, LiveHub!client, HubInv, HubTypes, HubPlaces,
              OrderInv, GapInv, Had
<1>3. CASE UNCHANGED LiveHub!vars
  BY <1>3 DEF LiveHub!vars, LiveHub!server, LiveHub!stream, LiveHub!client, HubInv, HubTypes,
              HubPlaces, OrderInv, GapInv, Had
<1> QED
  BY <1>1, <1>2, <1>3, RestartKeeps, ConnectKeeps, ReconnectKeeps, DisconnectKeeps,
     FanoutKeeps, BackloggedKeeps, QueuedKeeps, ClosedKeeps DEF LiveHub!Next, LiveHub!Sending

\* Any other step of Services leaves it alone.
LEMMA LiveHubSteps == [Next]_vars => [LiveHub!Next]_(LiveHub!vars)
<1> SUFFICES ASSUME [Next]_vars PROVE [LiveHub!Next]_(LiveHub!vars)
  OBVIOUS
<1>1. CASE RunLiveHub
  BY <1>1 DEF RunLiveHub
<1>2. CASE UNCHANGED live
  BY <1>2 DEF live, LiveHub!vars, LiveHub!server, LiveHub!stream, LiveHub!client
<1> QED
  BY <1>1, <1>2 DEF Next, vars, RunArchive, RunConsumers, RunSupervisor

\* Whatever the other services do, and however often server and client begin anew, a
\* client misses no update of the stream but those taken out of its full queue, and of
\* these it is told by a sentinel unless it read past them and left before (live.py:3-7).
THEOREM NoGapEver == Spec => []StreamHasNoGap
<1>1. Init => HubInv
  BY HubStarts DEF Init
<1>2. HubInv /\ [Next]_vars => HubInv'
  BY LiveHubSteps, HubKept
<1>3. HubInv => StreamHasNoGap
  BY HubImplied DEF StreamHasNoGap
<1> QED BY <1>1, <1>2, <1>3, PTL DEF Spec

-----------------------------------------------------------------------------
(***************************************************************************)
(* The supervisor                                                          *)
(***************************************************************************)

\* Jobs and checkpoints are of submissions, and no checkpoint is younger than the latest.
SupervisorTypes ==
  /\ submissions \in Nat /\ stamp \in Nat /\ belated \in BOOLEAN
  /\ jobs \subseteq 1 .. submissions /\ dirs \subseteq 1 .. submissions
  /\ underway \subseteq 1 .. submissions
  /\ checkpoints \subseteq [job: 1 .. submissions, stamp: 1 .. stamp]

\* The latest checkpoint is there and is not among what is to be pruned.
LatestIsKept ==
  stamp > 0 => \E c \in checkpoints :
    c.stamp = stamp /\ (phase \in {"submit", "prune"} => c.job \notin dirs)

\* While no submission came that had been given up, a job is only active from its
\* submission on; it writes no checkpoint while the supervisor chooses one.
HandOnInv ==
  /\ phase = "submit" /\ from # Supervisor!Fresh => from.job \in Supervisor!Dirs
  /\ ~belated =>
       /\ jobs \subseteq {submissions}
       /\ phase \in {"list", "submit"} => jobs = {}
       /\ phase = "prune" => jobs \cap dirs = {}
       /\ LatestIsKept
       /\ phase = "submit" => from.stamp = stamp
       /\ started.from = started.latest

\* The inductive invariant of the supervisor.
SupervisorInv == SupervisorTypes /\ HandOnInv

\* The stamp of the latest of some checkpoints.
LEMMA LatestIs ==
  ASSUME SupervisorTypes, NEW cs \in SUBSET checkpoints
  PROVE  /\ Supervisor!Latest(cs) \in 0 .. stamp
         /\ \A c \in cs : c.stamp <= Supervisor!Latest(cs)
         /\ Supervisor!Latest(cs) # 0 => \E c \in cs : c.stamp = Supervisor!Latest(cs)
<1> DEFINE S == {0} \cup {c.stamp : c \in cs}
<1>1. S \in SUBSET (0 .. stamp) /\ S # {} /\ stamp \in Nat
  BY DEF SupervisorTypes
<1>2. \A x \in S : x = 0 \/ \E c \in cs : c.stamp = x
  OBVIOUS
<1>3. \A c \in cs : c.stamp \in S
  OBVIOUS
<1>4. Supervisor!Latest(cs) = Supervisor!Max(S)
  BY DEF Supervisor!Latest
<1> HIDE DEF S
<1>5. Supervisor!Max(S) \in S /\ \A x \in S : x <= Supervisor!Max(S)
  BY <1>1, LatestIsThere
<1> QED BY <1>1, <1>2, <1>3, <1>4, <1>5

\* The latest checkpoint of all has the latest stamp.
LEMMA LatestOfAll ==
  ASSUME SupervisorTypes, LatestIsKept
  PROVE  Supervisor!Latest(checkpoints) = stamp
<1>1. stamp \in Nat
  BY DEF SupervisorTypes
<1>2. CASE stamp = 0
  BY <1>2, LatestIs
<1>3. CASE stamp > 0
  <2>1. PICK c \in checkpoints : c.stamp = stamp
    BY <1>3 DEF LatestIsKept
  <2> QED BY <1>1, <2>1, LatestIs
<1> QED BY <1>1, <1>2, <1>3

\* It is not pruned: at least one job has a later one than any that is.
LEMMA LatestIsNotPruned ==
  ASSUME SupervisorTypes, NEW c \in checkpoints, c.stamp = stamp
  PROVE  c.job \notin Supervisor!Pruned
<1> SUFFICES ASSUME c.job \in Supervisor!Pruned PROVE FALSE
  OBVIOUS
<1> DEFINE j == c.job
           later == {k \in Supervisor!Dirs :
                       Supervisor!Latest(Supervisor!Of(k)) > Supervisor!Latest(Supervisor!Of(j))}
<1>1. Supervisor!Cardinality(later) >= Keep
  BY DEF Supervisor!Pruned, Supervisor!Quantify
<1>2. Supervisor!Cardinality(later) = Cardinality(later)
  BY Zenon DEF Supervisor!Cardinality, Cardinality
<1>3. later # {}
  <2>1. Keep > 0 /\ Keep \in Nat
    BY SupervisorAssumption
  <2> HIDE DEF later
  <2> QED BY <1>1, <1>2, <2>1, FS_EmptySet
<1>4. \A k : Supervisor!Of(k) \in SUBSET checkpoints
  BY DEF Supervisor!Of
<1>5. c \in Supervisor!Of(j)
  BY DEF Supervisor!Of
<1>6. stamp \in Nat /\ stamp <= Supervisor!Latest(Supervisor!Of(j))
  BY <1>4, <1>5, LatestIs DEF SupervisorTypes
<1>7. PICK k \in Supervisor!Dirs :
        Supervisor!Latest(Supervisor!Of(k)) > Supervisor!Latest(Supervisor!Of(j))
  BY <1>3
<1>8. /\ Supervisor!Latest(Supervisor!Of(k)) \in 0 .. stamp
      /\ Supervisor!Latest(Supervisor!Of(j)) \in 0 .. stamp
  BY <1>4, LatestIs
<1> QED BY <1>6, <1>7, <1>8

\* The invariant implies that the state is handed on.
LEMMA HandedOn == SupervisorInv => Supervisor!StateIsHandedOn
BY LatestOfAll DEF SupervisorInv, HandOnInv, Supervisor!StateIsHandedOn

\* There is no job at first.
LEMMA SupervisorStarts == Supervisor!Init => SupervisorInv
<1> SUFFICES ASSUME Supervisor!Init PROVE SupervisorInv
  OBVIOUS
<1>1. /\ jobs = {} /\ underway = {} /\ checkpoints = {} /\ stamp = 0
      /\ phase = "look" /\ dirs = {} /\ submissions = 0 /\ belated = FALSE
      /\ started.from = started.latest
  BY DEF Supervisor!Init
<1>2. SupervisorTypes
  BY <1>1 DEF SupervisorTypes
<1>3. HandOnInv
  BY <1>1 DEF HandOnInv, LatestIsKept
<1> QED BY <1>2, <1>3 DEF SupervisorInv

\* A checkpoint is the latest, and is of a job that is not to be pruned.
LEMMA CheckpointKeeps == SupervisorInv /\ Supervisor!Checkpoint => SupervisorInv'
<1> SUFFICES ASSUME SupervisorInv, Supervisor!Checkpoint PROVE SupervisorInv'
  OBVIOUS
<1> USE DEF SupervisorInv
<1>0. /\ stamp' = stamp + 1
      /\ UNCHANGED <<jobs, underway, phase, from, dirs, submissions, belated, started>>
  BY DEF Supervisor!Checkpoint, Supervisor!supervisor, Supervisor!record
<1>1. PICK j \in jobs :
        checkpoints' = {c \in checkpoints : c.job # j} \cup {[job |-> j, stamp |-> stamp']}
  BY DEF Supervisor!Checkpoint
<1> DEFINE d == [job |-> j, stamp |-> stamp']
<1>2. d.job = j /\ d.stamp = stamp + 1 /\ d \in checkpoints'
  BY <1>0, <1>1
<1>3. SupervisorTypes'
  <2>1. /\ checkpoints \subseteq [job: 1 .. submissions, stamp: 1 .. stamp + 1]
        /\ d \in [job: 1 .. submissions, stamp: 1 .. stamp + 1]
    BY <1>0 DEF SupervisorTypes
  <2> QED BY <1>0, <1>1, <2>1 DEF SupervisorTypes
<1>4. Supervisor!Dirs \subseteq Supervisor!Dirs'
  <2> SUFFICES ASSUME NEW c \in checkpoints PROVE \E e \in checkpoints' : e.job = c.job
    BY DEF Supervisor!Dirs
  <2> QED BY <1>1, <1>2
<1> HIDE DEF d
<1>5. HandOnInv'
  BY <1>0, <1>2, <1>4 DEF HandOnInv, LatestIsKept
<1> QED BY <1>3, <1>5

\* What is chosen to restore from, and to prune.
LEMMA ListKeeps == SupervisorInv /\ Supervisor!List => SupervisorInv'
<1> SUFFICES ASSUME SupervisorInv, Supervisor!List PROVE SupervisorInv'
  OBVIOUS
<1> USE DEF SupervisorInv
<1>0. /\ phase = "list" /\ phase' = "submit" /\ dirs' = Supervisor!Pruned
      /\ from' \in IF checkpoints = {} THEN {Supervisor!Fresh}
                   ELSE {c \in checkpoints : c.stamp = Supervisor!Latest(checkpoints)}
      /\ UNCHANGED <<jobs, underway, checkpoints, stamp, submissions, belated, started>>
  BY DEF Supervisor!List, Supervisor!cluster, Supervisor!record
<1>1. Supervisor!Dirs' = Supervisor!Dirs
  BY <1>0 DEF Supervisor!Dirs
<1>2. Supervisor!Pruned \subseteq Supervisor!Dirs /\ Supervisor!Dirs \subseteq 1 .. submissions
  BY DEF Supervisor!Pruned, Supervisor!Dirs, SupervisorTypes
<1>3. SupervisorTypes'
  BY <1>0, <1>2 DEF SupervisorTypes
<1>4. from' # Supervisor!Fresh => from'.job \in Supervisor!Dirs
  BY <1>0 DEF Supervisor!Dirs
<1>5. ASSUME ~belated PROVE from'.stamp = stamp /\ LatestIsKept'
  <2>1. LatestIsKept /\ Supervisor!Latest(checkpoints) = stamp
    BY <1>5, LatestOfAll DEF HandOnInv
  <2>2. LatestIsKept'
    BY <1>0, <2>1, LatestIsNotPruned DEF LatestIsKept
  <2>3. checkpoints = {} => stamp = 0 /\ Supervisor!Fresh.stamp = 0
    BY <2>1 DEF LatestIsKept, SupervisorTypes, Supervisor!Fresh
  <2> QED BY <1>0, <2>1, <2>2, <2>3
<1>6. HandOnInv'
  BY <1>0, <1>1, <1>4, <1>5 DEF HandOnInv
<1> QED BY <1>3, <1>6

\* Every step keeps the invariant.
LEMMA SupervisorKept == SupervisorInv /\ [Supervisor!Next]_(Supervisor!vars) => SupervisorInv'
<1> SUFFICES ASSUME SupervisorInv, [Supervisor!Next]_(Supervisor!vars) PROVE SupervisorInv'
  OBVIOUS
<1> USE DEF SupervisorInv, SupervisorTypes, HandOnInv, LatestIsKept, Supervisor!Dirs
<1>1. CASE Supervisor!JobsEnd
  BY <1>1 DEF Supervisor!JobsEnd, Supervisor!supervisor, Supervisor!record
<1>2. CASE Supervisor!Belated
  BY <1>2 DEF Supervisor!Belated, Supervisor!supervisor
<1>3. CASE Supervisor!Look
  BY <1>3 DEF Supervisor!Look, Supervisor!cluster, Supervisor!record
<1>4. CASE Supervisor!ListFails
  BY <1>4 DEF Supervisor!ListFails, Supervisor!cluster, Supervisor!record
<1>5. CASE Supervisor!Submit
  <2>1. /\ phase = "submit" /\ phase' = "prune"
        /\ submissions' = submissions + 1 /\ jobs' = jobs \cup {submissions + 1}
        /\ started'.from = from.stamp /\ started'.latest = Supervisor!Latest(checkpoints)
        /\ UNCHANGED <<underway, checkpoints, stamp, from, dirs, belated>>
    BY <1>5 DEF Supervisor!Submit
  <2>2. ~belated => Supervisor!Latest(checkpoints) = stamp
    BY LatestOfAll
  <2>3. SupervisorTypes'
    BY <2>1
  <2>4. HandOnInv'
    BY <2>1, <2>2
  <2> QED BY <2>3, <2>4
<1>6. CASE Supervisor!SubmitFails
  BY <1>6 DEF Supervisor!SubmitFails, Supervisor!cluster, Supervisor!record
<1>7. CASE Supervisor!GiveUp
  BY <1>7 DEF Supervisor!GiveUp
<1>8. CASE Supervisor!Prune
  BY <1>8 DEF Supervisor!Prune, Supervisor!record
<1>9. CASE Supervisor!PruneFails
  BY <1>9 DEF Supervisor!PruneFails, Supervisor!record
<1>10. CASE UNCHANGED Supervisor!vars
  BY <1>10 DEF Supervisor!vars, Supervisor!cluster, Supervisor!supervisor, Supervisor!record
<1> QED
  BY <1>1, <1>2, <1>3, <1>4, <1>5, <1>6, <1>7, <1>8, <1>9, <1>10, CheckpointKeeps, ListKeeps
     DEF Supervisor!Next, Supervisor!Supervise

\* Any other step of Services leaves it alone.
LEMMA SupervisorSteps == [Next]_vars => [Supervisor!Next]_(Supervisor!vars)
<1> SUFFICES ASSUME [Next]_vars PROVE [Supervisor!Next]_(Supervisor!vars)
  OBVIOUS
<1>1. CASE RunSupervisor
  BY <1>1 DEF RunSupervisor
<1>2. CASE UNCHANGED supervisor
  BY <1>2 DEF supervisor, Supervisor!vars, Supervisor!cluster, Supervisor!supervisor,
              Supervisor!record
<1> QED
  BY <1>1, <1>2 DEF Next, vars, RunArchive, RunConsumers, RunLiveHub

\* However submissions, jobs and prunings fail, and however long the supervisor runs: what is
\* about to be restored from is not pruned; and while no submission came that had been given
\* up, one job at most is active, each was restored from the latest checkpoint, and that
\* is there (supervisor.py:3-6).
THEOREM StateHandedOn == Spec => []StateIsHandedOn
<1>1. Init => SupervisorInv
  BY SupervisorStarts DEF Init
<1>2. SupervisorInv /\ [Next]_vars => SupervisorInv'
  BY SupervisorSteps, SupervisorKept
<1>3. SupervisorInv => StateIsHandedOn
  BY HandedOn DEF StateIsHandedOn
<1> QED BY <1>1, <1>2, <1>3, PTL DEF Spec

=============================================================================
