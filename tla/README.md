# A verification development for OT-Security

TLA+ models of the OT-Security monitoring pipeline (`src/`), the TLC runs that check them on
small instances, and TLAPS proofs of the results that hold for every instance. Line numbers
below are those of the files under `src/`.

    tlc -workers 2 -config Dedup.cfg MCDedupWindow         # one of the runs listed below
    tlapm DedupWindowProofs.tla                            # the proofs

## 1. The system

Zeek writes its logs on a sensor in the OT zone. A **sender** turns log lines into numbered
records and pushes them as UDP datagrams over a data diode: a link with no way back. The
**receiver** puts fragments together, drops copies, stores records in a **spool** and
**publishes** the spool to Redpanda. A Flink job **detects**; **consumers** copy the topics to
ClickHouse and OpenSearch and keep the incidents; an **archive** moves old partitions away; the
**API** serves a dashboard and streams live updates.

    Zeek logs -> sender => link => reassembly -> duplicate filter -> spool -> publisher -> broker
                (state.json)                    (dedup.json)       (segments) (cursor file)   |
      dashboard <- API, live hub <- ClickHouse/OpenSearch/notifier <- consumers <- Flink job <-'

### Inventory

| component (source) | state it keeps | operations | hard because | correct when |
|---|---|---|---|---|
| Sender, tail mode (`ingest/sender/sih_sender/tail.py`, `state.py`, `context.py`) | next number, per file inode, fingerprint and offset; on disk `state.json`, saved every n records and when idle | pass over the files, handle a line, save, restart | crash between any two steps; files replaced, truncated; the saved state trails what was sent | nothing skipped; a number stands for one record; a resent record is an exact copy |
| Sender, replay mode (`replay.py`) | the run in progress with its reserved numbers, the last 1000 completed runs | pick a run, reserve, send, complete, abandon | crash on either side of each save; more runs than are remembered | a record has one number as long as its run is remembered; runs end |
| Sender, health thread (`__main__.py`) | health number | send a health record | its number is saved only with other saves | fresh health is not taken for old |
| Link (`link.py`, `linkframe.py`) | rate limiter | encode, send each datagram n times | loss, copies, order; no acknowledgement | encode and decode agree |
| Reassembly (`ingest/receiver/sih_receiver/reassembly.py`) | table of incomplete records in order of first fragment | add, expire | fragments lost, repeated, reordered, of different records under one key; the full table | bounded; nothing vanishes unreported; handed-on records are whole |
| Duplicate filter (`dedup.py`) | per sensor boot: ring of bits, base, highest, missing; counters | check, mark, snapshot, restore | ring reuse, jumps, eviction of streams | accepted once; only accepted records suppressed; counts exact |
| Receiver core (`core.py`, `__main__.py`) | the above, health numbers seen, snapshot on disk | handle datagram, housekeeping, restore | order of check, append and mark; what a restart finds | spool and filter agree |
| Spool (`spool.py`) | segments, sizes, synced position, cursor file | append, roll, sync, read, release, recover | two threads; power loss; byte limit | what is released was published; bounded; durable before published |
| Publisher (`publisher.py`) | cursor, acknowledgements out of order | pump, run | delivery reports in any order, failing deliveries, failing writes, restarts | at least once, in order of the cursor; space is freed |
| Flow deltas (`flink/sih_detect/flowdelta.py`) | last counters of a flow, tombstones | on_event, on_timer | updates after the terminal record, late timers | a byte is counted once as long as the flow is known |
| Detectors (`scan.py`, `ddos.py`, `exfil.py`, `beacon.py`, `encrypted.py`, `dns.py`) | windows, running counts, baselines, what was last reported, timers; per key | on_event, on_timer | event time out of order, stale timers, caps, counts kept in step by hand | counts are what counting anew would give; what is reported keeps up with the evidence; silent keys are forgotten |
| Model scoring (`dga_model.py`, `dns.py`) | per subtask: active, errors in a row | load, score | one model for all keys of a subtask, errors between successes | given up after errors in a row, until loaded again |
| Incidents (`incidents.py`) | the open incident of a key | on_event (merge), on_timer (resolve) | reopening, late signals, idle timers | updates numbered without gaps, identifiers unique |
| Supervisor (`supervisor.py`) | latest checkpoint, pruned files | poll, choose, submit | answers of the REST interface are stale | at most one job; a checkpoint that exists |
| Consumers (`consumers/sih_consumers/base.py`, sinks, `notifier.py`) | offsets, notification table, JSONL export | poll, write, isolate poison records, commit | crash between write and commit, rebalance, partial failures | nothing lost, writes idempotent |
| Archive (`archive.py`) | manifests, partitions | export, read back, verify, drop, restore | rows arrive between verification and drop | no row is dropped that was not archived |
| API (`live.py`, `app.py`, `auth.py`) | subscribers with bounded queues, sessions | publish, subscribe with backlog, stream | backlog and subscription are two steps; slow clients | no update missed or repeated silently, but for what a full queue gives up |
| Job (`job.py`, `flink_ops.py`, `harness.py`) | the operators' state in checkpoints | build, process_element, on_timer | replays after a failure, watermarks | operators share nothing but the watermark |
| Library, normalizer, generator, training, dashboard, infrastructure | none that survives a call, or external | - | - | pure functions, covered by unit tests |

The hazards of the code, each at its line and with the properties that cover it, are the list
`hazards` of `PROJECT.json`.

## 2. Plan

Order: what a one-way link makes irrecoverable comes first.

1. *(done)* `SequenceWindow`, `DedupWindow`, with the abstract `DuplicateFilter` and the proofs
   `SequenceWindowProofs`, `DedupWindowProofs`.
2. *(done)* `Receiver`: spool, publisher, filter recovery and crashes. `Reassembly` in front of it.
3. *(done)* `Sender`, composed with the link and the receiver's window.
4. *(done)* `ReceiverProofs`.
5. *(done)* `Incidents`, the end of the detection job, inside a job that checkpoints and fails;
   `IncidentsProofs`.
6. *(done)* `KeyedOperator` and on it `FlowDelta` and the seven detectors, composed in `Detection`.
7. *(done)* `Consumers`, `Archive`, `LiveHub`, `Supervisor`, composed in `Services`;
   `ServicesProofs` for each of them within the composition.
8. *(done)* `SenderProofs` and `ReassemblyProofs`; the filter and the spool in `ReceiverProofs`;
   `EveryFindingShown` in `IncidentsProofs`.
9. *(done)* `DetectionProofs`: the bytes of a flow, the forgetting of silent keys, the model that is
   given up, the findings of a flood, the counts kept on the way, the windows.

Left, in this order: findings behind the watermark in `Incidents`; the sender's health thread
together with `_health` of the receiver; short writes of the spool as a fault of `Appended`;
checkpoints of the detectors' operators.

## 3. The modules

| module | models | extends / instances |
|---|---|---|
| `SequenceWindow` | one stream of the filter as operators: `Classify` (check), `Record` (mark) and its cases `First`, `Jump`, `Slide`, `Fill`; `GapsAdded` | - |
| `DedupWindow` | the filter: all streams, eviction, the counters | `SequenceWindow`; refines `DuplicateFilter` |
| `DuplicateFilter` | abstract: a stream is the set of numbers accepted | - |
| `Reassembly` | the fragment table | - |
| `Receiver` | receive thread, spool, publisher thread, broker, crashes | `SequenceWindow` |
| `Sender` | tail and replay, saved state, link, the receiver's window | `SequenceWindow` |
| `Incidents` | the incident of one key, its alerts, checkpoints and failures of the job | - |
| `DetectConfig`, `KeyedOperator` | the detectors' settings; state, timers and watermark of a key | - |
| `FlowDelta`, `Scan`, `Ddos`, `Beacon`, `Exfil`, `Encrypted`, `DnsDomain`, `DgaBurst` | one operator each | `KeyedOperator` |
| `Detection` | the operators of the job | instances of the eight |
| `ServicesConfig` | the settings of the services and the consumers' topic | - |
| `Consumers`, `Archive`, `LiveHub`, `Supervisor` | one service each | `ServicesConfig` |
| `Services` | the services side by side | instances of the four |
| `SequenceWindowProofs`, `DedupWindowProofs`, `ReassemblyProofs`, `ReceiverProofs`, `SenderProofs`, `IncidentsProofs`, `DetectionProofs`, `ServicesProofs` | proofs | the module named; `ReceiverProofs` and `SenderProofs` also `SequenceWindowProofs` |
| `MC*` | values of the constants for TLC | the module named |

`PROJECT.json` maps every definition to the lines it stands for.

**SequenceWindow, DedupWindow.** `StreamState` is `_Stream`: `bits` is the bytearray as a function
on slots 0 .. W-1 (`W` is `WINDOW`, 65536 in the code), and `highest = -1` stands for a stream that
is not kept. One action, `Mark(k, seq)`, is `check` and `mark` together, as `core.py` always calls
`mark` only with a number it has just checked or counts as a duplicate; it makes the stream the
most recent one and drops the least recent when there is no room. `received` and `outcome` are
history variables.

**Reassembly.** `pending` is the `OrderedDict`, oldest first. `add` is four actions, one for each
way through it: a record in one fragment, the first fragment of a key, a fragment that contradicts
its entry, a further fragment. A chunk is represented by the record it was cut from. `Expire` is
the whole loop. Loss is not an action: a fragment that never arrives is lost. The clock moves
forward only; `timeutil.now_us` is the wall clock, which an operator may set back.

**Receiver.** Records have one size, so a position is a number of records and segment n holds
records n * SegCap + 1 to (n + 1) * SegCap; that segments are numbered by their order and not by
their byte position is the same abstraction. `log` keeps the deleted segments as history; `first`
says what is on disk. `Accept`, `Reject`, `Health` are the ways through `_event` and `_health`;
`Quarantine` may write or not (token bucket); it also stands for what an undecodable frame or a record
given up by the reassembly appends. `Housekeeping` is the whole of `housekeeping`.
The publisher is split where another thread can see a difference: `Produce` (read and hand to the
producer), `Poll*` (callbacks, then the cursor in memory), `Persist` (cursor file), `Release`
(delete segments), `EndRound`/`NewRound` (a failed delivery; the new producer). `Store` is the
broker; a round's messages are stored at most once because the producer is idempotent
(publisher.py:23-36). `Restart("process")` keeps everything written to files; `Restart("power")`
keeps at least what was fsynced; then `Restored` folds `Replayed` over the records after the
snapshot's position, which marks events and passes over all else. Where the code makes two calls
under one lock acquisition and nobody else reads the state in between, they are one step.

**Sender.** One file or run per number, in the order of names. `OpenFile`, `HandleLine`, `Save`,
`Advance`, `CloseFile`, `EndPass` are the steps of `pass_once` between which a crash makes a
difference: `_handle` saves *inside*, before the offset moves (tail.py:152, 131). `BeginRun`,
`HandleItem`, `CompleteRun`, `AbandonRun` are replay. The list of completed runs keeps the last
`MaxCompleted` of them (`MarkCompleted`; `MAX_COMPLETED_RUNS`, 1000 in the code), so a finished run
that has fallen off it (`forgotten`, history) is a candidate again. `Arrive(m)` delivers any record
sent so far, so the link repeats, reorders and loses. `files`, `dirs` are Zeek and the operator. A
file's inode and fingerprint are one number, `content`: a file with another number is recognised as
replaced.

**Incidents.** The operator is keyed, so one key stands for all. `Open`, `Escalate`, `Update`,
`Suppress` are the branches of `on_event`; which one is taken is a guard (`Lapsed`, `Escalates`,
`Refines`, `IsDue`) of the open incident and the finding, and each sets a timer. `Advance` is a
watermark with `on_timer` of all timers it passes. A finding comes from one of several
`Partitions`; `log` is what Kafka keeps of it, so that `Restart` reads the same findings again,
from the offsets and the state of the last `Checkpoint`, in an interleaving of its own. `buffer`
are the alerts since the checkpoint: the sink has delivered some first part of them when the job
fails, all when a checkpoint completes. `Step` and `Epoch` are the grids of timers (10 s) and
identifiers (1 s). A detector reports from `on_event` only, at the time of its event, so a
finding is younger than the watermark (`f.obs > high`) as long as events keep to the bound on
their disorder (job.py:72). Left out: events that do not, the evidence lists, and the cap of
eight on subtypes.

**KeyedOperator.** A detector is a pure class that `harness.py` and `flink_ops.py` give a value
state, map states and event-time timers of one key. `state` is both kinds of state, `None` when
cleared; `timers` and `watermark` are the timer service. `Handle` is process_element: the event,
what `on_event` leaves, what it registers. `Tick` moves the watermark by one and fires what is due.
Several due timers fire in one step: each reads the same state, and what it clears depends on the
last alone. An event is not behind the watermark and at most `OutOfOrderness` behind the youngest
(job.py:72): the environment's part of the contract. `Expire` is the `on_timer` of those that only
clear. `history` holds what the properties refer to.

**FlowDelta.** One counter for the four, `None` when it is unavailable. The branches of `on_event`
are `Late` (after the terminal record), `Repeated` (an old sequence), `Snapshot`, `Terminal` and
`ShortFlow` (terminal, without state); a terminal record leaves a tombstone, but not a short flow's. Of
the history, `counted` is all that was ever handed on, `earlier` what had been when the flow was last
announced as new, `peak` the highest count since, `known` until when the code has to know the flow.

**Scan.** `pairs`, `byPort`, `byHost` are the map states, `n`, `hosts`, `ports` the counters kept by
hand. `Contact` is `on_event` of a new flow: `Track`, `Outcome`, `Noted`. `OnTimer` forgets pairs one
by one. Authorised scanners are reported with severity info (`Rank` 0).

**Ddos.** Times are seconds. `Closed` is `_close_old`, `Calm` and `Flood` the two ways on. Of the
baseline only its warmth is kept, and the threshold is any the settings allow; the sketch of
sources and the rate of bytes may say anything (`Priorities`). The episode's fields that decide
about repetition are exact.

**Beacon.** The latest starts, `Horizon` with the median as the code takes it (the mean of the two
in the middle), and the timer. Regularity beyond the span is any answer.

**Exfil.** The sliding window `recs` in the order of arrival, the tumbling window that feeds the
baseline (`Rolled`), the destinations up to their cap. **Encrypted.** A run of sessions and its most
suspicious one; `None` is a session whose indicators are too few to score. **DnsDomain.** The
tumbling window of one source and domain: distinct names up to a cap, the tunnel's and the
generated names' severities. `history` is the present run of queries of one window. **DgaBurst.** The tumbling window of unanswered names, with `model`, the
scorer of the subtask: `Load`, `After`, `Reload` (a new subtask).

**Detection.** Flink's operators share nothing but the watermark, and keys of one operator share
nothing; so one key of one operator at a time is chosen by `Init`. The model of the subtask is
the one thing that keys share, and other keys' queries reach it by `Answered`.

**Consumers.** One partition. The steps are those between which a failure makes a difference:
`Fetch` (consume), `Transform`/`Unreadable` record by record, `Write` with its outcomes (`WriteFails`
may have written part of a bulk request), `Refuse` and, at the limit of tries, `Isolate` record by
record, `Export` of the notifier after its commit, `Quarantine`, `Commit`. `Crash` and `Again` go back
to the committed offset; a rebalance is that, too. `Put` is what the three stores make of a record:
ClickHouse by its key, the notifier's table with its unique update, the index by external version.

**Archive.** One partition. A row is its identity, so that inserting it again changes nothing, as
ReplacingMergeTree has it. The cycle is `Look`, `Export`, `PutObject`, `RecordExported`, `Verify`,
`RecordVerified` or `RecordStale`, `Drop`, `RecordDeleted`; `Fail` ends it anywhere. `Insert` and
`Restore` happen between any two. An object's name carries its digest, so an object is the set of
rows in it and is never overwritten by another.

**LiveHub.** `Publish` is the consumer thread, `Fanout` the callback that it gives the event loop,
`Subscribe` with `After` and `Resync` the start of the stream in app.py, `Backlogged`, `Queued` and
`Closed` its loop. A full queue makes room for the sentinel `Cut` (`Offer`). `life` is the nonce of
ids. `base`, `got`, `evicted`, `lost` are the client's side: since when it relies on the stream, what
came, what was sacrificed for a sentinel still in the queue, and what it read past before the sentinel
went with its connection (`Gone`).

**Supervisor.** `Look` (rest_jobs), `List` (latest_checkpoint, with what prune will take), `Submit`,
`Prune`; the cluster takes checkpoints and ends jobs at any time. `GiveUp` is the client that times
out, or a supervisor that is restarted: the submission may be run later (`Belated`).

**Services.** The four have a process and a state each and call each other through topics and
tables only; what one does to another is an action of the other's environment (`Insert`, `Publish`,
`Checkpoint`). One at a time is chosen by `Init`.

## 4. The runs

| run | module, cfg | bounds | shows |
|---|---|---|---|
| `dedup` | MCDedupWindow, Dedup | 3 interchangeable streams, room for 2, W = 3, numbers 0..6, 1 repeat, 1 gap | the ring wraps twice while streams push each other out; bits, missing and gap counts are exact; accepted once; refines the sets |
| `reassembly` | MCReassembly, Reassembly | 6 records (3 under one key, 2 of these of one length), table of 2, timeout 2 of 3 ticks, 5 datagrams | bounded and ordered table, nothing vanishes unreported, what is handed on is whole |
| `receiver_power` | MCReceiver, ReceiverPower | 4 numbers (1 invalid), segments of 2, spool of 3, 4 appends, 1 failed delivery, 1 power loss | nothing published is lost, nothing unpublished is deleted, filter and spool agree |
| `receiver_crash` | MCReceiver, ReceiverCrash | 3 numbers, 1 health record, segments of 1, spool of 2, 3 appends, 1 failed delivery, 1 failed cursor write, 1 process crash; fairness | filter and spool agree, every durable record is published, space is freed if nothing interrupts the release |
| `sender_link` | MCSender, SenderLink | 2 files of 2 lines, 1 replaced, 1 line a pass, runs of 2 and 1, 1 run remembered, 5 numbers, save every 2, 1 crash, W = 4; fairness | nothing skipped; until its run is forgotten a replayed record has one number and is accepted once; until a run is forgotten every line and every finished run is sent in the end |
| `incidents` | MCIncidents, Incidents | 1 partition, 3 findings at times 0..3, idle 1, cooldown 1, timers on a grid of 2, windows no longer than idle, watermark up to 4, 1 failure | update identifiers identify, the topic has no gap, every finding shows, nothing stays open past its timer |
| `detection` | MCDetection, Detection | times up to 4 to 6 and 3 to 5 events for each operator, disorder 1, windows and horizons of 2, grids of 2, caps of 1 to 4 | bytes are counted once for each announcement of their flow and a known flow is not announced again, windows and counts are exact (a window of names: of its queries since the last one of another window), a flood is shown as strong as it is, the model is given up when it should be, silent keys are forgotten |
| `services` | MCServices, Services | a topic of 6 records (a repetition, one refused, one unreadable, one quiet, versions out of order), batches of 3, 2 tries, 2 faults; 3 rows, 2 failures; ring of 3, queue of 2, 5 updates, 2 processes; 1 job's checkpoints kept, 4 checkpoints, 3 failures; fairness | committed records are handled, archived partitions are whole, a client misses nothing but what its full queue gave up, jobs start from the latest state; each gets on with its work |
| `receiver_wedged` *(violated)* | MCReceiver, ReceiverWedged | a process crash; fairness | a full, acknowledged spool is never released |
| `sender_resend` *(violated)* | MCSender, SenderResend | tail mode, 1 crash | a number stands for two records after a crash |
| `incident_ids` *(violated)* | MCIncidents, IncidentIds | as `incidents`, no failure, windows longer than idle | an incident that opens again can have its predecessor's identifier |
| `beacon_expiry` *(violated)* | MCDetection, BeaconExpiry | as `detection`, the beacon detector alone | a pair that connects rarely is never forgotten |

*Why the bounds are enough.* `MaxSeq` is twice `W`, so a slot is used by three numbers and a jump
can be shorter than, equal to and longer than the window; with room for two of three streams, one
that was pushed out comes back. The spool's bounds let it roll, fill up, be released in part and
roll again; one fault of each kind is what each hazard needs, and faults of two kinds occur
together. The fragment table overflows with three keys, and a key can complete, time out and come
again within five datagrams. In the sender each of the steps between two saves can be the one that
the crash follows, and each file and run is both first and last; with two runs and room for one in
the list, the first is forgotten and taken up again within five numbers. Three
findings are what an incident needs to open, change and open again, and what two updates need to
change places; a timer on a grid of 2 with idle 1 may fire too early, on time and late. In
`detection` the caps and the thresholds of a first report can be reached and exceeded by the events
allowed, a window can end, be reopened by a late event and end again, and the clock passes the last
timer of the first event; the multiples (twice, five times a threshold) that raise the severity of a
scan are out of reach. In `services` two faults are enough for a failure while recovering from
another, and the log has each kind of record next to a neighbour that must not suffer from it; five
updates overrun ring and queue; four checkpoints of two jobs with room for one are what pruning has
to choose from. `CHECK_DEADLOCK FALSE` is set throughout as the bounds on inputs let every model
stop. Two refusals of a batch stand for the three of base.py:78.

*Fairness.* `Receiver`: weak fairness of housekeeping (the main loop calls it at least every 0.1 s,
`__main__.py`:44-66), of each step of the publisher's loop (a thread of its own), and of the broker
storing and reporting (a broker that is down for ever publishes nothing). None of the inputs,
failures, crashes is fair. The steps that discard a round are bounded by `MaxFailures` and
`MaxErrors`, as a fault that never ends is no progress. `Sender`: weak fairness of the sending
thread as a whole, none of Zeek, the operator or the link, hence nothing about arrival. `Services`:
weak fairness of the consumer's loop, whose container is restarted when it ends
(docker-compose.yml:22, `Progress`), of the archiver's cycle, which begins again every
ARCHIVE_INTERVAL_S (`Archiving`), and of the days (`TimePasses`), of the event loop (`Sending`) and
of the supervisor's loop (`Supervise`). What comes from outside and every failure is not fair, and
failures are bounded.

## 5. Disagreements between the code and what is said of it

Four runs show one each (those marked *violated*); `findings` in `PROJECT.json` has the details.

- A restart between saving the cursor and releasing segments can leave a full spool full for good
  (publisher.py:126, core.py:162).
- After a crash in tail mode a number can stand for two records (tail.py:131, state.py:3-5).
- The identifier of an incident is the start of its first finding's window, so where windows
  outlast the idle period a new incident can take over the identifier and the update numbers of
  the one before it (incidents.py:43), and consumers that deduplicate lose the new one's updates.
- The timer of a pair with few connections is computed without its intervals, and the horizon
  that the timer compares with them (beacon.py:96-97, :105-107): a pair that connects seldom outlives
  its last timer and stays.

Others have no run of their own. Of the receiving side:

- Recovery takes unsynced records for durable ones (spool.py:90, :127), so after a process crash and
  then a loss of power a published record may be on no disk. `PublishedIsDurable` is checked and
  proved without process crashes. For the same reason the snapshot of the filter may then be ahead
  of the spool and remember numbers whose records are gone, which are suppressed when they come
  again: `FilterMatchesSpool` is checked and proved where no loss of power follows a crash.
- docs/failure-model.md:8 (F2) says that the sender stops tailing when its queue is full;
  tail.py:98 only reports `degraded` and tails on. The sender has no such operation to model.
- A number below the first one that arrived is stale although within the window (dedup.py:90,
  docs/failure-model.md:9): `First` sets the base, `Classify` rejects what is below it.
- Late copies of fragments of a completed record are not ignored but open an entry, which is
  quarantined when it expires (reassembly.py:60, :3): `AddFirst` does not know what was completed.

Of the sending side:

- The sender remembers the last 1000 completed runs (state.py:16, 64). With more finished
  directories in place the oldest is taken for a new run and replayed under new numbers, against
  docs/contracts.md:13, and accepted again (replay.py:52-55). With at least two more, each replay
  makes the list forget the run that comes next, and the runs behind them are never reached, against
  replay.py:1. The model does both; `NumberingIsSound`, `ReplayAcceptedOnce` and `WorkIsFinished`
  hold of runs that were not forgotten, and `RunsAreRemembered` says that none is while the list has
  room.

Of the detection job:

- Update numbers follow the order in which findings are processed, and with several partitions a
  replay need not repeat it (incidents.py:60, :5-6). `UpdateIdsIdentify` holds of one partition
  and short windows only; `incidents` checks it there.
- A flow that comes late into a second the baseline has learned is not in the baseline
  (ddos.py:149-162): `SecondsAreExact` says only that none is learned twice.
- A terminal record that finds no state leaves none (flowdelta.py:77-80). Records are delivered at
  least once and the job has no filter, so a short flow's record that comes twice is counted twice,
  and so is any terminal record that is repeated after the tombstone is gone, against
  docs/contracts.md:58. `BytesCountedOnce` therefore counts the announcements: what was handed on is
  the highest count, once for each; a flow is announced again only after it was short or forgotten;
  and it is not forgotten within its idle period or that of its tombstone.
- A query that comes up to two seconds late clears the window of its source and domain when it
  belongs to the one before, and the next query of the present one clears it again (dns.py:99-102),
  against docs/feature-catalog.md:72 and docs/failure-model.md:27 (F21). The windows of unanswered
  names do the same (dns.py:213-219). So `WindowsAreExact` and `CountsAreExact` speak of the queries
  of a window since the last one of another: none of those is lost, invented or counted twice.
- In exfil.py what was last reported is never reset while the host is active, so a second
  upload is reported only if it is more severe or twice the first; and once its destinations are at
  the cap every further one counts as new at each upload.

Of the services:

- Rows that come after a partition was verified are dropped with it (archive.py:151-152, :3-7):
  `RowsAreKept` excepts them (`late`). A partition that was restored after it was dropped is left
  alone, but one whose drop was not recorded is dropped again at once.
- A record whose transformation raises anything but `Poison` stops the consumer, which is restarted
  at the same record (base.py:136-149): the model knows the transformations' own errors only.
- After a crash between the notifier's commit and its export the export stays short, as the update is
  known by then (notifier.py:76): `ExportedOnce` claims "none is missing" of faultless runs only.
- The oldest number of a full queue is lost before the sentinel that says so (live.py:71-79). A client
  that reads on past the loss, loses its connection before the sentinel, and reconnects while its id
  is in the ring, is never told by the stream, against docs/failure-model.md:22 (F16); the dashboard
  reloads its history every 15 s as well (Dashboard.tsx:75). `StreamHasNoGap` says that there is no
  other gap, and that a sentinel follows what was sacrificed as long as the client stays.
- A submission that timed out may be run after the next one: two jobs, of which one did not start
  from the latest checkpoint, and pruning may take the newest (supervisor.py:91-94). `StateIsHandedOn`
  excepts the time after that (`belated`).

## 6. What is proved

Every theorem below holds for every value of the constants that meets the `ASSUME` of its module:
`WindowAssumption` (`W` is positive), `StreamsAssumption` (`MAX_STREAMS` is positive),
`BoundsAssumption` and the other bounds (naturals), `ReceiverAssumption` (a segment holds a record,
and the spool more than a segment: sixteen by default, `__main__.py`:25-26), `IncidentsAssumption`
(grids are positive, windows and times naturals), `ReassemblyAssumption` (room for an entry, a
positive timeout and chunk, no record empty), `SenderAssumption` (there is a file, files are
numbered in the order of their names, runs have a number that is not 0, which stands for none; a
pass handles a line at least, the saving interval and the room for completed runs are positive),
`ArchiveAssumption` (finitely many rows), `ConsumersAssumption` (a finite topic of the four kinds of
records) and the bounds of `LiveHub` and `Supervisor`. Of the detectors `ConfigAssumption` says that
sizes and times are naturals, that the steps of the timers and the counts are positive, and that a
beacon takes more than one connection (`beacon_min_events`, 10 by default: with one there is no
interval, and the code's median of nothing fails). It also says that the seconds a destination keeps
(`KEEP_BUCKETS`, ten, `ddos.py`:18) cover a window and what may come out of order
(`out_of_orderness_ms`, two seconds by default): a setting beyond that, which the code accepts,
would let a second be dropped that is still counted. `DetectionAssumption` says that the operators
are the eight of the job, that the records of a flow have the fields that are read, that scores,
indicators and bytes are naturals, and that `None` is no state.

**`SequenceWindowProofs`: one stream.** `Represents(s, A)` says that the state `s` is the window of
the set `A` of numbers accepted: `base` and `highest` are the extremes of `A`, a bit is set
if and only if the number its slot stands for is in `A` and at most `W` below `highest`, and
`missing` is the cardinality of what the window lacks.
`RecordRepresents`: marking an acceptable `n` leads from the window of `A` to the window of
`A \cup {n}`. The three cases have a lemma each. `Slide` is the hard one: the slots it clears are
those of the numbers that leave, because two numbers less than `W` apart have different slots
(`SlotInjective`), and what `missing` loses is what was unset among them (`EvictedExact`).
`GapsAddedExact`: the gap counter grows by the numbers skipped.

**`DedupWindowProofs`: the filter.** The inductive invariant is `StreamsInv`: types, the bound on
streams, and `Represents` of each kept stream and the numbers accepted since it was last created.
`TypeOK` alone is not inductive (the range of `missing` depends on the ring), neither is
`RingIsExact` (it needs `base` and `highest`). From it: `TypeCorrect`, `RingCorrect`,
`MissingCorrect`, and from the lemmas about types, bounds, acceptance and duplicates `WellFormed` and
`OutcomesCorrect`. `Refinement`: with
`accepted` mapped to the sets the streams represent, every `Mark` is a step of `DuplicateFilter`;
that needs the classification of bits and of sets to agree (`SameClassification`) and the count
of missing numbers to be the same (`KeptCount`).

**`ReceiverProofs`: spool, publisher and filter.** `SpoolInv` bounds the bytes on disk; it is inductive.
`PublisherInv` orders the positions,
`first * SegCap <= cursorFile <= cursor <= readPos`, and says that what was acknowledged is stored
and that everything below the cursor was. `NeverSkipped` alone is not inductive: a step of
`Release` moves `first`, and only the order of the positions says that what it deletes is below
the cursor. The lemma it turns on is `PrefixExact`: the position the callbacks compute from
acknowledgements in any order is the longest prefix of acknowledged records (it rests on the
well-foundedness of the naturals, `Least`).

- `NothingSkippedEver`: with any crashes, failures and failing writes, no record is below the
  cursor or deleted without the broker having it.
- `SpoolBounded`: the spool never exceeds its limit.
- `CopiesBounded`: a record is stored at most once more than there were faults. `CopiesInv`
  charges each copy to the present round or to a fault; a round that ended badly has yet to be
  charged until the next begins, which is the term with `failed`.
- `PublishedSurvives`: **assuming** `OnlyPower` (the plan has no process crash), what is published
  is on stable storage. `DurableInv` is `readPos <= synced <= durable`. The assumption is needed:
  section 5 has the counterexample without it.
- `FilterAgrees`: **assuming** `PowerFirst` (in no plan does a loss of power follow a crash of the
  process), no spooled record is accepted again and nothing is taken for a duplicate whose record is
  not in the spool. `MatchInv` states `Agrees` twice: of the filter and the whole spool, and of the
  snapshot and the records up to its position; the second is what a restart begins with.
  `PlacesInv` keeps the snapshot's position and the cursor's file within what a restart keeps;
  this is where the assumption is needed. A restart is a fold: `FoldReplays` says that `FoldLeft`
  is a sequence of streams, each `Replayed` from the one before, and `ReplayAgrees` that there is
  no first one that disagrees. `RecordRemembers` is the lemma about the ring: what a stream does not
  accept it never will, through slides and jumps.
- `TypeCorrect`: for any plan; `StreamsInv` says that both streams come from recorded numbers.

**`IncidentsProofs`: the incidents of a key.**

- `NoUpdateMissingEver`: an update in the topic was preceded there by the incident's earlier ones.
  The property speaks of the topic only and is not inductive; `UpdatesInv` adds that each alert
  in the buffer comes after the updates before it (`Chained`), that the open incident's updates
  are all in topic or buffer, and that those of the incident in the checkpoint are in the topic
  itself: a failure goes back to that one and keeps only a first part of the buffer. The lemmas
  are `SendNext` (a branch sends one alert more) and `DeliverSome` (what a failure keeps).
- `NoneOverstaysEver`: `TimerInv` says that the incident, in the state and in the checkpoint, has
  the timer that is due last. None is deleted, and one that fires while the incident goes on was
  set for an earlier finding.

- `EveryFindingShownEver`: whatever is replayed, a processed finding is in an alert of its incident,
  with its subtype and a severity that is not less, and one before the checkpoint is in the
  topic. `ShownInv` adds `Told` of the open incident (what it has of severity and subtypes, its
  alerts said) and of the checkpoint's, by the topic alone; without it `Suppress`, which merges a
  finding and sends nothing, could not be justified. `PositionsInv` keeps the offsets in order.
- `TypeCorrect`, with `ClocksInv` for the watermark and the timers.

**`ReassemblyProofs`: the fragment table.** `IInv` is the types, `TableInv`, and the two
properties that relate the table to what arrived. `TableInv` says that a key has one entry, that
entries are in the order of their first fragments, and (`EntryInv`) that an entry lacks a chunk and
that each chunk it has arrived, of its key and length. `CompletedIsWhole` needs it: what is handed
on is the table's entry with one chunk more. The lemmas are about `RemoveAt`, `SubSeq`, `Append` and
the replacement of an entry, which all keep a part of the table in its order (`RemainsTable`).

- `TableInOrder`: the table is bounded, one entry for a key, oldest first, none complete.
- `NothingVanishesEver`: a fragment that arrived waits, or its key was handed on or given up.
- `WholeOnly`: what is handed on consists of fragments that arrived, of its key and length.
- `NoneOverstaysEver` (an action property): after `Expire` no entry is older than the timeout; it
  rests on the order, as the loop stops at the first entry that is young.

**`DetectionProofs`: the keyed operators.** A step of `Detection` is a step of the one operator, whose
key it is (`OneOperator`); each theorem has an invariant per operator.

- `CountedOnceEver`: `FlowInv` says that the counter that is kept of a flow is the highest count of
  the records that were counted since it was announced, that what was handed on since adds up to it,
  and that a record which the sequence number or the end of the flow shuts out had nothing to add
  (`FlowDrops`, for flows whose counters grow). That a flow is not announced anew before its time
  comes from the timers (`FlowWaits`, as for `ForgottenEver`). The sum of what was handed on is
  exact because each delta is the difference to the kept counter, so that repeated and late records,
  however they interleave, add nothing.
- `ForgottenEver`, for all eight operators: `SilentIsForgotten` is not inductive, as a timer that
  fires may find the key too young. `Waits` says of every operator *which* timer it waits for: the one
  that was set for the deadline of its present state (`Awaits`), and that no timer is overdue
  (`TimersAhead`). A tick that fires the last due timer either passes the deadline, and
  then the handler clears, or leaves the timer of the deadline (`TimerPassed`, `TimerStays`). The
  detectors differ in what moves the deadline: the last event, the window's end, the
  oldest contact that is left. That of a beacon depends on the median of its intervals, which
  an event may lower: `Horizon` is what it is when the last start is the youngest.
- `GivenUpExactly`: `ModelInv` says that an active model's counter is the length of the run of errors
  at the end of its outcomes, and that no earlier run was long enough.
- `EpisodeShownEver`: `DdosInv` says that the episode in the state remembers the strongest rank and
  priority that was reported (`EpisodeIs`), and as many flows as the last report, which may
  be fewer than those of an earlier one. `EvidenceCovered` is the step: an anomalous second is reported,
  or is covered by what was. That a window's flows are a number needs sums over finite sets
  (`AllSums`, `SumType`): the fold is unfolded once, and its graph built up from the empty set.
- `CountsExactEver` has an invariant for each of the four detectors that count on the way. A scan's
  maps from port and host to a number are tallies of its pairs (`Tally`): `TallyMore` and
  `TallyLess` say what a pair that comes or goes makes of a tally, the entry of a side that has none
  left included, and `LeftExact` carries this through the expiry of any number of pairs, a fold
  whose intermediate states are exact as well. A burst keeps the first query of each domain while
  there is room (`BurstExact`): once a domain has been turned away, the cap is reached for good, so
  that the domains kept are the first ones (`FirstsMore`, `AllKept`). A beacon's starts are the
  latest of the pair's (`LatestOf`): one dropped is older than each that is kept, in whatever order
  they come. A flood's seconds have the flows received in them as long as a window can refer to
  them, and the baseline learned of each at most once (`SecondsExact`): a second is learned only
  when it is too old for any event still to come.
- `WindowsExactEver` has an invariant for each of the four detectors with a window, beside `Waits`.
  *Scan.* `Follows` says that a pair is kept with the time of its last contact as long as that
  lies within the horizon of the watermark, unless the cap turned it away. That nothing stays
  longer needs the timers: `ScanHorizons` says that one is registered no later than a step
  behind the first pair to leave, whichever pairs were renewed since.
  *Uploads.* `WindowIsExact` speaks of the window of the youngest record and is not inductive: a late
  record cuts the window at an earlier instant, and the cap may drop a record that is younger
  than one still to come. `KeptFrom` therefore speaks of *every* instant no earlier than that window's
  start: what is kept from there on is the end of what was received from there on, and has whatever
  is among the last `k` received, for each `k` there is room for. `RecentKept` is the step; it rests on
  how the end of a sequence (`Ends`, `TailOf`) and its records from an instant on (`Since`) commute
  (`SinceEnds`, `SinceTwice`, `TailMore`), by induction over the sequence as described in section 7.
  `SourceIs` adds that every byte is in one sample (`UploadCounted`) and that the destinations
  are the first ones (`DstsMore`).
  *Sessions.* `RunIs` says that the sessions counted follow one another within the horizon, and what
  came before the first did not; after expiry that follows from the time at which the timer fired.
  *Names.* `DnsExact` says that the counters are those of the queries of this window since the last
  one of another, and the names kept are as many of them as the cap allows.

**`SenderProofs`: numbers and saved state.** The inductive invariant has five parts. `TypeInv` adds
to the types what is true of each place in the loop. `DoneInv` says of the state in memory *and* of
the one on disk that what they have passed was sent or filtered out. `LinkInv` says that the window
represents the accepted numbers (`RecordRepresents` is cited for each arrival). `NumberInv` differs
by mode: in tail mode a line has at most one number more than there were crashes, one less if the
sender is still to send it (`Ahead`), which is what makes a resend pay for itself; in replay mode
the ranges that runs reserved do not overlap, a run has a second one only if it was forgotten in
between, and disk and memory agree about them except between completing a run and saving that.
`ListInv` says that the list of completed runs has no run twice, so that one that is full names as
many finished runs as there is room for.

- `NumbersSound`, `NothingSkippedEver`, `SuppressedAccepted`, `AcceptedOnce` and `TypeCorrect` follow
  from it, for any number of crashes between any two steps. Before a crash in tail mode and
  always in replay mode a number stands for one record, and a record of a run that was not forgotten has
  one number; section 5 has the rest.

**`ServicesProofs`: the services, each within the composition.** The four invariants are of one
service each; a step of `Services` is a step of that service, or leaves its variables alone.

*One partition of the archive.* `PartitionsKept` says that what came before the verification is
in the hot table or in the object that the manifest names, whatever is inserted, restored and fails.
`StepInv` says what holds between the steps of the cycle: before the drop the hot table has every
row, what is being exported was taken from it, and from the count on the object has all rows but the
late ones. It turns on `CountTells`: an object whose rows are all in the hot table, and are as many,
has them all; `ManifestIsTrue` and the count are both needed.

*One partition of a topic.* `RecordsHandled`, for every topic, batch size and
store. The invariant has three parts. `BatchInv` says where the records of the batch are, from
fetching to commit. `ExportInv` says that what waits for the notifier's export is known and not
exported. `IndexInv` says that the index has the greatest version written, which rests on finite
sets of numbers having a greatest member (`MaxIsThere`), and a topic on having a greatest
version (`LogIsBounded`).

*The stream to a client.* `NoGapEver`: for any sizes of ring and queue, and
however often server and client begin anew, a client has received all up to its last id and is still
to receive the rest, but for what its full queue gave up: a sentinel in the queue will tell it of that,
or it read past it and left before. `StreamHasNoGap` is not inductive: that a received number has no
gap before it follows from the *order* of backlog and queue. `OrderInv` says that what precedes an
entry was received, or is before it in the sequence (`Ordered`); `OrderedTail` and `OrderedAppend`
say what taking the head and offering the next number make of that. `HubPlaces` keeps numbers of an
earlier process apart from those of this one, and says that the sentinel is in the queue only of a
client that the hub has given up.

*The supervisor.* `StateHandedOn`: while no submission runs that had been given up, one job at most
is active, each began with the latest checkpoint, and that is still there. `HandOnInv` says what the
supervisor's stale answers are worth at each step: from `list` to `submit` no job runs, so that what
it listed is still the latest (`from.stamp = stamp`), and what it prunes belongs to no running job.

All temporal theorems are safety; each ends in a `PTL` step over `Init`, step and implication.

## 7. What is only model-checked

- Liveness (`SpooledIsPublished`, `SpaceFreesUninterrupted`, `WorkIsFinished`, `WorkIsDone`): fairness
  and ENABLED are beyond the prover.
- `UpdateIdsIdentify`, which holds only under the bounds named in section 5.
- `FilterMatchesSpool` and `PublishedIsDurable` under plans that their theorems except: there they
  are false.

Induction over data is beyond the prover as a rule. Where a proof needs it (a fold over the spool, the
greatest version of a topic), it takes the least number for which a statement fails, which exists
because the order of the naturals is well-founded (`Least`, `Smallest`), or a set that has the empty
sequence and, with each sequence, those that are one longer (`UploadsInduction`).

## 8. What is not modelled

- *Sender, health thread*: a counter in a loop; its hazard is listed without a property.
- *Data of the detectors*: feature records, evidence lists, the values of baselines (EWMA) and of
  cardinality sketches, lexical features, the network's inference. Where the control depends on
  them the model allows any answer that the settings do.
- *Checkpoints of the detectors' operators*: a restored key is a key in an earlier state;
  `Incidents` models what that does to what was sent.
- *Late findings* in `Incidents`, and events behind the watermark in the detectors, which the job
  does not drop.
- *Several partitions of a consumer*: a rebalance moves a partition as a whole, and a batch over several
  partitions is committed at once.
- *Authentication, sessions and queries of the API*: lookups without a protocol.
- *Bytes*: CRC, HMAC, encoding and the fragment arithmetic of `linkframe.py`. The models start
  from a frame that decodes; a frame that does not is dropped and counted before any state changes.
- *Short writes of the spool* (a full disk): `append` raising in the middle of a record.
- *Files between two names of one content* in the sender: inode reuse with an equal fingerprint.
- *Metrics, health reports' contents, log output*: read but never decided upon by the code here.
- *Normalizer, common library, generator, training, dashboard, infrastructure*: functions of their
  arguments, one-pass programs, presentation, or not part of the program's own logic.
