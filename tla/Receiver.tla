------------------------------ MODULE Receiver ------------------------------
(***************************************************************************)
(* The receiver process: one thread takes datagrams, deduplicates them and *)
(* appends them to the durable spool (core.py, spool.py); another thread   *)
(* publishes the spool to the broker and releases what was acknowledged    *)
(* (publisher.py).  The process may be killed and the host may lose power  *)
(* between any two steps; the spool, the duplicate filter's snapshot and   *)
(* the publisher's cursor are what a restart finds.                        *)
(*                                                                         *)
(* One sensor boot is modelled (DedupWindow has the others).  Records have *)
(* one size, so a spool position is the number of records before it, and   *)
(* segment n holds the records n * SegCap + 1 .. (n + 1) * SegCap.         *)
(***************************************************************************)
EXTENDS SequenceWindow, SequencesExt

CONSTANTS
  MaxSeq,      \* bound: the sensor has sent the sequence numbers 0 .. MaxSeq
  Malformed,   \* those whose record does not pass _validate_event
  MaxHealth,   \* bound: the sensor has sent that many health records
  SegCap,      \* RECEIVER_SEGMENT_BYTES, in records
  MaxRecs,     \* RECEIVER_SPOOL_MAX_BYTES, in records
  MaxLog,      \* bound on the records ever appended
  MaxFailures, \* bound on the delivery failures that the broker reports
  MaxErrors,   \* bound on the failing writes of the cursor file
  CrashPlans   \* the sequences of crashes, "process" or "power", that may happen

ASSUME ReceiverAssumption ==
  /\ MaxSeq \in Nat /\ Malformed \subseteq 0 .. MaxSeq /\ MaxHealth \in Nat
  /\ SegCap \in Nat \ {0} /\ MaxRecs \in Nat /\ MaxRecs > SegCap
  /\ MaxLog \in Nat /\ MaxFailures \in Nat /\ MaxErrors \in Nat

VARIABLES
  log,        \* every record appended to the spool; a restart may lose a tail
  first,      \* the oldest segment that is not deleted
  synced,     \* _synced: the position the publisher may read up to
  dirty,      \* _dirty: appended to since the last sync
  durable,    \* the position that survives a loss of power
  win,        \* the sensor boot's stream in the duplicate filter
  snap,       \* dedup.json: the stream and the spool position it was written with
  healthSeen, \* _health_seen of the sensor boot
  pc,         \* where the publisher thread is: pump, persist, release or down
  cursor,     \* the publisher's cursor
  cursorFile, \* publisher.cursor
  readPos,    \* what the round has handed to the producer
  written,    \* in flight and stored by the broker
  acked,      \* in flight and reported as delivered
  failed,     \* the round was told of a delivery failure
  copies,     \* how often the broker stored each position of the spool
  faults,     \* how many of the bounded failures and errors have happened
  crashes     \* the crashes so far

spool     == <<log, first, synced, dirty, durable>>
filter    == <<win, snap, healthSeen>>
publisher == <<pc, cursor, cursorFile, readPos, written, acked, failed, copies, faults>>
vars      == <<spool, filter, publisher, crashes>>

Seqs  == 0 .. MaxSeq
Other == -1           \* a health record or a quarantined one in the spool

Segment(pos) == (pos - 1) \div SegCap

\* A mutation of Full: the limit is tested before the record is counted.
FullLate == Len(log) - first * SegCap > MaxRecs

Full == Len(log) - first * SegCap >= MaxRecs

Init ==
  /\ log = << >> /\ first = 0 /\ synced = 0 /\ dirty = FALSE /\ durable = 0
  /\ win = EmptyStream /\ snap = [pos |-> 0, win |-> EmptyStream] /\ healthSeen = -1
  /\ pc = "pump" /\ cursor = 0 /\ cursorFile = 0 /\ readPos = 0
  /\ written = {} /\ acked = {} /\ failed = FALSE
  /\ copies = [i \in 1 .. MaxLog |-> 0]
  /\ faults = [failures |-> 0, errors |-> 0]
  /\ crashes = << >>

-----------------------------------------------------------------------------
(***************************************************************************)
(* The receive thread                                                      *)
(***************************************************************************)

\* _validate_event, and the parse before it.
Valid(q) == q \notin Malformed

\* Spool.append of one record, below the limit; a roll syncs the full segment.
Appended(rec) ==
  /\ Len(log) < MaxLog
  /\ log'     = Append(log, rec)
  /\ durable' = IF Len(log) % SegCap = 0 THEN Len(log) ELSE durable
  /\ dirty'   = TRUE

\* Spool.append whose result is ignored.
TryAppend(rec) ==
  IF Full THEN UNCHANGED <<log, durable, dirty>> ELSE Appended(rec)

\* quarantine: the token bucket decides whether the record is written.
Quarantine ==
  \/ TryAppend(Other)
  \/ UNCHANGED <<log, durable, dirty>>

\* A mutation of Accept: the number is marked before the spool is asked.
AcceptMarkedFirst(q) ==
  /\ Classify(win, q) \in Accepted
  /\ Valid(q)
  /\ win' = Record(win, q)
  /\ TryAppend(q)
  /\ UNCHANGED <<first, synced, snap, healthSeen, publisher, crashes>>

\* _event, when the sequence number is new and the record valid.  At the limit
\* nothing changes: the record is dropped and its number is not marked.
Accept(q) ==
  /\ Classify(win, q) \in Accepted
  /\ Valid(q)
  /\ ~Full
  /\ Appended(q)
  /\ win' = Record(win, q)
  /\ UNCHANGED <<first, synced, snap, healthSeen, publisher, crashes>>

\* _event, when the record does not parse or is not a valid event.
Reject(q) ==
  /\ Classify(win, q) \in Accepted
  /\ ~Valid(q)
  /\ win' = Record(win, q)
  /\ Quarantine
  /\ UNCHANGED <<first, synced, snap, healthSeen, publisher, crashes>>

\* _health: the record is spooled, or quarantined when it is not valid.
Health(n) ==
  /\ n > healthSeen
  /\ healthSeen' = n
  /\ Quarantine
  /\ UNCHANGED <<first, synced, win, snap, publisher, crashes>>

\* Spool.sync, after appended; without an fsync when nothing was appended.
Sync(appended) ==
  /\ synced'  = Len(log')
  /\ durable' = IF dirty \/ appended THEN Len(log') ELSE durable
  /\ dirty'   = FALSE

\* housekeeping: an expired reassembly may be quarantined, the spool is synced
\* and once a second the filter is written.
Housekeeping ==
  /\ \/ UNCHANGED log /\ Sync(FALSE)
     \/ ~Full /\ Len(log) < MaxLog /\ log' = Append(log, Other) /\ Sync(TRUE)
  /\ snap' \in {snap, [pos |-> Len(log'), win |-> win]}
  /\ UNCHANGED <<first, win, healthSeen, publisher, crashes>>

-----------------------------------------------------------------------------
(***************************************************************************)
(* The publisher thread and the broker                                     *)
(***************************************************************************)

\* Mutations of Produce: it reads to the end of the spool; it leaves the last record.
ProduceToEnd ==
  /\ pc = "pump" /\ ~failed
  /\ readPos < Len(log)
  /\ readPos' = Len(log)
  /\ UNCHANGED <<spool, filter, pc, cursor, cursorFile, written, acked, failed, copies,
                 faults, crashes>>

ProduceAllButLast ==
  /\ pc = "pump" /\ ~failed
  /\ readPos < synced - 1
  /\ readPos' = synced - 1
  /\ UNCHANGED <<spool, filter, pc, cursor, cursorFile, written, acked, failed, copies,
                 faults, crashes>>

\* Spool.read: what is synced and not read yet.
Unread == readPos + 1 .. synced

\* pump: everything that is synced and not yet read goes to the producer.
Produce ==
  /\ pc = "pump" /\ ~failed
  /\ Unread # {}
  /\ readPos' = Max(Unread)
  /\ UNCHANGED <<spool, filter, pc, cursor, cursorFile, written, acked, failed, copies,
                 faults, crashes>>

\* The broker stores a message of the round, which it may then fail to report;
\* flush gives it time after the round has failed, too.
Store(i) ==
  /\ i \in cursor + 1 .. readPos /\ i \notin written
  /\ written' = written \cup {i}
  /\ copies'  = [copies EXCEPT ![i] = @ + 1]
  /\ UNCHANGED <<spool, filter, pc, cursor, cursorFile, readPos, acked, failed, faults, crashes>>

\* A mutation of Prefix: the cursor goes to the highest acknowledged position.
PrefixHighest(done) == Max(done \cup {cursor})

\* The end of the contiguous prefix of acknowledged positions.
Prefix(done) ==
  CHOOSE c \in cursor .. readPos :
    cursor + 1 .. c \subseteq done /\ c + 1 \notin done

\* poll runs the delivery callbacks of reported; then the cursor advances, and
\* it is persisted when nothing is in flight or 0.2 seconds have passed.
Poll(reported) ==
  LET done == acked \cup reported
      to   == Prefix(done)
  IN  /\ pc = "pump"
      /\ cursor' = to
      /\ acked'  = {i \in done : i > to}
      /\ \/ pc' = "persist" /\ to > cursor
         \/ pc' = "pump" /\ ~(to > cursor /\ to = readPos)
      /\ UNCHANGED <<spool, filter, cursorFile, readPos, written, copies, crashes>>

PollDelivered(reported) ==
  /\ ~failed
  /\ reported # {}
  /\ Poll(reported)
  /\ UNCHANGED <<failed, faults>>

\* The same with a message that timed out, stored or not.
PollFailed(reported) ==
  /\ ~failed
  /\ faults.failures < MaxFailures
  /\ (cursor + 1 .. readPos) \ (acked \cup reported) # {}
  /\ Poll(reported)
  /\ failed' = TRUE
  /\ faults' = [faults EXCEPT !.failures = @ + 1]

\* write_position
Persist ==
  /\ pc = "persist"
  /\ cursorFile' = cursor
  /\ pc' = "release"
  /\ UNCHANGED <<spool, filter, cursor, readPos, written, acked, failed, copies, faults, crashes>>

\* write_position raises, which ends the round.
PersistError ==
  /\ pc = "persist"
  /\ faults.errors < MaxErrors
  /\ faults' = [faults EXCEPT !.errors = @ + 1]
  /\ pc' = "down"
  /\ UNCHANGED <<spool, filter, cursor, cursorFile, readPos, written, acked, failed, copies, crashes>>

\* A mutation of Oldest: the segment before the one of pos is kept as well.
OldestLate(pos) == Max({first, Min({Segment(pos) - 1, Segment(Len(log))})})

\* Spool.release: the segments before the one of pos go, but not the active one.
Oldest(pos) == Max({first, Min({Segment(pos), Segment(Len(log))})})

\* pump, after write_position
Release ==
  /\ pc = "release"
  /\ first' = Oldest(cursor)
  /\ pc' = "pump"
  /\ UNCHANGED <<log, synced, dirty, durable, filter, cursor, cursorFile, readPos, written,
                 acked, failed, copies, faults, crashes>>

\* A mutation of EndRound: a round with messages outstanding is given up, too.
EndRoundPending ==
  /\ pc = "pump" /\ (failed \/ cursor < readPos)
  /\ pc' = "down"
  /\ UNCHANGED <<spool, filter, cursor, cursorFile, readPos, written, acked, failed, copies,
                 faults, crashes>>

\* The round raises at the top of the loop and the producer is given up.
EndRound ==
  /\ pc = "pump" /\ failed
  /\ pc' = "down"
  /\ UNCHANGED <<spool, filter, cursor, cursorFile, readPos, written, acked, failed, copies,
                 faults, crashes>>

\* run: a new producer resends from the cursor.
NewRound ==
  /\ pc = "down"
  /\ pc' = "pump"
  /\ readPos' = cursor
  /\ written' = {} /\ acked' = {} /\ failed' = FALSE
  /\ UNCHANGED <<spool, filter, cursor, cursorFile, copies, faults, crashes>>

-----------------------------------------------------------------------------
(***************************************************************************)
(* Crash and restart                                                       *)
(***************************************************************************)

\* _restore_dedup marks the events it reads and passes over everything else.
Replayed(s, rec) == IF rec = Other THEN s ELSE Record(s, rec)

\* A mutation of Restored: the replay starts one record late.
RestoredLate(kept) ==
  LET start == Max({first * SegCap, snap.pos})
  IN  FoldLeft(Replayed, snap.win, SubSeq(kept, start + 2, Len(kept)))

\* _restore_dedup: the snapshot and the records spooled after it.
Restored(kept) ==
  LET start == Max({first * SegCap, snap.pos})
  IN  FoldLeft(Replayed, snap.win, SubSeq(kept, start + 1, Len(kept)))

\* What Spool finds when it opens: a loss of power takes a tail that was not
\* synced, and the valid prefix that is left is taken for synced.
Recover(kind) ==
  \E n \in durable .. Len(log) :
    /\ kind = "process" => n = Len(log)
    /\ log'     = SubSeq(log, 1, n)
    /\ durable' = IF kind = "power" THEN n ELSE durable
    /\ synced'  = n
    /\ dirty'   = FALSE

\* The process ends and starts again: the filter is restored, and the publisher
\* resumes from the cursor's file.
Restart(kind) ==
  /\ \E plan \in CrashPlans : IsPrefix(Append(crashes, kind), plan)
  /\ crashes' = Append(crashes, kind)
  /\ Recover(kind)
  /\ win' = Restored(log')
  /\ healthSeen' = -1
  /\ pc' = "pump"
  /\ cursor' = cursorFile
  /\ readPos' = cursorFile
  /\ written' = {} /\ acked' = {} /\ failed' = FALSE
  /\ UNCHANGED <<first, snap, cursorFile, copies, faults>>

Deliver ==
  \/ \E q \in Seqs : Accept(q) \/ Reject(q)
  \/ \E n \in 0 .. MaxHealth - 1 : Health(n)

Publish ==
  \/ Produce
  \/ \E reported \in SUBSET (written \ acked) : PollDelivered(reported) \/ PollFailed(reported)
  \/ Persist
  \/ PersistError
  \/ Release
  \/ EndRound
  \/ NewRound

Next ==
  \/ Deliver
  \/ Housekeeping
  \/ Publish
  \/ \E i \in 1 .. MaxLog : Store(i)
  \/ \E kind \in {"process", "power"} : Restart(kind)

Spec == Init /\ [][Next]_vars

\* The main loop runs housekeeping at least every 0.1 seconds, the publisher
\* thread loops, and the broker comes back: it stores what it was sent and says so.
Fairness ==
  /\ WF_vars(Housekeeping)
  /\ WF_vars(Produce)
  /\ WF_vars(\E i \in 1 .. MaxLog : Store(i))
  /\ WF_vars(PollDelivered(written \ acked))
  /\ WF_vars(Persist)
  /\ WF_vars(Release)
  /\ WF_vars(EndRound)
  /\ WF_vars(NewRound)

FairSpec == Spec /\ Fairness

-----------------------------------------------------------------------------
(***************************************************************************)
(* Properties                                                              *)
(***************************************************************************)

Positions == 0 .. MaxLog

\* Every variable has its type.
TypeOK ==
  /\ log \in Seq(Seqs \cup {Other}) /\ Len(log) <= MaxLog
  /\ first \in Nat /\ synced \in Positions /\ durable \in Positions /\ dirty \in BOOLEAN
  /\ win \in StreamState /\ healthSeen \in -1 .. MaxHealth - 1
  /\ snap \in [pos: Positions, win: StreamState]
  /\ pc \in {"pump", "persist", "release", "down"}
  /\ cursor \in Positions /\ cursorFile \in Positions /\ readPos \in Positions
  /\ written \subseteq 1 .. MaxLog /\ acked \subseteq 1 .. MaxLog /\ failed \in BOOLEAN
  /\ copies \in [1 .. MaxLog -> Nat]
  /\ faults \in [failures: 0 .. MaxFailures, errors: 0 .. MaxErrors]

\* Nothing is skipped: the cursor, in memory or in its file, only passes what the
\* broker has stored, and a segment is deleted only when the cursor file, from
\* which the next process resumes, is past it (publisher.py, pump).
NeverSkipped ==
  /\ first * SegCap <= cursorFile /\ cursorFile <= cursor /\ cursor <= readPos
  /\ \A i \in 1 .. cursor : copies[i] > 0

\* What was published stays in the spool through a loss of power: the broker
\* never holds a record that the receiver could forget having accepted.
PublishedIsDurable ==
  \A i \in 1 .. MaxLog : copies[i] > 0 => i <= durable

\* Between snapshot, replay, release and the window's own forgetting, a record
\* that is in the spool is never accepted again (core.py, _restore_dedup).
SpoolIsRemembered ==
  \A i \in first * SegCap + 1 .. Len(log) :
    log[i] # Other => Classify(win, log[i]) \notin Accepted

\* The other direction: a number is remembered only when its record is in the
\* spool, or was invalid.  Otherwise a record that was never stored, for want of
\* space or because a crash took it, would be suppressed as its own duplicate.
RememberedIsSpooled ==
  \A q \in Window(win) :
    win.bits[Slot(q)] => q \in Malformed \/ \E i \in DOMAIN log : log[i] = q

\* Both directions: the filter and the spool agree after every accept, release and restart
\* (core.py, _event and _restore_dedup).
FilterMatchesSpool == SpoolIsRemembered /\ RememberedIsSpooled

\* A record is stored by the broker again only after a fault: each failed round,
\* failed write of the cursor and crash costs at most one more copy.
ResentOnlyAfterFault ==
  \A i \in 1 .. MaxLog : copies[i] <= 1 + faults.failures + faults.errors + Len(crashes)

\* The byte limit holds whatever the two threads do.
SpoolIsBounded == Len(log) - first * SegCap <= MaxRecs

\* Every record that survives in the spool reaches the broker.
SpooledIsPublished ==
  \A i \in 1 .. MaxLog : (i <= durable) ~> (copies[i] > 0)

\* A full spool does not stay full while no restart and no failing write comes
\* between persisting the cursor and releasing the segments before it.
Interrupted == crashes # << >> \/ faults.errors > 0
SpaceFreesUninterrupted == Full ~> (~Full \/ Interrupted)

\* A full spool does not stay full: "a redundant copy may still be accepted once
\* space frees" (core.py:162).
SpaceFrees == Full ~> ~Full

=============================================================================
