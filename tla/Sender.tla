------------------------------- MODULE Sender -------------------------------
(***************************************************************************)
(* The sender, the one-way link and the receiver's duplicate filter.  The  *)
(* sender reads Zeek's log lines, by following files (tail.py) or by       *)
(* replaying finished runs (replay.py), gives each a sequence number and   *)
(* sends it; it persists its state now and then (state.py) and a crash     *)
(* takes it back to what was persisted.  The link loses, repeats and       *)
(* reorders; there is no answer.                                           *)
(*                                                                         *)
(* The files of a directory are numbered in the order of their names, and  *)
(* the runs in the order of theirs.                                        *)
(***************************************************************************)
EXTENDS SequenceWindow, FiniteSetsExt, Sequences

CONSTANTS
  Modes,        \* SENDER_MODE: a subset of {"tail", "replay"}
  Files,        \* the log files that tail follows: 1 .. n
  MaxLines,     \* bound on the lines that Zeek writes to a file
  MaxReplaced,  \* bound on the files that are replaced or truncated
  LinesPerPass, \* MAX_LINES_PER_FILE_PASS
  Total,        \* the number of records of each replay run, a function on 1 .. n
  PersistEvery, \* SENDER_PERSIST_EVERY
  Skipped,      \* the lines that are blank, comments or not UTF-8
  Rejected,     \* the lines that the normalizer or the link's size limit rejects
  MaxCompleted, \* MAX_COMPLETED_RUNS
  MaxNumbers,   \* bound on the numbers that runs reserve
  MaxCrashes    \* bound on the crashes

ASSUME SenderAssumption ==
  /\ Modes \subseteq {"tail", "replay"}
  /\ MaxLines \in Nat /\ MaxReplaced \in Nat /\ MaxNumbers \in Nat /\ MaxCrashes \in Nat
  /\ LinesPerPass \in Nat \ {0} /\ PersistEvery \in Nat \ {0} /\ MaxCompleted \in Nat \ {0}
  /\ Cardinality(Files) \in Nat \ {0} /\ Files = 1 .. Cardinality(Files)
  /\ DOMAIN Total \subseteq Nat \ {0} /\ IsFiniteSet(DOMAIN Total)
  /\ \A r \in DOMAIN Total : Total[r] \in Nat

Runs == DOMAIN Total

VARIABLES
  mode,      \* SENDER_MODE
  files,     \* of each file: which content it has, and how many lines are written
  dirs,      \* of each run: absent, done (its .done file exists) or gone
  mem,       \* SenderState: sequence numbers, offsets and the replay's progress
  disk,      \* the state as it was last saved
  sinceSave, \* the records sent since then
  pc,        \* where the sending thread is
  pass,      \* tail: the file the pass is at, the lines it took, whether any were taken
  sent,      \* the records put on the link, with their numbers
  win,       \* the receiver's window for this sensor boot
  accepted,  \* the records that the receiver accepted
  forgotten, \* history: the runs that fell off the list of completed ones
  crashes

input    == <<mode, files, dirs>>
state    == <<mem, disk, sinceSave>>
receiver == <<win, accepted>>
history  == <<forgotten, crashes>>
vars     == <<input, state, pc, pass, sent, receiver, history>>

NoRun == [id |-> 0, base |-> 0, next |-> 0]
Line(f, content, n) == [from |-> f, content |-> content, n |-> n]
Item(r, i) == [from |-> r, content |-> 0, n |-> i]
NewPass == [at |-> Min(Files), lines |-> 0, progressed |-> FALSE]

Init ==
  /\ mode \in Modes
  /\ files = [f \in Files |-> [content |-> 1, count |-> 0]]
  /\ dirs = [r \in Runs |-> "absent"]
  /\ mem = [next |-> 0, content |-> [f \in Files |-> 0], offset |-> [f \in Files |-> 0],
            run |-> NoRun, completed |-> << >>]
  /\ disk = mem
  /\ sinceSave = 0
  /\ pc = IF mode = "tail" THEN "file" ELSE "idle"
  /\ pass = NewPass
  /\ sent = {} /\ win = EmptyStream /\ accepted = {}
  /\ forgotten = {} /\ crashes = 0

-----------------------------------------------------------------------------
(***************************************************************************)
(* Zeek and the operator, outside of the program                           *)
(***************************************************************************)

WriteLine(f) ==
  /\ mode = "tail"
  /\ files[f].count < MaxLines
  /\ files' = [files EXCEPT ![f].count = @ + 1]
  /\ UNCHANGED <<mode, dirs, state, pc, pass, sent, receiver, history>>

Replace(f) ==
  /\ mode = "tail"
  /\ files[f].count > 0
  /\ MapThenSumSet(LAMBDA g : files[g].content - 1, Files) < MaxReplaced
  /\ files' = [files EXCEPT ![f] = [content |-> @.content + 1, count |-> 1]]
  /\ UNCHANGED <<mode, dirs, state, pc, pass, sent, receiver, history>>

FinishRun(r) ==
  /\ mode = "replay" /\ dirs[r] = "absent"
  /\ dirs' = [dirs EXCEPT ![r] = "done"]
  /\ UNCHANGED <<mode, files, state, pc, pass, sent, receiver, history>>

RemoveRun(r) ==
  /\ mode = "replay" /\ dirs[r] = "done"
  /\ dirs' = [dirs EXCEPT ![r] = "gone"]
  /\ UNCHANGED <<mode, files, state, pc, pass, sent, receiver, history>>

-----------------------------------------------------------------------------
(***************************************************************************)
(* The two modes                                                           *)
(***************************************************************************)

\* send_record: a rejected record leaves its number unused.
Put(seq, line) == sent' = IF line \in Rejected THEN sent ELSE sent \cup {[seq |-> seq, line |-> line]}

\* SenderState.save, when persist_every records have been sent.
Save(at, after) ==
  /\ pc = at
  /\ disk' = mem
  /\ sinceSave' = 0
  /\ pc' = after
  /\ UNCHANGED <<input, mem, pass, sent, receiver, history>>

NextFile == [at |-> pass.at + 1, lines |-> 0, progressed |-> pass.progressed \/ pass.lines > 0]

\* A mutation of OpenFile: a replaced file is read on from the old offset.
OpenFileReplaced ==
  LET f == pass.at
  IN  /\ pc = "file" /\ f \in Files
      /\ mem' = [mem EXCEPT !.content[f] = files[f].content]
      /\ IF files[f].count > mem.offset[f]
           THEN pc' = "read" /\ UNCHANGED pass
           ELSE pass' = NextFile /\ UNCHANGED pc
      /\ UNCHANGED <<input, disk, sinceSave, sent, receiver, history>>

\* pass_once at a file: an empty one is passed over, a replaced one is read from
\* its beginning, one with nothing new is left.
OpenFile ==
  LET f     == pass.at
      known == mem.content[f] = files[f].content
      from  == IF known THEN mem.offset[f] ELSE 0
  IN  /\ pc = "file" /\ f \in Files
      /\ IF files[f].count = 0
           THEN UNCHANGED mem
           ELSE mem' = [mem EXCEPT !.content[f] = files[f].content, !.offset[f] = from]
      /\ IF files[f].count > from
           THEN pc' = "read" /\ UNCHANGED pass
           ELSE pass' = NextFile /\ UNCHANGED pc
      /\ UNCHANGED <<input, disk, sinceSave, sent, receiver, history>>

\* A mutation of Readable: the last line waits for the next one.
ReadableButLast(f) ==
  /\ pass.lines < LinesPerPass
  /\ mem.content[f] = files[f].content
  /\ mem.offset[f] + 1 < files[f].count

\* The file has a line to read, and is not replaced under the reader.
Readable(f) ==
  /\ pass.lines < LinesPerPass
  /\ mem.content[f] = files[f].content
  /\ mem.offset[f] < files[f].count

\* _handle: the line is sent under the next number, which is saved, if it is time,
\* before the offset of the line is taken over.
HandleLine ==
  LET f    == pass.at
      line == Line(f, mem.content[f], mem.offset[f] + 1)
  IN  /\ pc = "read" /\ Readable(f)
      /\ IF line \in Skipped
           THEN pc' = "offset" /\ UNCHANGED <<mem, sinceSave, sent>>
           ELSE /\ Put(mem.next, line)
                /\ mem' = [mem EXCEPT !.next = @ + 1]
                /\ sinceSave' = sinceSave + 1
                /\ pc' = IF sinceSave' >= PersistEvery THEN "save_offset" ELSE "offset"
      /\ UNCHANGED <<input, disk, pass, receiver, history>>

\* _read_lines after _handle
Advance ==
  /\ pc = "offset"
  /\ mem' = [mem EXCEPT !.offset[pass.at] = @ + 1]
  /\ pass' = [pass EXCEPT !.lines = @ + 1]
  /\ pc' = "read"
  /\ UNCHANGED <<input, disk, sinceSave, sent, receiver, history>>

CloseFile ==
  /\ pc = "read" /\ ~Readable(pass.at)
  /\ pass' = NextFile
  /\ pc' = "file"
  /\ UNCHANGED <<input, state, sent, receiver, history>>

\* run: a pass without progress saves what is unsaved, and waits.
EndPass ==
  /\ pc = "file" /\ pass.at \notin Files
  /\ IF ~pass.progressed /\ sinceSave > 0
       THEN disk' = mem /\ sinceSave' = 0
       ELSE UNCHANGED <<disk, sinceSave>>
  /\ pass' = NewPass
  /\ UNCHANGED <<input, mem, pc, sent, receiver, history>>

\* Mutations of BeginRun: the run's numbers are not reserved; a resumed run takes
\* new ones.
BeginRunUnreserved ==
  LET candidates == {r \in Runs : dirs[r] = "done" /\ r \notin Range(mem.completed)}
  IN  /\ pc = "idle" /\ mode = "replay"
      /\ \/ mem.run # NoRun /\ dirs[mem.run.id] = "done" /\ UNCHANGED <<mem, disk>>
         \/ /\ mem.run = NoRun /\ candidates # {}
            /\ mem' = [mem EXCEPT !.run = [id |-> Min(candidates), base |-> mem.next, next |-> 0]]
            /\ disk' = mem'
      /\ sinceSave' = 0
      /\ pc' = "item"
      /\ UNCHANGED <<input, pass, sent, receiver, history>>

BeginRunAgain ==
  LET candidates == {r \in Runs : dirs[r] = "done" /\ r \notin Range(mem.completed)}
  IN  /\ pc = "idle" /\ mode = "replay" /\ candidates # {}
      /\ mem.next + Total[Min(candidates)] <= MaxNumbers
      /\ mem' = [mem EXCEPT !.run = [id |-> Min(candidates), base |-> mem.next, next |-> 0],
                            !.next = @ + Total[Min(candidates)]]
      /\ disk' = mem'
      /\ sinceSave' = 0
      /\ pc' = "item"
      /\ UNCHANGED <<input, pass, sent, receiver, history>>

\* next_run and the first half of replay: the run in progress is resumed; else the
\* first finished one reserves its numbers, which is saved before any is used.
BeginRun ==
  LET candidates == {r \in Runs : dirs[r] = "done" /\ r \notin Range(mem.completed)}
      fresh == Min(candidates)
  IN  /\ pc = "idle" /\ mode = "replay"
      /\ \/ /\ mem.run # NoRun /\ dirs[mem.run.id] = "done"
            /\ UNCHANGED <<mem, disk>>
         \/ /\ mem.run = NoRun /\ candidates # {}
            /\ mem.next + Total[fresh] <= MaxNumbers
            /\ mem' = [mem EXCEPT !.run = [id |-> fresh, base |-> mem.next, next |-> 0],
                                  !.next = @ + Total[fresh]]
            /\ disk' = mem'
      /\ sinceSave' = 0
      /\ pc' = "item"
      /\ UNCHANGED <<input, pass, sent, receiver, history>>

\* The n last elements of a sequence.
Latest(seq, n) == IF Len(seq) <= n THEN seq ELSE SubSeq(seq, Len(seq) - n + 1, Len(seq))

\* A mutation of MarkCompleted: the list is shorter by one than it should be.
MarkCompletedShort(completed, r) == Latest(Append(completed, r), MaxCompleted - 1)

\* mark_completed: the list keeps the runs marked last, and forgets the others.
MarkCompleted(completed, r) == Latest(Append(completed, r), MaxCompleted)

\* The run in progress is over, and may push the oldest one out of the list.
EndRun ==
  /\ mem' = [mem EXCEPT !.run = NoRun, !.completed = MarkCompleted(@, mem.run.id)]
  /\ forgotten' = forgotten \cup (Range(mem.completed) \ Range(mem'.completed))

\* next_run, when the directory of the run in progress has disappeared.
AbandonRun ==
  /\ pc = "idle" /\ mode = "replay"
  /\ mem.run # NoRun /\ dirs[mem.run.id] = "gone"
  /\ EndRun
  /\ disk' = mem'
  /\ UNCHANGED <<input, sinceSave, pc, pass, sent, receiver, crashes>>

\* A mutation of HandleItem: the run does not stop at its last record.
HandleItemBeyond ==
  LET run == mem.run
  IN  /\ pc = "item" /\ run.next <= Total[run.id]
      /\ Put(run.base + run.next, Item(run.id, run.next))
      /\ mem' = [mem EXCEPT !.run.next = @ + 1]
      /\ sinceSave' = sinceSave + 1
      /\ pc' = IF sinceSave' >= PersistEvery THEN "save_item" ELSE "item"
      /\ UNCHANGED <<input, disk, pass, receiver, history>>

\* replay: the records of the run under the numbers that are reserved for it.
HandleItem ==
  LET run == mem.run
  IN  /\ pc = "item" /\ run.next < Total[run.id]
      /\ Put(run.base + run.next, Item(run.id, run.next))
      /\ mem' = [mem EXCEPT !.run.next = @ + 1]
      /\ sinceSave' = sinceSave + 1
      /\ pc' = IF sinceSave' >= PersistEvery THEN "save_item" ELSE "item"
      /\ UNCHANGED <<input, disk, pass, receiver, history>>

\* replay, at the end of the run: mark_completed
CompleteRun ==
  /\ pc = "item" /\ mem.run.next = Total[mem.run.id]
  /\ EndRun
  /\ pc' = "save_idle"
  /\ UNCHANGED <<input, disk, sinceSave, pass, sent, receiver, crashes>>

\* load: what was saved is what the next process knows.
Crash ==
  /\ crashes < MaxCrashes
  /\ crashes' = crashes + 1
  /\ mem' = disk
  /\ sinceSave' = 0
  /\ pc' = IF mode = "tail" THEN "file" ELSE "idle"
  /\ pass' = NewPass
  /\ UNCHANGED <<input, disk, sent, receiver, forgotten>>

-----------------------------------------------------------------------------
(***************************************************************************)
(* The link and the receiver                                               *)
(***************************************************************************)

\* A record arrives: any that was sent, in any order, any number of times.
Arrive(m) ==
  /\ win' = Record(win, m.seq)
  /\ accepted' = IF Classify(win, m.seq) \in Accepted THEN accepted \cup {m} ELSE accepted
  /\ UNCHANGED <<input, state, pc, pass, sent, history>>

TailMode ==
  \/ OpenFile
  \/ HandleLine
  \/ Save("save_offset", "offset")
  \/ Advance
  \/ CloseFile
  \/ EndPass

ReplayMode ==
  \/ BeginRun
  \/ AbandonRun
  \/ HandleItem
  \/ Save("save_item", "item")
  \/ CompleteRun
  \/ Save("save_idle", "idle")

Next ==
  \/ \E f \in Files : WriteLine(f) \/ Replace(f)
  \/ \E r \in Runs : FinishRun(r) \/ RemoveRun(r)
  \/ TailMode
  \/ ReplayMode
  \/ Crash
  \/ \E m \in sent : Arrive(m)

Spec == Init /\ [][Next]_vars

\* The sending thread runs while the process does.
FairSpec == Spec /\ WF_vars(TailMode) /\ WF_vars(ReplayMode)

-----------------------------------------------------------------------------
(***************************************************************************)
(* Properties                                                              *)
(***************************************************************************)

\* The values of SenderState.
States ==
  [next: Nat, content: [Files -> Nat], offset: [Files -> 0 .. MaxLines],
   run: [id: Runs \cup {0}, base: Nat, next: Nat],
   completed: Seq(Runs)]

\* Every variable has its type.
TypeOK ==
  /\ mode \in Modes
  /\ files \in [Files -> [content: Nat, count: 0 .. MaxLines]]
  /\ dirs \in [Runs -> {"absent", "done", "gone"}]
  /\ mem \in States /\ disk \in States
  /\ \A run \in {mem.run, disk.run} : IF run.id = 0 THEN run = NoRun ELSE run.next <= Total[run.id]
  /\ Len(mem.completed) <= MaxCompleted /\ Len(disk.completed) <= MaxCompleted
  /\ sinceSave \in 0 .. PersistEvery
  /\ pc \in {"file", "read", "offset", "save_offset", "idle", "item", "save_item", "save_idle"}
  /\ pass.at \in Nat /\ pass.lines \in 0 .. LinesPerPass /\ pass.progressed \in BOOLEAN
  /\ \A m \in sent : m.seq \in Nat
  /\ accepted \subseteq sent /\ win \in StreamState
  /\ forgotten \subseteq Runs /\ crashes \in 0 .. MaxCrashes

\* What the sender owes nothing more.
WasHandled(line) == line \in Skipped \cup Rejected \/ \E m \in sent : m.line = line

\* "any resent records are exact duplicates" (state.py:4): a sequence number
\* stands for one record, whatever is read again after a crash.
ResentIsExactDuplicate ==
  \A a, b \in sent : a.seq = b.seq => a = b

\* Replayed runs keep this, and so does tailing until the process crashes: the
\* reserved ranges of the runs never overlap, and a range is saved before it is used.
NumberMeansOneRecord ==
  mode = "replay" \/ crashes = 0 => ResentIsExactDuplicate

\* The numbers of a record.
Numbers(line) == {a.seq : a \in {b \in sent : b.line = line}}

\* The reverse: a record of a file gets a second number only through a crash, and one
\* more for each; one of a replayed run only when the list has forgotten the run, which
\* is then taken for a new one (replay.py:52-55).
OneNumberPerLife ==
  \A m \in sent :
    IF mode = "tail" THEN Cardinality(Numbers(m.line)) <= 1 + crashes
    ELSE m.line.from \notin forgotten => Numbers(m.line) = {m.seq}

\* No run is forgotten before more runs have finished than the list has room for.
RunsAreRemembered ==
  forgotten # {} => Cardinality({r \in Runs : dirs[r] # "absent"}) > MaxCompleted

\* A number is as good as a record's name (state.py:3-5), as far as the code keeps it so:
\* up to MAX_COMPLETED_RUNS finished runs a replayed record has one number for ever.
NumberingIsSound == NumberMeansOneRecord /\ OneNumberPerLife /\ RunsAreRemembered

\* What is saved as done was done: a restart skips no line of a file and no
\* record of a run that was not put on the link, except those of a run whose
\* directory disappeared.
NothingSkipped ==
  /\ \A f \in Files : \A n \in 1 .. disk.offset[f] : WasHandled(Line(f, disk.content[f], n))
  /\ \A r \in Range(disk.completed) : dirs[r] = "done" =>
       \A i \in 0 .. Total[r] - 1 : WasHandled(Item(r, i))
  /\ \A i \in 0 .. disk.run.next - 1 : WasHandled(Item(disk.run.id, i))

\* Every record that the receiver would suppress as a duplicate was accepted: the
\* resending after a crash costs no record, in whichever order things arrive.
SuppressedWasAccepted ==
  mode = "replay" \/ crashes = 0 =>
    \A m \in sent : Classify(win, m.seq) = Duplicate => m \in accepted

\* A record of a replayed run is accepted once, however often it is sent and whatever
\* crashes, unless the list has forgotten its run.
ReplayAcceptedOnce ==
  mode = "replay" =>
    \A a, b \in accepted : a.line = b.line /\ a.line.from \notin forgotten => a = b

\* Every line of a file that is not replaced is handled.
EveryLineHandled ==
  \A f \in Files, n \in 1 .. MaxLines :
    (mode = "tail" /\ files[f].content = 1 /\ files[f].count >= n)
      ~> (WasHandled(Line(f, 1, n)) \/ files[f].content > 1)

\* Every finished run is replayed to its end (replay.py:1), unless its directory
\* disappears, as long as the list has room: later the sender may go round among the
\* first runs for ever, as each of them pushes out the one that it will take for new next.
RememberedRunsReplayed ==
  \A r \in Runs :
    (mode = "replay" /\ dirs[r] = "done")
      ~> (r \in Range(disk.completed) \/ dirs[r] = "gone" \/ forgotten # {})

\* Neither mode leaves work undone for good (tail.py, replay.py), until runs are forgotten.
WorkIsFinished == EveryLineHandled /\ RememberedRunsReplayed

=============================================================================
