--------------------------- MODULE SenderProofs ---------------------------
(***************************************************************************)
(* What the sender's numbers and its saved state are worth, for any files, *)
(* runs and settings, any number of crashes, and a link that delivers in   *)
(* any order, any number of times or never.                                *)
(*                                                                         *)
(* The five invariants that the run checks follow from one inductive one.  *)
(* It says what was done up to where the state stands, in memory and on    *)
(* disk; in replay mode, that the runs' reserved ranges do not overlap and *)
(* that both states agree about them; in tail mode, that a line not passed *)
(* yet has a number less than the others; and that the window represents   *)
(* the numbers accepted.                                                   *)
(***************************************************************************)
EXTENDS Sender, SequenceWindowProofs, SequenceTheorems

TailPc   == {"file", "read", "offset", "save_offset"}
ReplayPc == {"idle", "item", "save_item", "save_idle"}

\* The parts of the types.
RunType(run) == IF run.id = 0 THEN run = NoRun ELSE run.next <= Total[run.id]

ListType(list) == Len(list) <= MaxCompleted

WorldType ==
  /\ mode \in Modes
  /\ files \in [Files -> [content: Nat, count: 0 .. MaxLines]]
  /\ dirs \in [Runs -> {"absent", "done", "gone"}]

StateType ==
  /\ mem \in States /\ RunType(mem.run) /\ ListType(mem.completed)
  /\ disk \in States /\ RunType(disk.run) /\ ListType(disk.completed)

ThreadType ==
  /\ sinceSave \in 0 .. PersistEvery
  /\ pc \in TailPc \cup ReplayPc
  /\ pass.at \in Nat /\ pass.lines \in 0 .. LinesPerPass /\ pass.progressed \in BOOLEAN
  /\ forgotten \subseteq Runs /\ crashes \in 0 .. MaxCrashes

LinkType == (\A m \in sent : m.seq \in Nat) /\ accepted \subseteq sent /\ win \in StreamState

\* What holds where the thread is: each mode has its loop, the counters have room, and
\* no file is known in a content that was not written yet.
PlaceInv ==
  /\ mode = "tail" => pc \in TailPc /\ mem.run = NoRun /\ disk.run = NoRun
                      /\ mem.completed = << >> /\ disk.completed = << >>
  /\ mode = "replay" => pc \in ReplayPc
  /\ pc \notin {"save_offset", "save_item"} => sinceSave < PersistEvery
  /\ pc \in {"read", "offset", "save_offset"} => pass.at \in Files
  /\ pc \in {"offset", "save_offset"} =>
       pass.lines < LinesPerPass /\ mem.offset[pass.at] < MaxLines
  /\ pc \in {"item", "save_item"} => mem.run.id \in Runs
  /\ \A f \in Files : mem.content[f] <= files[f].content /\ disk.content[f] <= files[f].content

\* The types, with what holds where the thread is.
TypeInv == TypeOK /\ PlaceInv

\* A line is in what was sent, or need not be.
Handled(S, line) == line \in Skipped \cup Rejected \/ \E m \in S : m.line = line

\* What a state s says was done was done, with S sent and D the directories.
Sound(s, S, D) ==
  /\ \A f \in Files : \A n \in 1 .. s.offset[f] : Handled(S, Line(f, s.content[f], n))
  /\ \A r \in Range(s.completed) : D[r] # "absent" /\
       (D[r] = "done" => \A i \in 0 .. Total[r] - 1 : Handled(S, Item(r, i)))
  /\ s.run.id \in Runs => D[s.run.id] # "absent"
  /\ \A i \in 0 .. s.run.next - 1 : Handled(S, Item(s.run.id, i))

\* The line that tail mode has just handled, or will handle next.
HandledLine == Line(pass.at, mem.content[pass.at], mem.offset[pass.at] + 1)

\* Neither state claims what was not done; before its offset is taken over a line is handled.
DoneInv ==
  /\ Sound(mem, sent, dirs) /\ Sound(disk, sent, dirs)
  /\ pc \in {"offset", "save_offset"} => Handled(sent, HandledLine)

\* The first number of the run that m belongs to.
Base(m) == m.seq - m.line.n

\* Replay: both states agree about the numbers and the run in progress, up to the save
\* that its end waits for; the ranges of the runs that were sent do not overlap, and all
\* of them are reserved on disk; a run that was sent is known unless it was forgotten.
ReplayInv ==
  /\ mem.next = disk.next
  /\ \/ /\ mem.run.id = disk.run.id /\ mem.run.base = disk.run.base
        /\ mem.completed = disk.completed
     \/ /\ pc = "save_idle" /\ mem.run = NoRun /\ disk.run.id \in Runs
        /\ disk.run.id \in Range(mem.completed)
        /\ Range(disk.completed) \subseteq Range(mem.completed) \cup forgotten
  /\ disk.run.id \in Runs =>
       disk.run.base + Total[disk.run.id] <= disk.next /\ disk.run.id \notin Range(disk.completed)
  /\ \A m \in sent :
       LET r == m.line.from IN
       /\ r \in Runs /\ m.line.content = 0 /\ m.line.n \in 0 .. Total[r] - 1
       /\ Base(m) + Total[r] <= disk.next
       /\ \/ r \in Range(disk.completed) \cup forgotten
          \/ r = disk.run.id /\ Base(m) = disk.run.base
       /\ disk.run.id \in Runs =>
            \/ r = disk.run.id /\ Base(m) = disk.run.base
            \/ Base(m) + Total[r] <= disk.run.base
  /\ \A a, b \in sent :
       \/ a.line.from = b.line.from /\ Base(a) = Base(b)
       \/ /\ a.line.from = b.line.from => a.line.from \in forgotten
          /\ \/ Base(a) + Total[a.line.from] <= Base(b)
             \/ Base(b) + Total[b.line.from] <= Base(a)

\* The runs that have finished at some time.
Finished == {r \in Runs : dirs[r] # "absent"}

\* No run stands twice in a list, so that a list which is full has as many runs as it has
\* room for.
ListInv == IsInjective(mem.completed) /\ IsInjective(disk.completed) /\ RunsAreRemembered

\* A line the process has not passed yet.
Ahead(line) ==
  LET f == line.from IN
  \/ line.content > mem.content[f]
  \/ /\ line.content = mem.content[f] /\ line.n > mem.offset[f]
     /\ pc \in {"offset", "save_offset"} /\ f = pass.at => line.n > mem.offset[f] + 1

\* Tail: without a crash the numbers go up; a line has a number for each crash, and one
\* more once the process has passed it.
TailInv ==
  /\ \A m \in sent : m.line.from \in Files /\ m.line.content \in Nat /\ m.line.n \in Nat
  /\ crashes = 0 => /\ \A m \in sent : m.seq < mem.next
                    /\ ResentIsExactDuplicate
  /\ \A m \in sent : LET l == m.line IN
       /\ IsFiniteSet(Numbers(l)) /\ Cardinality(Numbers(l)) <= 1 + crashes
       /\ Ahead(l) => Cardinality(Numbers(l)) <= crashes

\* What is put on the link, and the numbers of some of it.
Message == [seq: Nat, line: [from: Nat, content: Nat, n: Nat]]
Seqs(ms) == {m.seq : m \in ms}

\* The receiver's window stands for the numbers accepted.
LinkInv == sent \subseteq Message /\ Represents(win, Seqs(accepted))

\* Each mode has its reason why the numbers are sound.
NumberInv ==
  /\ mode = "tail" => TailInv
  /\ mode = "replay" => ReplayInv

\* The inductive invariant.
IInv == TypeInv /\ DoneInv /\ NumberInv /\ ListInv /\ LinkInv

-----------------------------------------------------------------------------
(***************************************************************************)
(* Operators and types                                                     *)
(***************************************************************************)

\* A set of numbers has a least element.
LEMMA Least ==
  ASSUME NEW S \in SUBSET Nat, S # {}
  PROVE  Min(S) \in S
<1> DEFINE R == OpToRel(<, Nat)
<1>1. IsWellFoundedOn(R, Nat)
  BY NatLessThanWellFounded
<1>2. \A x, y \in Nat : y < x => <<y, x>> \in R
  BY DEF OpToRel
<1> HIDE DEF R
<1>3. \E x \in S : \A y \in S : ~(<<y, x>> \in R)
  BY <1>1, WFMin
<1>4. \A x, y \in S : ~(<<y, x>> \in R) => x =< y
  <2>1. \A x, y \in Nat : ~(y < x) => x =< y
    OBVIOUS
  <2> QED
    BY <1>2, <2>1, Zenon
<1>5. \E x \in S : \A y \in S : x =< y
  BY <1>3, <1>4, Zenon
<1> QED
  BY <1>5, Zenon DEF Min

\* A pass begins at a file.
LEMMA FirstFile ==
  /\ NewPass.at \in Files /\ NewPass.at \in Nat /\ NewPass.lines = 0
  /\ NewPass.progressed \in BOOLEAN
<1>1. Files \in SUBSET Nat /\ Files # {}
  BY SenderAssumption
<1>2. Min(Files) \in Files
  BY <1>1, Least
<1>3. FALSE \in BOOLEAN
  OBVIOUS
<1> QED BY <1>1, <1>2, <1>3 DEF NewPass

\* TypeOK, part by part.
LEMMA TypeParts == TypeOK <=> WorldType /\ StateType /\ ThreadType /\ LinkType
<1>1. (\A run \in {mem.run, disk.run} : RunType(run)) <=> RunType(mem.run) /\ RunType(disk.run)
  OBVIOUS
<1> QED
  BY <1>1, Zenon
     DEF TypeOK, WorldType, StateType, ThreadType, LinkType, RunType, ListType, TailPc, ReplayPc

\* The mode decides which of the two loops runs.
LEMMA TwoModes ==
  ASSUME WorldType, ThreadType, PlaceInv
  PROVE  /\ mode \in {"tail", "replay"}
         /\ pc \in TailPc => mode = "tail"
         /\ pc \in ReplayPc => mode = "replay"
BY SenderAssumption DEF WorldType, PlaceInv, TailPc, ReplayPc

\* A state and its fields.
LEMMA StateFields ==
  ASSUME NEW s \in States
  PROVE  /\ s.next \in Nat /\ s.content \in [Files -> Nat] /\ s.offset \in [Files -> 0 .. MaxLines]
         /\ s.run \in [id: Runs \cup {0}, base: Nat, next: Nat] /\ s.completed \in Seq(Runs)
         /\ s.run.id \in Runs \cup {0} /\ s.run.base \in Nat /\ s.run.next \in Nat
BY DEF States

\* No run is in progress.
LEMMA NoRunType == NoRun \in [id: Runs \cup {0}, base: Nat, next: Nat] /\ NoRun.id = 0
                   /\ NoRun.base = 0 /\ NoRun.next = 0 /\ RunType(NoRun)
BY DEF NoRun, RunType

-----------------------------------------------------------------------------
(***************************************************************************)
(* What the steps of the sending thread do to its state                    *)
(***************************************************************************)

\* The file is read on, or from its beginning when its content is another.
LEMMA OpenFileDoes ==
  ASSUME TypeInv, OpenFile
  PROVE  LET f == pass.at IN
         /\ f \in Files /\ mem' \in States
         /\ mem'.next = mem.next /\ mem'.run = mem.run /\ mem'.completed = mem.completed
         /\ \A g \in Files \ {f} :
              mem'.content[g] = mem.content[g] /\ mem'.offset[g] = mem.offset[g]
         /\ \/ mem'.content[f] = mem.content[f] /\ mem'.offset[f] = mem.offset[f]
            \/ /\ mem'.content[f] = files[f].content /\ mem'.offset[f] = 0
               /\ mem.content[f] # files[f].content
<1> DEFINE f == pass.at
           from == IF mem.content[f] = files[f].content THEN mem.offset[f] ELSE 0
<1>0. f \in Files /\ mem \in States /\ files[f].content \in Nat
  BY TypeParts DEF OpenFile, TypeInv, StateType, WorldType
<1> USE StateFields
<1>1. CASE files[f].count = 0
  BY <1>0, <1>1 DEF OpenFile
<1>2. CASE files[f].count # 0
  <2>1. mem' = [mem EXCEPT !.content[f] = files[f].content, !.offset[f] = from]
    BY <1>2 DEF OpenFile
  <2> DEFINE c == [mem.content EXCEPT ![f] = files[f].content]
             o == [mem.offset EXCEPT ![f] = from]
  <2>2. c \in [Files -> Nat] /\ o \in [Files -> 0 .. MaxLines]
    BY <1>0, SenderAssumption
  <2>3. mem' = [next |-> mem.next, content |-> c, offset |-> o, run |-> mem.run,
                completed |-> mem.completed]
    BY <1>0, <2>1 DEF States
  <2>4. /\ mem' \in States /\ mem'.next = mem.next /\ mem'.run = mem.run
        /\ mem'.completed = mem.completed /\ mem'.content = c /\ mem'.offset = o
    BY <1>0, <2>2, <2>3 DEF States
  <2>5. \A g \in Files \ {f} : c[g] = mem.content[g] /\ o[g] = mem.offset[g]
    BY <1>0
  <2>6. c[f] = files[f].content /\ o[f] = from
    BY <1>0
  <2> HIDE DEF c, o
  <2> QED BY <1>0, <2>4, <2>5, <2>6
<1> QED BY <1>1, <1>2

\* A line takes a number, unless it is not to be sent at all.
LEMMA HandleLineDoes ==
  ASSUME TypeInv, HandleLine
  PROVE  LET f == pass.at IN
         /\ f \in Files /\ mem' \in States
         /\ mem'.content = mem.content /\ mem'.offset = mem.offset
         /\ mem'.run = mem.run /\ mem'.completed = mem.completed
         /\ \/ /\ HandledLine \in Skipped \cup Rejected
               /\ mem'.next \in {mem.next, mem.next + 1} /\ sent' = sent
            \/ /\ mem'.next = mem.next + 1
               /\ sent' = sent \cup {[seq |-> mem.next, line |-> HandledLine]}
<1> DEFINE f == pass.at
<1>0. f \in Files /\ mem \in States
  BY TypeParts DEF HandleLine, TypeInv, PlaceInv, StateType
<1>1. CASE HandledLine \in Skipped
  BY <1>0, <1>1 DEF HandleLine, HandledLine
<1>2. CASE HandledLine \notin Skipped
  <2>1. mem' = [mem EXCEPT !.next = @ + 1] /\ Put(mem.next, HandledLine)
    BY <1>2 DEF HandleLine, HandledLine
  <2>2. mem' = [next |-> mem.next + 1, content |-> mem.content, offset |-> mem.offset,
                run |-> mem.run, completed |-> mem.completed]
    BY <1>0, <2>1 DEF States
  <2>3. /\ mem' \in States /\ mem'.next = mem.next + 1 /\ mem'.run = mem.run
        /\ mem'.completed = mem.completed /\ mem'.content = mem.content /\ mem'.offset = mem.offset
    BY <1>0, <2>2, StateFields DEF States
  <2> QED BY <1>0, <2>1, <2>3 DEF Put
<1> QED BY <1>1, <1>2

\* The offset takes the handled line over.
LEMMA AdvanceDoes ==
  ASSUME TypeInv, Advance
  PROVE  LET f == pass.at IN
         /\ f \in Files /\ mem' \in States
         /\ mem'.next = mem.next /\ mem'.content = mem.content
         /\ mem'.run = mem.run /\ mem'.completed = mem.completed
         /\ mem'.offset = [mem.offset EXCEPT ![f] = mem.offset[f] + 1]
<1> DEFINE f == pass.at
<1>0. f \in Files /\ mem \in States /\ mem.offset[f] < MaxLines
  BY TypeParts DEF Advance, TypeInv, PlaceInv, StateType
<1> DEFINE o == [mem.offset EXCEPT ![f] = mem.offset[f] + 1]
<1>1. o \in [Files -> 0 .. MaxLines]
  BY <1>0, SenderAssumption, StateFields
<1>2. mem' = [mem EXCEPT !.offset[f] = @ + 1]
  BY DEF Advance
<1>3. mem' = [next |-> mem.next, content |-> mem.content, offset |-> o, run |-> mem.run,
              completed |-> mem.completed]
  BY <1>0, <1>2 DEF States
<1> HIDE DEF o
<1>4. /\ mem' \in States /\ mem'.next = mem.next /\ mem'.run = mem.run
      /\ mem'.completed = mem.completed /\ mem'.content = mem.content /\ mem'.offset = o
  BY <1>0, <1>1, <1>3, StateFields DEF States
<1> QED BY <1>0, <1>4 DEF o

\* A run is resumed, or begins with its numbers reserved and saved.
LEMMA BeginRunDoes ==
  ASSUME TypeInv, BeginRun
  PROVE  /\ pc = "idle" /\ mem' \in States
         /\ mem'.content = mem.content /\ mem'.offset = mem.offset /\ mem'.completed = mem.completed
         /\ \/ mem' = mem /\ disk' = disk /\ mem.run.id \in Runs
            \/ /\ mem.run = NoRun /\ disk' = mem'
               /\ mem'.run.id \in Runs \ Range(mem.completed) /\ dirs[mem'.run.id] = "done"
               /\ mem'.run.base = mem.next /\ mem'.run.next = 0
               /\ mem'.next = mem.next + Total[mem'.run.id]
<1>0. mem \in States /\ RunType(mem.run)
  BY TypeParts DEF TypeInv, StateType
<1> USE StateFields
<1>1. CASE mem.run # NoRun /\ mem' = mem /\ disk' = disk
  BY <1>0, <1>1 DEF BeginRun, RunType
<1> DEFINE candidates == {r \in Runs : dirs[r] = "done" /\ r \notin Range(mem.completed)}
           fresh == Min(candidates)
<1>2. CASE /\ mem.run = NoRun /\ candidates # {} /\ disk' = mem'
           /\ mem' = [mem EXCEPT !.run = [id |-> fresh, base |-> mem.next, next |-> 0],
                                 !.next = @ + Total[fresh]]
  <2>1. fresh \in candidates
    <3>1. candidates \in SUBSET Nat
      BY SenderAssumption DEF Runs
    <3> HIDE DEF candidates
    <3> QED BY <1>2, <3>1, Least
  <2>2. fresh \in Runs \ Range(mem.completed) /\ dirs[fresh] = "done" /\ Total[fresh] \in Nat
    BY <2>1, SenderAssumption DEF Runs
  <2> HIDE DEF fresh
  <2> DEFINE run == [id |-> fresh, base |-> mem.next, next |-> 0]
  <2>3. run \in [id: Runs \cup {0}, base: Nat, next: Nat] /\ mem.next + Total[fresh] \in Nat
    BY <1>0, <2>2
  <2>4. mem' = [next |-> mem.next + Total[fresh], content |-> mem.content, offset |-> mem.offset,
                run |-> run, completed |-> mem.completed]
    BY <1>0, <1>2 DEF States
  <2>5. /\ mem' \in States /\ mem'.next = mem.next + Total[fresh] /\ mem'.run = run
        /\ mem'.completed = mem.completed /\ mem'.content = mem.content /\ mem'.offset = mem.offset
    BY <1>0, <2>3, <2>4 DEF States
  <2> QED BY <1>2, <2>2, <2>5 DEF BeginRun
<1> QED BY <1>1, <1>2 DEF BeginRun

\* A part of a sequence that is not empty.
LEMMA PartOf ==
  ASSUME NEW s \in Seq(Runs), NEW m \in Int, NEW n \in Int, m <= n,
         \A i \in m .. n : s[i] \in Runs
  PROVE  /\ SubSeq(s, m, n) \in Seq(Runs) /\ Len(SubSeq(s, m, n)) = n - m + 1
         /\ \A i \in 1 .. n - m + 1 : SubSeq(s, m, n)[i] = s[m + i - 1]
<1> DEFINE q == SubSeq(s, m, n)
<1>1. /\ q \in Seq(Runs) /\ Len(q) = IF m <= n THEN n - m + 1 ELSE 0
      /\ \A i \in 1 .. n - m + 1 : q[i] = s[m + i - 1]
  BY SubSeqProperties
<1> HIDE DEF q
<1>2. q \in Seq(Runs) /\ Len(q) = n - m + 1
  BY <1>1
<1> QED BY <1>1, <1>2 DEF q

\* What is left of a list when a run is marked: no more than it has room for, the run
\* among it, and all that was there if there was room.
LEMMA Marked ==
  ASSUME NEW c \in Seq(Runs), ListType(c), NEW r \in Runs
  PROVE  LET list == MarkCompleted(c, r) IN
         /\ list \in Seq(Runs) /\ ListType(list)
         /\ r \in Range(list) /\ Range(list) \subseteq Range(c) \cup {r}
         /\ Len(c) < MaxCompleted => Range(c) \subseteq Range(list)
         /\ IsInjective(c) /\ r \notin Range(c) => IsInjective(list)
<1> DEFINE all == Append(c, r)
           n == Len(c)
           k == IF n + 1 <= MaxCompleted THEN 0 ELSE n + 1 - MaxCompleted
           list == MarkCompleted(c, r)
<1>1. /\ all \in Seq(Runs) /\ Len(all) = n + 1 /\ n \in Nat
      /\ (\A i \in 1 .. n : all[i] = c[i]) /\ all[n + 1] = r
  BY AppendProperties, LenProperties
<1>2. MaxCompleted \in Nat \ {0} /\ n <= MaxCompleted
  BY SenderAssumption DEF ListType
<1>3. k \in 0 .. n /\ n + 1 - k <= MaxCompleted /\ (n < MaxCompleted => k = 0)
  BY <1>1, <1>2
<1>4. /\ list \in Seq(Runs) /\ Len(list) = n + 1 - k
      /\ \A i \in 1 .. n + 1 - k : list[i] = all[i + k]
  <2>1. CASE n + 1 <= MaxCompleted
    <3>1. list = all
      <4>1. Len(all) <= MaxCompleted
        BY <1>1, <2>1
      <4> QED BY <4>1, Zenon DEF MarkCompleted, Latest
    <3> QED BY <1>1, <2>1, <3>1
  <2>2. CASE ~(n + 1 <= MaxCompleted)
    <3> DEFINE to == Len(all)
               from == to - MaxCompleted + 1
    <3>0. ~(to <= MaxCompleted) /\ to = n + 1
      BY <1>1, <2>2
    <3>1. list = SubSeq(all, from, to)
      BY <3>0, Zenon DEF MarkCompleted, Latest
    <3>2. from \in 1 .. n + 1 /\ to \in Int /\ from \in Int /\ from <= to
          /\ \A i \in from .. to : all[i] \in Runs
      BY <1>1, <1>2, <3>0
    <3> HIDE DEF all, list, n, from, to
    <3>3. /\ list \in Seq(Runs) /\ Len(list) = to - from + 1
          /\ \A i \in 1 .. to - from + 1 : list[i] = all[from + i - 1]
      BY <1>1, <3>1, <3>2, PartOf, Zenon
    <3>4. k = from - 1 /\ \A i \in 1 .. n + 1 - k : from + i - 1 = i + k
      BY <1>1, <1>2, <2>2, <3>0 DEF from
    <3>5. to - from + 1 = n + 1 - k
      BY <1>1, <1>2, <3>0, <3>2, <3>4
    <3> QED BY <3>3, <3>4, <3>5
  <2> QED BY <2>1, <2>2
<1> HIDE DEF all, n, k, list
<1>5. /\ Range(c) = {c[i] : i \in 1 .. n}
      /\ Range(list) = {list[i] : i \in 1 .. n + 1 - k}
  BY <1>4, RangeEquality DEF n
<1>6. r \in Range(list)
  <2>1. n + 1 - k \in 1 .. n + 1 - k /\ n + 1 - k + k = n + 1
    BY <1>1, <1>3
  <2> QED BY <1>1, <1>4, <1>5, <2>1
<1>7. \A i \in 1 .. n + 1 - k : i + k \in 1 .. n \/ i + k = n + 1
  BY <1>1, <1>3
<1>8. Range(list) \subseteq Range(c) \cup {r}
  <2> SUFFICES ASSUME NEW i \in 1 .. n + 1 - k PROVE list[i] \in Range(c) \cup {r}
    BY <1>5
  <2>1. CASE i + k = n + 1
    BY <1>1, <1>4, <2>1
  <2>2. CASE i + k \in 1 .. n
    <3>1. list[i] = all[i + k] /\ all[i + k] = c[i + k]
      BY <1>1, <1>4, <2>2
    <3> QED BY <1>5, <2>2, <3>1
  <2> QED BY <1>7, <2>1, <2>2
<1>9. ASSUME n < MaxCompleted PROVE Range(c) \subseteq Range(list)
  <2>1. \A i \in 1 .. n : i \in 1 .. n + 1 - k /\ i + k = i
    BY <1>1, <1>3, <1>9
  <2> QED BY <1>1, <1>4, <1>5, <2>1
<1>10. ASSUME IsInjective(c), r \notin Range(c) PROVE IsInjective(list)
  <2>1. DOMAIN list = 1 .. n + 1 - k /\ DOMAIN c = 1 .. n
    BY <1>4, LenProperties DEF n
  <2>2. ASSUME NEW i \in 1 .. n + 1 - k, NEW j \in 1 .. n + 1 - k, list[i] = list[j]
        PROVE  i = j
    <3>1. all[i + k] = all[j + k]
      BY <1>4, <2>2
    <3>2. CASE i + k \in 1 .. n /\ j + k \in 1 .. n
      <4>1. i + k = j + k
        BY <1>1, <1>10, <2>1, <3>1, <3>2 DEF IsInjective
      <4> QED BY <1>1, <1>3, <4>1
    <3>3. CASE i + k = n + 1 /\ j + k = n + 1
      BY <1>1, <1>3, <3>3
    <3>4. CASE (i + k \in 1 .. n /\ j + k = n + 1) \/ (i + k = n + 1 /\ j + k \in 1 .. n)
      BY <1>1, <1>5, <1>10, <3>1, <3>4
    <3> QED BY <1>7, <3>2, <3>3, <3>4
  <2> QED BY <2>1, <2>2 DEF IsInjective
<1> QED
  BY <1>2, <1>3, <1>4, <1>6, <1>8, <1>9, <1>10 DEF list, n, ListType

\* The run in progress is over: it stands in the list, and what fell off is forgotten.
LEMMA EndRunDoes ==
  ASSUME TypeInv, EndRun, mem.run.id \in Runs
  PROVE  /\ mem' \in States /\ ListType(mem'.completed)
         /\ mem'.next = mem.next /\ mem'.content = mem.content /\ mem'.offset = mem.offset
         /\ mem'.run = NoRun /\ mem'.completed = MarkCompleted(mem.completed, mem.run.id)
         /\ mem.run.id \in Range(mem'.completed)
         /\ Range(mem'.completed) \subseteq Range(mem.completed) \cup {mem.run.id}
         /\ Range(mem.completed) \subseteq Range(mem'.completed) \cup forgotten'
         /\ forgotten \subseteq forgotten' /\ forgotten' \subseteq Runs
         /\ forgotten' = forgotten \/ Len(mem.completed) = MaxCompleted
         /\ IsInjective(mem.completed) /\ mem.run.id \notin Range(mem.completed)
              => IsInjective(mem'.completed)
<1> DEFINE c == mem.completed
           r == mem.run.id
           list == MarkCompleted(c, r)
<1>1. /\ mem \in States /\ c \in Seq(Runs) /\ ListType(c) /\ forgotten \subseteq Runs
      /\ Range(c) \subseteq Runs /\ Len(c) \in Nat
  BY TypeParts, StateFields, RangeOfSeq, LenProperties DEF TypeInv, StateType, ThreadType
<1>2. /\ list \in Seq(Runs) /\ ListType(list)
      /\ r \in Range(list) /\ Range(list) \subseteq Range(c) \cup {r}
      /\ Len(c) < MaxCompleted => Range(c) \subseteq Range(list)
      /\ IsInjective(c) /\ r \notin Range(c) => IsInjective(list)
  BY <1>1, Marked
<1> HIDE DEF list
<1>3. mem' = [mem EXCEPT !.run = NoRun, !.completed = list]
  BY DEF EndRun, list
<1>4. mem' = [next |-> mem.next, content |-> mem.content, offset |-> mem.offset, run |-> NoRun,
              completed |-> list]
  BY <1>1, <1>3 DEF States
<1>5. /\ mem' \in States /\ mem'.next = mem.next /\ mem'.run = NoRun
      /\ mem'.completed = list /\ mem'.content = mem.content /\ mem'.offset = mem.offset
  BY <1>1, <1>2, <1>4, StateFields, NoRunType DEF States
<1>6. forgotten' = forgotten \cup (Range(c) \ Range(list))
  BY <1>5 DEF EndRun
<1>7. forgotten' = forgotten \/ Len(c) = MaxCompleted
  <2>1. Len(c) < MaxCompleted \/ Len(c) = MaxCompleted
    BY <1>1, SenderAssumption DEF ListType
  <2> QED BY <1>2, <1>6, <2>1
<1>8. /\ Range(c) \subseteq Range(list) \cup forgotten'
      /\ forgotten \subseteq forgotten' /\ forgotten' \subseteq Runs
  BY <1>1, <1>6
<1> QED BY <1>2, <1>5, <1>7, <1>8, Zenon DEF list

\* A run without a directory counts as completed, which is saved.
LEMMA AbandonRunDoes ==
  ASSUME TypeInv, AbandonRun
  PROVE  /\ EndRun /\ mem.run.id \in Runs
         /\ mem' \in States /\ disk' = mem'
         /\ mem'.next = mem.next /\ mem'.content = mem.content /\ mem'.offset = mem.offset
         /\ mem'.run = NoRun /\ ListType(mem'.completed)
<1>0. RunType(mem.run) /\ mem \in States
  BY TypeParts DEF TypeInv, StateType
<1>1. EndRun /\ disk' = mem' /\ mem.run.id \in Runs
  BY <1>0, StateFields DEF AbandonRun, RunType
<1> QED BY <1>1, EndRunDoes

\* A record of the run is sent under its reserved number.
LEMMA HandleItemDoes ==
  ASSUME TypeInv, HandleItem
  PROVE  LET run == mem.run
             item == Item(run.id, run.next) IN
         /\ pc = "item" /\ run.id \in Runs /\ run.next < Total[run.id] /\ mem' \in States
         /\ mem'.next = mem.next /\ mem'.content = mem.content /\ mem'.offset = mem.offset
         /\ mem'.completed = mem.completed
         /\ mem'.run.id = run.id /\ mem'.run.base = run.base /\ mem'.run.next = run.next + 1
         /\ \/ item \in Rejected /\ sent' = sent
            \/ sent' = sent \cup {[seq |-> run.base + run.next, line |-> item]}
<1> DEFINE run == mem.run
<1>0. mem \in States /\ run.id \in Runs
  BY TypeParts DEF TypeInv, StateType, HandleItem, PlaceInv
<1> USE StateFields
<1> DEFINE next == [id |-> run.id, base |-> run.base, next |-> run.next + 1]
<1>1. next \in [id: Runs \cup {0}, base: Nat, next: Nat]
  BY <1>0
<1>2. mem' = [mem EXCEPT !.run.next = @ + 1]
  BY DEF HandleItem
<1>3. mem' = [next |-> mem.next, content |-> mem.content, offset |-> mem.offset, run |-> next,
              completed |-> mem.completed]
  BY <1>0, <1>2 DEF States
<1>4. /\ mem' \in States /\ mem'.next = mem.next /\ mem'.run = next
      /\ mem'.completed = mem.completed /\ mem'.content = mem.content /\ mem'.offset = mem.offset
  BY <1>0, <1>1, <1>3 DEF States
<1> QED BY <1>0, <1>4 DEF HandleItem, Put

\* The run is completed, which is saved next.
LEMMA CompleteRunDoes ==
  ASSUME TypeInv, CompleteRun
  PROVE  /\ EndRun /\ mem.run.id \in Runs
         /\ pc = "item" /\ mem.run.next = Total[mem.run.id]
         /\ mem' \in States
         /\ mem'.next = mem.next /\ mem'.content = mem.content /\ mem'.offset = mem.offset
         /\ mem'.run = NoRun /\ ListType(mem'.completed)
<1>1. EndRun /\ mem.run.id \in Runs /\ pc = "item" /\ mem.run.next = Total[mem.run.id]
  BY DEF TypeInv, CompleteRun, PlaceInv
<1> QED BY <1>1, EndRunDoes

-----------------------------------------------------------------------------
(***************************************************************************)
(* The types are kept                                                      *)
(***************************************************************************)

\* Every process begins with an empty state.
LEMMA TypeStarts == Init => TypeInv
<1> SUFFICES ASSUME Init PROVE TypeInv
  OBVIOUS
<1>1. mem \in States /\ mem.run = NoRun /\ disk = mem /\ mem.completed = << >>
      /\ mem.content = [f \in Files |-> 0] /\ mem.offset = [f \in Files |-> 0]
  BY SenderAssumption, NoRunType, EmptySeq DEF Init, States
<1>2. WorldType
  BY SenderAssumption DEF Init, WorldType
<1>3. StateType
  BY <1>1, NoRunType, EmptySeq, SenderAssumption DEF StateType, ListType
<1>4. pass = NewPass /\ sinceSave = 0 /\ crashes = 0 /\ forgotten = {} /\ pc \in {"file", "idle"}
  BY DEF Init
<1>5. ThreadType
  BY <1>4, FirstFile, SenderAssumption DEF ThreadType, TailPc, ReplayPc
<1>6. LinkType
  BY DEF Init, LinkType, EmptyStream, StreamState
<1>7. PlaceInv
  BY <1>1, <1>2, SenderAssumption DEF Init, PlaceInv, TailPc, ReplayPc, WorldType
<1> QED BY <1>2, <1>3, <1>5, <1>6, <1>7, TypeParts DEF TypeInv

\* The file the next pass or the rest of this one looks at.
LEMMA NextFileType ==
  ASSUME ThreadType
  PROVE  NextFile.at \in Nat /\ NextFile.lines = 0 /\ NextFile.progressed \in BOOLEAN
<1>1. (pass.progressed \/ pass.lines > 0) \in BOOLEAN
  OBVIOUS
<1> QED BY <1>1 DEF ThreadType, NextFile

\* The files grow or are replaced, the directories appear and disappear.
LEMMA WorldKept == TypeInv /\ [Next]_vars => WorldType'
<1> SUFFICES ASSUME TypeInv, [Next]_vars PROVE WorldType'
  OBVIOUS
<1>1. WorldType
  BY TypeParts DEF TypeInv
<1> USE <1>1, SenderAssumption DEF WorldType
<1>2. ASSUME NEW f \in Files, WriteLine(f) PROVE WorldType'
  <2>1. mode' = mode /\ dirs' = dirs /\ files' = [files EXCEPT ![f].count = @ + 1]
        /\ files[f].count + 1 \in 0 .. MaxLines
    BY <1>2 DEF WriteLine
  <2> QED BY <2>1
<1>3. ASSUME NEW f \in Files, Replace(f) PROVE WorldType'
  <2>1. /\ mode' = mode /\ dirs' = dirs
        /\ files' = [files EXCEPT ![f] = [content |-> files[f].content + 1, count |-> 1]]
        /\ 1 \in 0 .. MaxLines /\ files[f].content + 1 \in Nat
    <3>1. files[f].count > 0 /\ files[f].count \in 0 .. MaxLines /\ files[f].content \in Nat
      BY <1>3 DEF Replace
    <3>2. 1 \in 0 .. MaxLines /\ files[f].content + 1 \in Nat
      BY <3>1
    <3> QED BY <1>3, <3>2 DEF Replace
  <2> QED BY <2>1
<1>4. ASSUME NEW r \in Runs, FinishRun(r) \/ RemoveRun(r) PROVE WorldType'
  BY <1>4 DEF FinishRun, RemoveRun
<1>5. CASE UNCHANGED input
  BY <1>5 DEF input
<1> QED
  BY <1>2, <1>3, <1>4, <1>5
     DEF Next, TailMode, ReplayMode, OpenFile, HandleLine, Save, Advance, CloseFile, EndPass,
         BeginRun, AbandonRun, HandleItem, CompleteRun, Crash, Arrive, history, vars

\* The state in memory, and on disk, is one of SenderState's.
LEMMA StateKept == TypeInv /\ [Next]_vars => StateType'
<1> SUFFICES ASSUME TypeInv, [Next]_vars PROVE StateType'
  OBVIOUS
<1>1. StateType
  BY TypeParts DEF TypeInv
<1> USE <1>1 DEF StateType
<1>2. CASE UNCHANGED <<mem, disk>> \/ (mem' = mem /\ disk' = mem) \/ (mem' = disk /\ disk' = disk)
  BY <1>2
<1>3. CASE OpenFile
  BY <1>3, OpenFileDoes DEF OpenFile
<1>4. CASE HandleLine
  BY <1>4, HandleLineDoes DEF HandleLine
<1>5. CASE Advance
  BY <1>5, AdvanceDoes DEF Advance
<1>6. CASE BeginRun
  <2>1. CASE mem' = mem /\ disk' = disk
    BY <1>2, <2>1
  <2>2. CASE ~(mem' = mem /\ disk' = disk)
    <3>1. mem' \in States /\ disk' = mem' /\ mem'.run.id \in Runs /\ mem'.run.next = 0
      BY <1>6, <2>2, BeginRunDoes
    <3>2. mem'.run.id # 0 /\ Total[mem'.run.id] \in Nat
      BY <3>1, SenderAssumption DEF Runs
    <3>3. mem'.completed = mem.completed
      BY <1>6, <2>2, BeginRunDoes
    <3> QED BY <3>1, <3>2, <3>3 DEF RunType
  <2> QED BY <2>1, <2>2
<1>7. CASE AbandonRun
  BY <1>7, AbandonRunDoes, NoRunType
<1>8. CASE HandleItem
  <2>1. /\ mem.run.id \in Runs /\ mem.run.next < Total[mem.run.id] /\ mem' \in States
        /\ mem'.run.id = mem.run.id /\ mem'.run.next = mem.run.next + 1 /\ disk' = disk
    BY <1>8, HandleItemDoes DEF HandleItem
  <2>2. mem.run.id # 0 /\ Total[mem.run.id] \in Nat /\ mem.run.next \in Nat
    BY <2>1, StateFields, SenderAssumption DEF Runs
  <2>3. mem'.completed = mem.completed
    BY <1>8, HandleItemDoes DEF HandleItem
  <2> QED BY <2>1, <2>2, <2>3 DEF RunType
<1>9. CASE CompleteRun
  BY <1>9, CompleteRunDoes, NoRunType DEF CompleteRun
<1> QED
  BY <1>2, <1>3, <1>4, <1>5, <1>6, <1>7, <1>8, <1>9
     DEF Next, TailMode, ReplayMode, WriteLine, Replace, FinishRun, RemoveRun, Save, CloseFile,
         EndPass, Crash, Arrive, state, history, vars

\* The thread stays in its loop, and its counters within their bounds.
LEMMA ThreadKept == TypeInv /\ [Next]_vars => ThreadType'
<1> SUFFICES ASSUME TypeInv, [Next]_vars PROVE ThreadType'
  OBVIOUS
<1>1. ThreadType /\ PlaceInv
  BY TypeParts DEF TypeInv
<1> USE <1>1, SenderAssumption DEF ThreadType, TailPc, ReplayPc, history
<1>2. CASE UNCHANGED <<sinceSave, pc, pass, forgotten, crashes>>
  BY <1>2
<1>3. CASE OpenFile \/ CloseFile
  <2>1. /\ sinceSave' = sinceSave /\ crashes' = crashes /\ forgotten' = forgotten
        /\ pc' \in TailPc
    BY <1>3 DEF OpenFile, CloseFile, state
  <2>2. pass' = pass \/ pass' = NextFile
    BY <1>3 DEF OpenFile, CloseFile
  <2> QED BY <2>1, <2>2, NextFileType
<1>4. CASE HandleLine \/ HandleItem
  <2>1. sinceSave < PersistEvery
    BY <1>4 DEF HandleLine, HandleItem, PlaceInv
  <2> QED BY <1>4, <2>1 DEF HandleLine, HandleItem
<1>5. CASE Advance
  <2>1. pass.lines < LinesPerPass
    BY <1>5 DEF Advance, PlaceInv
  <2>2. \/ /\ pass'.at = pass.at /\ pass'.lines = pass.lines + 1
           /\ pass'.progressed = pass.progressed
        \/ pass' = pass
    BY <1>5 DEF Advance
  <2> QED BY <1>5, <2>1, <2>2 DEF Advance
<1>6. CASE EndPass
  <2>1. /\ pass' = NewPass /\ pc' = pc /\ sinceSave' \in {0, sinceSave}
        /\ crashes' = crashes /\ forgotten' = forgotten
    BY <1>6 DEF EndPass
  <2> QED BY <2>1, FirstFile
<1>7. CASE Crash
  <2>1. /\ pass' = NewPass /\ pc' \in {"file", "idle"} /\ sinceSave' = 0
        /\ crashes' \in 0 .. MaxCrashes /\ forgotten' = forgotten
    BY <1>7 DEF Crash
  <2> QED BY <2>1, FirstFile
<1>8. CASE BeginRun
  BY <1>8 DEF BeginRun
<1>10. CASE AbandonRun \/ CompleteRun
  <2>1. forgotten' \subseteq Runs
    BY <1>10, AbandonRunDoes, CompleteRunDoes, EndRunDoes
  <2>2. /\ sinceSave' = sinceSave /\ pass' = pass /\ crashes' = crashes
        /\ pc' \in ReplayPc
    BY <1>10 DEF AbandonRun, CompleteRun
  <2> QED BY <2>1, <2>2
<1>9. CASE Save("save_offset", "offset") \/ Save("save_item", "item") \/ Save("save_idle", "idle")
  BY <1>9 DEF Save
<1> QED
  BY <1>2, <1>3, <1>4, <1>5, <1>6, <1>7, <1>8, <1>9, <1>10
     DEF Next, TailMode, ReplayMode, WriteLine, Replace, FinishRun, RemoveRun, Arrive, state,
         history, vars

-----------------------------------------------------------------------------
(***************************************************************************)
(* What is saved as done was done                                          *)
(***************************************************************************)

\* What a step adds to what was sent.
LEMMA Sends ==
  ASSUME TypeInv, [Next]_vars
  PROVE  \/ sent' = sent
         \/ HandleLine /\ sent' = sent \cup {[seq |-> mem.next, line |-> HandledLine]}
         \/ HandleItem /\ sent' = sent \cup {[seq |-> mem.run.base + mem.run.next,
                                              line |-> Item(mem.run.id, mem.run.next)]}
<1>1. CASE HandleLine
  BY <1>1, HandleLineDoes
<1>2. CASE HandleItem
  BY <1>2, HandleItemDoes
<1>3. CASE UNCHANGED sent
  BY <1>3
<1> QED
  BY <1>1, <1>2, <1>3
     DEF Next, TailMode, ReplayMode, WriteLine, Replace, FinishRun, RemoveRun, OpenFile, Save,
         Advance, CloseFile, EndPass, BeginRun, AbandonRun, CompleteRun, Crash, Arrive, history,
         vars

\* A directory appears and disappears once.
LEMMA DirsMove ==
  ASSUME TypeInv, [Next]_vars, NEW r \in Runs, dirs[r] # "absent"
  PROVE  dirs'[r] # "absent" /\ (dirs'[r] = "done" => dirs[r] = "done")
<1>1. dirs \in [Runs -> {"absent", "done", "gone"}]
  BY TypeParts DEF TypeInv, WorldType
<1>2. ASSUME NEW q \in Runs, FinishRun(q) \/ RemoveRun(q)
      PROVE  dirs'[r] # "absent" /\ (dirs'[r] = "done" => dirs[r] = "done")
  BY <1>1, <1>2 DEF FinishRun, RemoveRun
<1>3. CASE UNCHANGED dirs
  BY <1>3
<1> QED
  BY <1>2, <1>3
     DEF Next, TailMode, ReplayMode, WriteLine, Replace, OpenFile, HandleLine, Save, Advance,
         CloseFile, EndPass, BeginRun, AbandonRun, HandleItem, CompleteRun, Crash, Arrive, input,
         history, vars

\* What was done stays done when more is sent and directories disappear.
LEMMA SoundStays ==
  ASSUME NEW s \in States, NEW S, NEW T, NEW D, NEW E, S \subseteq T, Sound(s, S, D),
         \A r \in Runs : D[r] # "absent" => E[r] # "absent" /\ (E[r] = "done" => D[r] = "done")
  PROVE  Sound(s, T, E)
<1>1. \A line : Handled(S, line) => Handled(T, line)
  BY DEF Handled
<1>2. Range(s.completed) \subseteq Runs
  BY StateFields, RangeOfSeq
<1> QED BY <1>1, <1>2, Zenon DEF Sound

\* Nothing is claimed at first.
LEMMA DoneStarts == Init => DoneInv
<1> SUFFICES ASSUME Init PROVE DoneInv
  OBVIOUS
<1>1. mem.run = NoRun /\ disk = mem /\ mem.completed = << >> /\ pc \in {"file", "idle"}
      /\ mem.offset = [f \in Files |-> 0]
  BY DEF Init
<1>2. \A f \in Files : mem.offset[f] = 0
  BY <1>1
<1>3. NoRun.id \notin Runs /\ 0 .. NoRun.next - 1 = {} /\ 1 .. 0 = {} /\ Range(<< >>) = {}
  BY SenderAssumption DEF NoRun, Runs, Range
<1>4. Sound(mem, sent, dirs)
  BY <1>1, <1>2, <1>3 DEF Sound
<1> QED BY <1>1, <1>4 DEF DoneInv

\* Each step claims no more than it does, and a crash goes back to what was saved.
LEMMA DoneKept == IInv /\ [Next]_vars => DoneInv'
<1> SUFFICES ASSUME IInv, [Next]_vars PROVE DoneInv'
  OBVIOUS
<1>0. TypeInv /\ DoneInv /\ mem \in States /\ disk \in States /\ PlaceInv /\ ThreadType
      /\ dirs \in [Runs -> {"absent", "done", "gone"}]
  BY TypeParts DEF IInv, TypeInv, StateType, WorldType
<1>1. sent \subseteq sent'
  BY <1>0, Sends
<1>2. \A line : Handled(sent, line) => Handled(sent', line)
  BY <1>1 DEF Handled
<1>3. \A r \in Runs : dirs[r] # "absent" =>
        dirs'[r] # "absent" /\ (dirs'[r] = "done" => dirs[r] = "done")
  BY <1>0, DirsMove
<1>4. Sound(mem, sent', dirs') /\ Sound(disk, sent', dirs')
  BY <1>0, <1>1, <1>3, SoundStays DEF DoneInv
<1>5. CASE /\ UNCHANGED <<mem, disk>>
           /\ UNCHANGED <<pc, pass>> \/ pc' \notin {"offset", "save_offset"}
  BY <1>0, <1>2, <1>4, <1>5 DEF DoneInv, HandledLine
<1>6. CASE (mem' = disk \/ mem' = mem) /\ (disk' = mem \/ disk' = disk)
           /\ pc' \notin {"offset", "save_offset"}
  BY <1>4, <1>6 DEF DoneInv
<1>7. CASE Save("save_offset", "offset")
  BY <1>0, <1>2, <1>4, <1>7 DEF DoneInv, HandledLine, Save
<1>8. CASE OpenFile
  <2>1. \A f \in Files : \A n \in 1 .. mem'.offset[f] : Handled(sent', Line(f, mem'.content[f], n))
    <3> TAKE f \in Files
    <3>1. mem'.offset[f] = 0 \/ (mem'.content[f] = mem.content[f] /\ mem'.offset[f] = mem.offset[f])
      BY <1>0, <1>8, OpenFileDoes
    <3> QED BY <1>4, <3>1 DEF Sound
  <2>2. Sound(mem', sent', dirs')
    BY <1>0, <1>4, <1>8, <2>1, OpenFileDoes DEF Sound
  <2>3. disk' = disk /\ pc' \notin {"offset", "save_offset"}
    BY <1>8 DEF OpenFile
  <2> QED BY <1>4, <2>2, <2>3 DEF DoneInv
<1>9. CASE HandleLine
  <2>1. Sound(mem', sent', dirs')
    BY <1>0, <1>4, <1>9, HandleLineDoes DEF Sound
  <2>2. disk' = disk /\ HandledLine' = HandledLine
    BY <1>0, <1>9, HandleLineDoes DEF HandleLine, HandledLine
  <2>3. Handled(sent', HandledLine)
    <3> DEFINE m == [seq |-> mem.next, line |-> HandledLine]
    <3>1. m.line = HandledLine
      OBVIOUS
    <3>2. HandledLine \in Skipped \cup Rejected \/ m \in sent'
      BY <1>0, <1>9, HandleLineDoes
    <3> HIDE DEF m
    <3> QED BY <3>1, <3>2 DEF Handled
  <2> QED BY <1>4, <2>1, <2>2, <2>3 DEF DoneInv
<1>10. CASE Advance
  <2>1. Handled(sent', HandledLine)
    BY <1>0, <1>2, <1>10 DEF DoneInv, Advance
  <2>2. \A f \in Files : \A n \in 1 .. mem'.offset[f] : Handled(sent', Line(f, mem'.content[f], n))
    <3> TAKE f \in Files
    <3> TAKE n \in 1 .. mem'.offset[f]
    <3>1. n \in 1 .. mem.offset[f] \/ (f = pass.at /\ n = mem.offset[f] + 1)
      BY <1>0, <1>10, AdvanceDoes, StateFields
    <3>2. mem'.content = mem.content
      BY <1>0, <1>10, AdvanceDoes
    <3> QED BY <1>4, <2>1, <3>1, <3>2 DEF Sound, HandledLine
  <2>3. Sound(mem', sent', dirs')
    BY <1>0, <1>4, <1>10, <2>2, AdvanceDoes DEF Sound
  <2> QED BY <1>4, <1>10, <2>3 DEF DoneInv, Advance
<1>11. CASE BeginRun
  <2>1. dirs' = dirs /\ sent' = sent /\ pc' = "item"
    BY <1>11 DEF BeginRun, input
  <2>2. CASE mem' = mem /\ disk' = disk
    BY <1>4, <2>1, <2>2 DEF DoneInv
  <2>3. CASE ~(mem' = mem /\ disk' = disk)
    <3>1. /\ disk' = mem' /\ mem'.content = mem.content /\ mem'.offset = mem.offset
          /\ mem'.completed = mem.completed /\ dirs[mem'.run.id] = "done" /\ mem'.run.next = 0
      BY <1>0, <1>11, <2>3, BeginRunDoes
    <3>2. 0 .. mem'.run.next - 1 = {}
      BY <3>1
    <3>3. Sound(mem', sent', dirs')
      BY <1>4, <2>1, <3>1, <3>2 DEF Sound
    <3> QED BY <2>1, <3>1, <3>3 DEF DoneInv
  <2> QED BY <2>2, <2>3
<1>12. CASE AbandonRun
  <2>1. dirs' = dirs /\ dirs[mem.run.id] = "gone" /\ pc' = "idle"
    BY <1>12 DEF AbandonRun, input
  <2>2. 0 .. NoRun.next - 1 = {} /\ NoRun.id \notin Runs
    BY SenderAssumption DEF NoRun, Runs
  <2>3. Sound(mem', sent', dirs')
    <3>1. /\ mem'.content = mem.content /\ mem'.offset = mem.offset /\ mem'.run = NoRun
          /\ Range(mem'.completed) \subseteq Range(mem.completed) \cup {mem.run.id}
      BY <1>0, <1>12, AbandonRunDoes, EndRunDoes
    <3> QED BY <1>4, <2>1, <2>2, <3>1 DEF Sound
  <2> QED BY <1>0, <1>12, <2>1, <2>3, AbandonRunDoes DEF DoneInv
<1>13. CASE HandleItem
  <2>1. Handled(sent', Item(mem.run.id, mem.run.next))
    <3> DEFINE item == Item(mem.run.id, mem.run.next)
               m == [seq |-> mem.run.base + mem.run.next, line |-> item]
    <3>1. m.line = item
      OBVIOUS
    <3>2. item \in Rejected \/ m \in sent'
      BY <1>0, <1>13, HandleItemDoes
    <3> HIDE DEF m
    <3> QED BY <3>1, <3>2 DEF Handled
  <2>2. \A i \in 0 .. mem'.run.next - 1 : Handled(sent', Item(mem'.run.id, i))
    <3> TAKE i \in 0 .. mem'.run.next - 1
    <3>1. i \in 0 .. mem.run.next - 1 \/ i = mem.run.next
      BY <1>0, <1>13, HandleItemDoes, StateFields
    <3>2. mem'.run.id = mem.run.id
      BY <1>0, <1>13, HandleItemDoes
    <3> QED BY <1>4, <2>1, <3>1, <3>2 DEF Sound
  <2>3. Sound(mem', sent', dirs')
    BY <1>0, <1>4, <1>13, <2>2, HandleItemDoes DEF Sound
  <2>4. disk' = disk /\ pc' \notin {"offset", "save_offset"}
    BY <1>13 DEF HandleItem
  <2> QED BY <1>4, <2>3, <2>4 DEF DoneInv
<1>14. CASE CompleteRun
  <2>1. \A i \in 0 .. Total[mem.run.id] - 1 : Handled(sent', Item(mem.run.id, i))
    BY <1>0, <1>4, <1>14, CompleteRunDoes DEF Sound
  <2>2. 0 .. NoRun.next - 1 = {} /\ NoRun.id \notin Runs
    BY SenderAssumption DEF NoRun, Runs
  <2>3. dirs'[mem.run.id] # "absent"
    BY <1>0, <1>4, <1>14, CompleteRunDoes DEF Sound
  <2>4. Sound(mem', sent', dirs')
    <3>1. /\ mem'.content = mem.content /\ mem'.offset = mem.offset /\ mem'.run = NoRun
          /\ Range(mem'.completed) \subseteq Range(mem.completed) \cup {mem.run.id}
      BY <1>0, <1>14, CompleteRunDoes, EndRunDoes
    <3> QED BY <1>4, <2>1, <2>2, <2>3, <3>1 DEF Sound
  <2>5. disk' = disk /\ pc' \notin {"offset", "save_offset"}
    BY <1>14 DEF CompleteRun
  <2> QED BY <1>4, <2>4, <2>5 DEF DoneInv
<1> QED
  BY <1>5, <1>6, <1>7, <1>8, <1>9, <1>10, <1>11, <1>12, <1>13, <1>14
     DEF Next, TailMode, ReplayMode, WriteLine, Replace, FinishRun, RemoveRun, Save, CloseFile,
         EndPass, Crash, Arrive, state, history, vars

-----------------------------------------------------------------------------
(***************************************************************************)
(* The link and the window                                                 *)
(***************************************************************************)

\* What is put on the link.
LEMMA Messages ==
  ASSUME NEW seq \in Nat, NEW from \in Nat, NEW content \in Nat, NEW n \in Nat,
         NEW m, m = [seq |-> seq, line |-> [from |-> from, content |-> content, n |-> n]]
  PROVE  /\ m \in Message /\ m.seq = seq
         /\ m.line.from = from /\ m.line.content = content /\ m.line.n = n
BY DEF Message

\* A message is its number and its line.
LEMMA SameMessage ==
  ASSUME NEW a \in Message, NEW b \in Message, a.seq = b.seq, a.line.from = b.line.from,
         a.line.content = b.line.content, a.line.n = b.line.n
  PROVE  a = b
BY DEF Message

\* The fields of a message.
LEMMA MessageFields ==
  ASSUME NEW m \in Message
  PROVE  /\ m.seq \in Nat /\ m.line.from \in Nat /\ m.line.content \in Nat /\ m.line.n \in Nat
         /\ m.line = [from |-> m.line.from, content |-> m.line.content, n |-> m.line.n]
         /\ m = [seq |-> m.seq, line |-> m.line]
BY DEF Message

\* The message that tail mode sends.
LEMMA TailMessage ==
  ASSUME TypeInv, HandleLine
  PROVE  /\ [seq |-> mem.next, line |-> HandledLine] \in Message
         /\ HandledLine.from = pass.at /\ HandledLine.content = mem.content[pass.at]
         /\ HandledLine.n = mem.offset[pass.at] + 1
<1>1. pass.at \in Files /\ mem \in States
  BY HandleLineDoes, TypeParts DEF TypeInv, StateType
<1>2. pass.at \in Nat /\ mem.next \in Nat /\ mem.content[pass.at] \in Nat
      /\ mem.offset[pass.at] \in 0 .. MaxLines
  BY <1>1, StateFields, SenderAssumption
<1>3. mem.offset[pass.at] + 1 \in Nat
  BY <1>2, SenderAssumption
<1> DEFINE line == [from |-> pass.at, content |-> mem.content[pass.at],
                    n |-> mem.offset[pass.at] + 1]
           m == [seq |-> mem.next, line |-> line]
<1>4. /\ m \in Message /\ m.line.from = pass.at /\ m.line.content = mem.content[pass.at]
      /\ m.line.n = mem.offset[pass.at] + 1
  BY <1>2, <1>3 DEF Message
<1>5. HandledLine = line /\ m.line = line
  BY DEF HandledLine, Line
<1> QED BY <1>4, <1>5

\* The message that replay mode sends.
LEMMA ReplayMessage ==
  ASSUME TypeInv, HandleItem
  PROVE  LET item == Item(mem.run.id, mem.run.next) IN
         /\ [seq |-> mem.run.base + mem.run.next, line |-> item] \in Message
         /\ item.from = mem.run.id /\ item.content = 0 /\ item.n = mem.run.next
<1>1. mem.run.id \in Runs /\ mem \in States
  BY HandleItemDoes, TypeParts DEF TypeInv, StateType
<1>2. mem.run.id \in Nat /\ mem.run.base + mem.run.next \in Nat /\ mem.run.next \in Nat
  BY <1>1, StateFields, SenderAssumption DEF Runs
<1> QED BY <1>2, Messages DEF Item

\* Nothing was accepted at first.
LEMMA LinkStarts == Init => LinkInv
<1> SUFFICES ASSUME Init PROVE LinkInv
  OBVIOUS
<1>1. sent = {} /\ win = EmptyStream /\ Seqs(accepted) = {}
  BY DEF Init, Seqs
<1> QED BY <1>1 DEF LinkInv, Represents

\* Each arrival keeps the window true to what was accepted.
LEMMA LinkKept == IInv /\ [Next]_vars => LinkInv' /\ LinkType'
<1> SUFFICES ASSUME IInv, [Next]_vars PROVE LinkInv' /\ LinkType'
  OBVIOUS
<1>1. TypeInv /\ LinkInv /\ LinkType
  BY TypeParts DEF IInv, TypeInv
<1>2. sent' \subseteq Message /\ sent \subseteq sent'
  <2>1. sent' = sent \/ \E m \in Message : sent' = sent \cup {m}
    BY <1>1, Sends, TailMessage, ReplayMessage
  <2> QED BY <1>1, <2>1 DEF LinkInv
<1>3. \A m \in sent' : m.seq \in Nat
  BY <1>2, MessageFields
<1>4. ASSUME NEW m \in sent, Arrive(m) PROVE LinkInv' /\ LinkType'
  <2>1. m.seq \in Nat /\ Seqs(accepted) \in SUBSET Nat
    BY <1>1 DEF LinkType, Seqs
  <2>2. Seqs(accepted') = Grow(win, Seqs(accepted), m.seq)
    BY <1>4 DEF Arrive, Grow, Seqs
  <2>3. Represents(win', Seqs(accepted')) /\ win' \in StreamState
    BY <1>1, <1>4, <2>1, <2>2, RecordRepresents DEF Arrive, LinkInv, LinkType
  <2>4. accepted' \subseteq sent'
    BY <1>1, <1>2, <1>4 DEF Arrive, LinkType
  <2> QED BY <1>2, <1>3, <2>3, <2>4 DEF LinkInv, LinkType
<1>5. CASE UNCHANGED <<win, accepted>>
  BY <1>1, <1>2, <1>3, <1>5 DEF LinkInv, LinkType
<1> QED
  BY <1>4, <1>5
     DEF Next, TailMode, ReplayMode, WriteLine, Replace, FinishRun, RemoveRun, OpenFile, HandleLine,
         Save, Advance, CloseFile, EndPass, BeginRun, AbandonRun, HandleItem, CompleteRun, Crash,
         receiver, history, vars

-----------------------------------------------------------------------------
(***************************************************************************)
(* The numbers of replayed runs                                            *)
(***************************************************************************)

\* No range is reserved at first.
LEMMA ReplayStarts == Init /\ mode = "replay" => ReplayInv
<1> SUFFICES ASSUME Init PROVE ReplayInv
  OBVIOUS
<1>1. mem = disk /\ mem.run = NoRun /\ sent = {}
  BY DEF Init
<1>2. NoRun.id \notin Runs
  BY SenderAssumption DEF NoRun, Runs
<1> QED BY <1>1, <1>2 DEF ReplayInv

\* What matters of a step: what happens to the state saved, and to that in memory.
LEMMA ReplayKept == IInv /\ [Next]_vars /\ mode = "replay" => ReplayInv'
<1> SUFFICES ASSUME IInv, [Next]_vars, mode = "replay" PROVE ReplayInv'
  OBVIOUS
<1>0. /\ TypeInv /\ ReplayInv /\ mem \in States /\ disk \in States
      /\ PlaceInv /\ sent \subseteq Message
  BY TypeParts DEF IInv, TypeInv, StateType, NumberInv, LinkInv
<1>00. pc \notin TailPc /\ \A r \in Runs : r \in Nat \ {0} /\ Total[r] \in Nat
  BY <1>0, SenderAssumption DEF PlaceInv, TailPc, ReplayPc, Runs
<1>1. CASE \/ UNCHANGED <<mem, disk, pc, sent, forgotten>>
           \/ mem' = disk /\ UNCHANGED <<disk, sent, forgotten>>
           \/ UNCHANGED <<mem, disk, sent, forgotten>> /\ pc # "save_idle"
  BY <1>0, <1>1 DEF ReplayInv, Base
<1>2. CASE Save("save_item", "item") \/ Save("save_idle", "idle")
  <2>1. /\ mem' = mem /\ disk' = mem /\ sent' = sent /\ forgotten' = forgotten
    BY <1>2 DEF Save, history
  <2>2. CASE mem.run.id = disk.run.id /\ mem.run.base = disk.run.base
             /\ mem.completed = disk.completed
    BY <1>0, <2>1, <2>2 DEF ReplayInv, Base
  <2>3. CASE /\ mem.run = NoRun /\ disk.run.id \in Runs
             /\ disk.run.id \in Range(mem.completed)
             /\ Range(disk.completed) \subseteq Range(mem.completed) \cup forgotten
    <3>1. mem.run.id \notin Runs
      BY <1>00, <2>3, NoRunType
    <3>2. \A m \in sent : m.line.from \in Range(mem.completed) \cup forgotten
      BY <1>0, <2>3 DEF ReplayInv
    <3> QED BY <1>0, <2>1, <2>3, <3>1, <3>2 DEF ReplayInv, Base
  <2> QED BY <1>0, <2>2, <2>3 DEF ReplayInv
<1>3. CASE BeginRun
  <2>0. forgotten' = forgotten /\ sent' = sent /\ pc = "idle"
    BY <1>3 DEF BeginRun, history
  <2>1. CASE mem' = mem /\ disk' = disk
    BY <1>1, <2>0, <2>1
  <2>2. CASE ~(mem' = mem /\ disk' = disk)
    <3>1. /\ mem.run = NoRun /\ disk' = mem' /\ mem'.run.id \in Runs \ Range(mem.completed)
          /\ mem'.run.base = mem.next /\ mem'.next = mem.next + Total[mem'.run.id]
          /\ mem'.completed = mem.completed
      BY <1>0, <1>3, <2>2, BeginRunDoes
    <3>2. disk.run.id \notin Runs /\ mem.completed = disk.completed /\ mem.next = disk.next
      BY <1>0, <1>00, <2>0, <3>1, NoRunType DEF ReplayInv
    <3>3. \A m \in sent : /\ m.line.from \in Range(disk.completed) \cup forgotten
                          /\ Base(m) + Total[m.line.from] <= disk.next
      BY <1>0, <3>2 DEF ReplayInv
    <3>4. \A m \in sent : m.seq \in Int /\ m.line.n \in Int /\ Base(m) \in Int
      <4> TAKE m \in sent
      <4>1. m \in Message
        BY <1>0
      <4> QED BY <4>1 DEF Base, Message
    <3>5. mem.next \in Nat
      BY <1>0, StateFields
    <3> QED BY <1>0, <1>00, <2>0, <3>1, <3>2, <3>3, <3>4, <3>5 DEF ReplayInv, Base
  <2> QED BY <2>1, <2>2
<1>4. CASE AbandonRun
  <2>1. /\ disk' = mem' /\ mem.run.id \in Runs /\ mem'.next = mem.next /\ mem'.run = NoRun
        /\ pc = "idle" /\ sent' = sent
    BY <1>0, <1>4, AbandonRunDoes DEF AbandonRun
  <2>2. /\ mem.run.id \in Range(mem'.completed) /\ forgotten \subseteq forgotten'
        /\ Range(mem.completed) \subseteq Range(mem'.completed) \cup forgotten'
    BY <1>0, <1>4, AbandonRunDoes, EndRunDoes
  <2>3. mem.run.id = disk.run.id /\ mem.completed = disk.completed /\ mem'.run.id \notin Runs
    BY <1>0, <1>00, <2>1, NoRunType DEF ReplayInv
  <2>4. \A m \in sent : m.line.from \in Range(mem'.completed) \cup forgotten'
    BY <1>0, <2>2, <2>3 DEF ReplayInv
  <2> QED BY <1>0, <2>1, <2>2, <2>3, <2>4 DEF ReplayInv, Base
<1>5. CASE HandleItem
  <2> DEFINE r == mem.run.id
             m == [seq |-> mem.run.base + mem.run.next, line |-> Item(r, mem.run.next)]
  <2>1. /\ pc = "item" /\ r \in Runs /\ mem.run.next < Total[r] /\ mem'.next = mem.next
        /\ mem'.completed = mem.completed /\ mem'.run.id = r /\ mem'.run.base = mem.run.base
        /\ disk' = disk /\ (sent' = sent \/ sent' = sent \cup {m}) /\ forgotten' = forgotten
    BY <1>0, <1>5, HandleItemDoes DEF HandleItem, history
  <2>2. /\ m.seq = mem.run.base + mem.run.next /\ m.line.from = r /\ m.line.content = 0
        /\ m.line.n = mem.run.next
    BY <1>0, <1>5, ReplayMessage
  <2> HIDE DEF m
  <2>3. mem.run.base \in Nat /\ mem.run.next \in Nat
    BY <1>0, StateFields
  <2>4. Base(m) = mem.run.base
    BY <2>2, <2>3 DEF Base
  <2>5. disk.run.id = r /\ disk.run.base = mem.run.base /\ mem.completed = disk.completed
    BY <1>0, <2>1 DEF ReplayInv
  <2>6. \A a \in sent : \/ a.line.from = r /\ Base(a) = Base(m)
                        \/ /\ a.line.from = r => a.line.from \in forgotten
                           /\ Base(a) + Total[a.line.from] <= Base(m)
    BY <1>0, <2>1, <2>4, <2>5 DEF ReplayInv
  <2>8. m.line.n \in 0 .. Total[r] - 1 /\ Base(m) + Total[r] <= disk.next
    BY <1>0, <1>00, <2>1, <2>2, <2>3, <2>4, <2>5 DEF ReplayInv
  <2>9. \A a, b \in sent' :
          \/ a.line.from = b.line.from /\ Base(a) = Base(b)
          \/ /\ a.line.from = b.line.from => a.line.from \in forgotten
             /\ \/ Base(a) + Total[a.line.from] <= Base(b)
                \/ Base(b) + Total[b.line.from] <= Base(a)
    BY <1>0, <2>1, <2>2, <2>6 DEF ReplayInv
  <2> QED BY <1>0, <2>1, <2>2, <2>4, <2>5, <2>8, <2>9 DEF ReplayInv, Base
<1>6. CASE CompleteRun
  <2>1. /\ pc = "item" /\ mem.run.id \in Runs /\ mem'.next = mem.next /\ mem'.run = NoRun
        /\ disk' = disk /\ sent' = sent /\ pc' = "save_idle"
    BY <1>0, <1>6, CompleteRunDoes DEF CompleteRun
  <2>2. /\ mem.run.id \in Range(mem'.completed) /\ forgotten \subseteq forgotten'
        /\ Range(mem.completed) \subseteq Range(mem'.completed) \cup forgotten'
    BY <1>0, <1>6, CompleteRunDoes, EndRunDoes
  <2>3. mem.run.id = disk.run.id /\ mem.completed = disk.completed
    BY <1>0, <2>1 DEF ReplayInv
  <2> QED BY <1>0, <2>1, <2>2, <2>3 DEF ReplayInv, Base
<1> QED
  BY <1>00, <1>1, <1>2, <1>3, <1>4, <1>5, <1>6
     DEF Next, TailMode, ReplayMode, WriteLine, Replace, FinishRun, RemoveRun, OpenFile, HandleLine,
         Save, Advance, CloseFile, EndPass, Crash, Arrive, TailPc, state, history, vars

-----------------------------------------------------------------------------
(***************************************************************************)
(* The list of completed runs                                              *)
(***************************************************************************)

\* No run was forgotten at first.
LEMMA ListsStart == Init => ListInv
BY DEF Init, ListInv, IsInjective, RunsAreRemembered

\* A list without repetitions that is full, and a run that is not in it, are more runs than
\* the list has room for.
LEMMA FullList ==
  ASSUME NEW c \in Seq(Runs), IsInjective(c), Len(c) = MaxCompleted, NEW r, r \notin Range(c),
         NEW S \in SUBSET Runs, Range(c) \subseteq S, r \in S
  PROVE  Cardinality(S) > MaxCompleted
<1>1. MaxCompleted \in Nat /\ IsFiniteSet(S)
  <2>1. IsFiniteSet(Runs)
    BY SenderAssumption DEF Runs
  <2> QED BY <2>1, FS_Subset, SenderAssumption
<1>2. DOMAIN c = 1 .. MaxCompleted /\ c \in [1 .. MaxCompleted -> Range(c)]
  BY LenProperties DEF Range
<1>3. ExistsBijection(1 .. MaxCompleted, Range(c))
  <2>1. c \in Bijection(1 .. MaxCompleted, Range(c))
    BY <1>2 DEF Bijection, Injection, Surjection, IsInjective, Range
  <2> QED BY <2>1 DEF ExistsBijection
<1>4. Cardinality(Range(c)) = MaxCompleted
  BY <1>1, <1>3, FS_CountingElements
<1>5. /\ IsFiniteSet(Range(c)) /\ IsFiniteSet(Range(c) \cup {r})
      /\ Cardinality(Range(c) \cup {r}) = MaxCompleted + 1
  <2>1. IsFiniteSet(Range(c))
    BY <1>1, FS_Subset
  <2> QED BY <1>4, <2>1, FS_AddElement
<1>6. Cardinality(Range(c) \cup {r}) <= Cardinality(S)
  BY <1>1, FS_Subset
<1>7. Cardinality(S) \in Nat
  BY <1>1, FS_CardinalityType
<1> QED BY <1>1, <1>5, <1>6, <1>7

\* A run is begun only when the list does not have it.
LEMMA ListsKept == IInv /\ [Next]_vars => ListInv'
<1> SUFFICES ASSUME IInv, [Next]_vars PROVE ListInv'
  OBVIOUS
<1>0. /\ TypeInv /\ DoneInv /\ ListInv /\ PlaceInv /\ mem \in States
      /\ mode \in {"tail", "replay"}
  BY TypeParts, TwoModes DEF IInv, TypeInv, StateType
<1>1. IsFiniteSet(Finished') /\ Finished \subseteq Finished'
  <2>1. IsFiniteSet(Runs) /\ Finished' \subseteq Runs
    BY SenderAssumption DEF Runs, Finished
  <2>2. \A r \in Finished : r \in Finished'
    BY <1>0, DirsMove DEF Finished
  <2> QED BY <2>1, <2>2, FS_Subset
<1>2. Cardinality(Finished) <= Cardinality(Finished')
      /\ Cardinality(Finished) \in Nat /\ Cardinality(Finished') \in Nat
  BY <1>1, FS_Subset, FS_CardinalityType
<1>3. forgotten # {} => Cardinality(Finished') > MaxCompleted
  BY <1>0, <1>2, SenderAssumption DEF ListInv, RunsAreRemembered, Finished
<1>4. CASE EndRun /\ mem.run.id \in Runs /\ pc \in {"idle", "item"}
           /\ (disk' = mem' \/ disk' = disk)
  <2>1. ReplayInv
    BY <1>0, <1>4 DEF IInv, NumberInv, PlaceInv, TailPc
  <2>2. mem.run.id \notin Range(mem.completed)
    BY <1>4, <2>1 DEF ReplayInv
  <2>3. IsInjective(mem'.completed) /\ (forgotten' = forgotten \/ Len(mem.completed) = MaxCompleted)
    BY <1>0, <1>4, <2>2, EndRunDoes DEF ListInv
  <2>4. Range(mem.completed) \subseteq Finished /\ mem.run.id \in Finished
    <3>1. mem.completed \in Seq(Runs) /\ Range(mem.completed) \subseteq Runs
      BY <1>0, StateFields, RangeOfSeq
    <3> QED BY <1>0, <1>4, <3>1 DEF DoneInv, Sound, Finished
  <2>5. Len(mem.completed) = MaxCompleted => Cardinality(Finished') > MaxCompleted
    <3>1. mem.completed \in Seq(Runs) /\ IsInjective(mem.completed) /\ Finished' \subseteq Runs
      BY <1>0, StateFields DEF ListInv, Finished
    <3> QED BY <1>1, <2>2, <2>4, <3>1, FullList
  <2> QED BY <1>0, <1>3, <1>4, <2>3, <2>5 DEF ListInv, RunsAreRemembered, Finished
<1>5. CASE /\ mem'.completed \in {mem.completed, disk.completed}
           /\ disk'.completed \in {mem.completed, disk.completed} /\ forgotten' = forgotten
  BY <1>0, <1>3, <1>5 DEF ListInv, RunsAreRemembered, Finished
<1>6. CASE AbandonRun \/ CompleteRun
  BY <1>0, <1>4, <1>6, AbandonRunDoes, CompleteRunDoes DEF AbandonRun, CompleteRun
<1>7. CASE OpenFile \/ HandleLine \/ Advance \/ HandleItem
  BY <1>0, <1>5, <1>7, OpenFileDoes, HandleLineDoes, AdvanceDoes, HandleItemDoes
     DEF OpenFile, HandleLine, Advance, HandleItem, history
<1>8. CASE BeginRun
  BY <1>0, <1>5, <1>8, BeginRunDoes DEF BeginRun, history
<1> QED
  BY <1>5, <1>6, <1>7, <1>8
     DEF Next, TailMode, ReplayMode, WriteLine, Replace, FinishRun, RemoveRun, Save, CloseFile,
         EndPass, Crash, Arrive, state, history, vars

-----------------------------------------------------------------------------
(***************************************************************************)
(* The numbers of followed files                                           *)
(***************************************************************************)

\* The numbers of a line when a message m is sent.
LEMMA NumbersGrow ==
  ASSUME NEW m, sent' = sent \cup {m}, NEW line
  PROVE  Numbers(line)' = IF m.line = line THEN Numbers(line) \cup {m.seq} ELSE Numbers(line)
BY DEF Numbers

\* No line has a number at first.
LEMMA TailStarts == Init => TailInv
<1> SUFFICES ASSUME Init PROVE TailInv
  OBVIOUS
<1>1. sent = {}
  BY DEF Init
<1> QED BY <1>1 DEF TailInv, ResentIsExactDuplicate

\* A step that sends nothing, goes on in the files and leaves the number of crashes.
LEMMA TailGoesOn ==
  ASSUME TailInv, crashes' = crashes, sent' = sent, mem'.next = mem.next,
         \A m \in sent : Ahead(m.line)' => Ahead(m.line)
  PROVE  TailInv'
BY DEF TailInv, ResentIsExactDuplicate, Numbers

LEMMA TailKept == IInv /\ [Next]_vars /\ mode = "tail" => TailInv'
<1> SUFFICES ASSUME IInv, [Next]_vars, mode = "tail" PROVE TailInv'
  OBVIOUS
<1>0. TypeInv /\ TailInv /\ mem \in States /\ PlaceInv /\ sent \subseteq Message /\ crashes \in Nat
  BY TypeParts, SenderAssumption DEF IInv, TypeInv, StateType, NumberInv, LinkInv, ThreadType
<1>00. pc \notin ReplayPc
  BY <1>0 DEF PlaceInv, TailPc, ReplayPc
<1>01. \A m \in sent : /\ m.line.from \in Files /\ m.line.content \in Nat /\ m.line.n \in Nat
                       /\ mem.content[m.line.from] \in Nat /\ mem.offset[m.line.from] \in Nat
  <2> TAKE m \in sent
  <2>1. m.line.from \in Files /\ m \in Message
    BY <1>0 DEF TailInv
  <2>2. m.line.content \in Nat /\ m.line.n \in Nat
    BY <2>1 DEF Message
  <2> QED BY <1>0, <2>1, <2>2, StateFields, SenderAssumption
<1>1. CASE UNCHANGED <<mem, pc, pass, sent, crashes>>
  BY <1>0, <1>1, TailGoesOn DEF Ahead, history
<1>2. CASE UNCHANGED <<mem, sent, crashes>> /\ pc \notin {"offset", "save_offset"}
           /\ pc' \notin {"offset", "save_offset"}
  BY <1>0, <1>2, TailGoesOn DEF Ahead, history
<1>3. CASE Save("save_offset", "offset")
  BY <1>0, <1>3, TailGoesOn DEF Ahead, Save, history
<1>4. CASE OpenFile
  <2>1. /\ mem'.next = mem.next /\ sent' = sent
        /\ pc = "file" /\ pc' \notin {"offset", "save_offset"}
        /\ crashes' = crashes
    BY <1>0, <1>4, OpenFileDoes DEF OpenFile, history
  <2>2. ASSUME NEW m \in sent, Ahead(m.line)' PROVE Ahead(m.line)
    <3> DEFINE f == m.line.from
    <3>1. CASE mem'.content[f] = mem.content[f] /\ mem'.offset[f] = mem.offset[f]
      BY <2>1, <2>2, <3>1 DEF Ahead, history
    <3>2. CASE /\ mem'.content[f] = files[f].content /\ mem'.offset[f] = 0
               /\ mem.content[f] # files[f].content
      <4>1. mem.content[f] < files[f].content
        BY <1>0, <1>01, <3>2, TypeParts DEF PlaceInv, TypeInv, WorldType
      <4>2. files[f].content \in Nat
        BY <1>0, <1>01, TypeParts DEF TypeInv, WorldType
      <4> QED BY <1>01, <2>2, <3>2, <4>1, <4>2 DEF Ahead, history
    <3> QED BY <1>0, <1>01, <1>4, <3>1, <3>2, OpenFileDoes
  <2> QED BY <1>0, <2>1, <2>2, TailGoesOn
<1>5. CASE Advance
  <2>1. /\ mem'.next = mem.next /\ mem'.content = mem.content /\ pass.at \in Files
        /\ mem'.offset = [mem.offset EXCEPT ![pass.at] = mem.offset[pass.at] + 1]
        /\ pc = "offset" /\ pc' = "read" /\ sent' = sent /\ crashes' = crashes
    BY <1>0, <1>5, AdvanceDoes DEF Advance, history
  <2>2. ASSUME NEW m \in sent, Ahead(m.line)' PROVE Ahead(m.line)
    <3>1. mem'.offset[m.line.from] = IF m.line.from = pass.at THEN mem.offset[pass.at] + 1
                                     ELSE mem.offset[m.line.from]
      BY <1>0, <1>01, <2>1, StateFields
    <3> QED BY <1>01, <2>1, <2>2, <3>1 DEF Ahead, history
  <2> QED BY <1>0, <2>1, <2>2, TailGoesOn
<1>6. CASE HandleLine
  <2> DEFINE m == [seq |-> mem.next, line |-> HandledLine]
  <2>1. /\ mem'.content = mem.content /\ mem'.offset = mem.offset /\ pass.at \in Files
        /\ pc = "read" /\ pc' \in {"offset", "save_offset"} /\ pass' = pass /\ crashes' = crashes
        /\ mem'.next \in {mem.next, mem.next + 1} /\ mem.next \in Nat
    BY <1>0, <1>6, HandleLineDoes, StateFields DEF HandleLine, history
  <2>2. \/ sent' = sent
        \/ mem'.next = mem.next + 1 /\ sent' = sent \cup {m}
    BY <1>0, <1>6, HandleLineDoes
  <2>3. \A a \in sent : Ahead(a.line)' => Ahead(a.line)
    BY <1>01, <2>1 DEF Ahead, history
  <2>4. CASE sent' = sent
    <3>1. \A a \in sent : a.seq \in Nat
      BY <1>0, MessageFields
    <3> QED BY <1>0, <2>1, <2>3, <2>4, <3>1 DEF TailInv, ResentIsExactDuplicate, Numbers
  <2>5. CASE mem'.next = mem.next + 1 /\ sent' = sent \cup {m}
    <3>1. /\ m \in Message /\ m.seq = mem.next /\ m.line = HandledLine
          /\ HandledLine.from = pass.at /\ HandledLine.content = mem.content[pass.at]
          /\ HandledLine.n = mem.offset[pass.at] + 1
      BY <1>0, <1>6, TailMessage
    <3> HIDE DEF m
    <3>2. mem.offset[pass.at] \in Nat /\ mem.content[pass.at] \in Nat
      BY <1>0, <2>1, StateFields, SenderAssumption
    <3>3. Ahead(HandledLine)
      BY <2>1, <3>1, <3>2 DEF Ahead, history
    <3>4. IsFiniteSet(Numbers(HandledLine)) /\ Cardinality(Numbers(HandledLine)) <= crashes
      <4>1. CASE \E a \in sent : a.line = HandledLine
        BY <1>0, <3>3, <4>1 DEF TailInv
      <4>2. CASE ~\E a \in sent : a.line = HandledLine
        <5>1. Numbers(HandledLine) = {}
          BY <4>2 DEF Numbers
        <5> QED BY <1>0, <5>1, FS_EmptySet
      <4> QED BY <4>1, <4>2
    <3>5. /\ IsFiniteSet(Numbers(HandledLine) \cup {m.seq})
          /\ Cardinality(Numbers(HandledLine) \cup {m.seq}) <= 1 + crashes
      <4> DEFINE N == Numbers(HandledLine)
      <4>1. IsFiniteSet(N) /\ Cardinality(N) <= crashes
        BY <3>4
      <4> HIDE DEF N
      <4>2. /\ IsFiniteSet(N \cup {m.seq})
            /\ \/ Cardinality(N \cup {m.seq}) = Cardinality(N)
               \/ Cardinality(N \cup {m.seq}) = Cardinality(N) + 1
        BY <4>1, FS_AddElement, Zenon
      <4>3. Cardinality(N) \in Nat /\ crashes \in Int
        BY <1>0, <4>1, FS_CardinalityType
      <4>4. Cardinality(N \cup {m.seq}) <= 1 + crashes
        BY <4>1, <4>2, <4>3
      <4> QED BY <4>2, <4>4 DEF N
    <3>6. \A a \in sent' : /\ IsFiniteSet(Numbers(a.line)')
                           /\ Cardinality(Numbers(a.line)') <= 1 + crashes
                           /\ Ahead(a.line)' => Cardinality(Numbers(a.line)') <= crashes
      <4> TAKE a \in sent'
      <4>1. CASE a.line = HandledLine
        <5>1. Numbers(a.line)' = Numbers(HandledLine) \cup {m.seq}
          BY <2>5, <3>1, <4>1 DEF Numbers
        <5>2. ~Ahead(a.line)'
          BY <2>1, <3>1, <3>2, <4>1 DEF Ahead, history
        <5> QED BY <3>5, <5>1, <5>2
      <4>2. CASE a.line # HandledLine
        <5>1. a \in sent
          BY <2>5, <3>1, <4>2
        <5>2. Numbers(a.line)' = Numbers(a.line)
          BY <2>5, <3>1, <4>2 DEF Numbers
        <5> QED BY <1>0, <2>3, <5>1, <5>2 DEF TailInv
      <4> QED BY <4>1, <4>2
    <3>7. crashes = 0 => (\A a \in sent' : a.seq < mem'.next) /\ ResentIsExactDuplicate'
      <4> SUFFICES ASSUME crashes = 0
                   PROVE  (\A a \in sent' : a.seq < mem'.next) /\ ResentIsExactDuplicate'
        OBVIOUS
      <4>1. \A a \in sent : a.seq \in Nat /\ a.seq < mem.next
        BY <1>0, MessageFields DEF TailInv
      <4> QED BY <1>0, <2>1, <2>5, <3>1, <4>1 DEF TailInv, ResentIsExactDuplicate
    <3>8. \A a \in sent' : a.line.from \in Files /\ a.line.content \in Nat /\ a.line.n \in Nat
      BY <1>01, <2>1, <2>5, <3>1, <3>2
    <3> QED BY <2>1, <3>6, <3>7, <3>8 DEF TailInv
  <2> QED BY <2>2, <2>4, <2>5
<1>7. CASE Crash
  <2>1. crashes' = crashes + 1 /\ sent' = sent
    BY <1>7 DEF Crash
  <2>2. \A m \in sent : Numbers(m.line)' = Numbers(m.line)
    BY <2>1 DEF Numbers
  <2>3. \A m \in sent : /\ IsFiniteSet(Numbers(m.line)) /\ Cardinality(Numbers(m.line)) \in Nat
                        /\ Cardinality(Numbers(m.line)) <= 1 + crashes
    BY <1>0, FS_CardinalityType DEF TailInv
  <2> QED BY <1>0, <1>01, <2>1, <2>2, <2>3 DEF TailInv
<1> QED
  BY <1>00, <1>1, <1>2, <1>3, <1>4, <1>5, <1>6, <1>7
     DEF Next, TailMode, ReplayMode, WriteLine, Replace, FinishRun, RemoveRun, CloseFile, EndPass,
         BeginRun, AbandonRun, HandleItem, CompleteRun, Save, Arrive, ReplayPc, state, history, vars

-----------------------------------------------------------------------------
(***************************************************************************)
(* The theorems                                                            *)
(***************************************************************************)

\* The invariant holds at first.
LEMMA Initially == Init => IInv
<1> SUFFICES ASSUME Init PROVE IInv
  OBVIOUS
<1>1. mode \in {"tail", "replay"}
  BY SenderAssumption DEF Init
<1> QED
  BY <1>1, TypeStarts, DoneStarts, LinkStarts, TailStarts, ReplayStarts, ListsStart
     DEF IInv, NumberInv

\* The mode decides about the loop and about what is kept of runs.
LEMMA LoopKept ==
  ASSUME TypeInv, [Next]_vars
  PROVE  /\ mode' = "tail" => pc' \in TailPc /\ mem'.run = NoRun /\ disk'.run = NoRun
                              /\ mem'.completed = << >> /\ disk'.completed = << >>
         /\ mode' = "replay" => pc' \in ReplayPc
<1>0. PlaceInv /\ mode \in {"tail", "replay"}
  BY TypeParts, TwoModes DEF TypeInv
<1>1. CASE UNCHANGED mem /\ UNCHANGED disk /\ pc' = pc /\ mode' = mode
  BY <1>0, <1>1 DEF PlaceInv
<1>2. CASE OpenFile
  BY <1>0, <1>2, OpenFileDoes DEF OpenFile, PlaceInv, TailPc, ReplayPc, input
<1>3. CASE HandleLine
  BY <1>0, <1>3, HandleLineDoes DEF HandleLine, PlaceInv, TailPc, ReplayPc, input
<1>4. CASE Advance
  BY <1>0, <1>4, AdvanceDoes DEF Advance, PlaceInv, TailPc, ReplayPc, input
<1>5. CASE CloseFile \/ EndPass
  BY <1>0, <1>5 DEF CloseFile, EndPass, PlaceInv, TailPc, ReplayPc, input, state
<1>6. CASE BeginRun \/ AbandonRun \/ HandleItem \/ CompleteRun
  BY <1>0, <1>6 DEF BeginRun, AbandonRun, HandleItem, CompleteRun, PlaceInv, TailPc, ReplayPc, input
<1>7. CASE Save("save_offset", "offset") \/ Save("save_item", "item") \/ Save("save_idle", "idle")
  BY <1>0, <1>7 DEF Save, PlaceInv, TailPc, ReplayPc, input
<1>8. CASE Crash
  BY <1>0, <1>8 DEF Crash, PlaceInv, TailPc, ReplayPc, input
<1> QED
  BY <1>1, <1>2, <1>3, <1>4, <1>5, <1>6, <1>7, <1>8
     DEF Next, TailMode, ReplayMode, WriteLine, Replace, FinishRun, RemoveRun, Arrive, input, state,
         history, vars

\* Where the thread is, its counters have room.
LEMMA RoomKept ==
  ASSUME TypeInv, [Next]_vars
  PROVE  /\ pc' \notin {"save_offset", "save_item"} => sinceSave' < PersistEvery
         /\ pc' \in {"read", "offset", "save_offset"} => pass'.at \in Files
         /\ pc' \in {"offset", "save_offset"} =>
              pass'.lines < LinesPerPass /\ mem'.offset[pass'.at] < MaxLines
         /\ pc' \in {"item", "save_item"} => mem'.run.id \in Runs
<1>0. PlaceInv /\ mem \in States /\ WorldType /\ ThreadType
  BY TypeParts DEF TypeInv, StateType
<1> USE SenderAssumption
<1>1. CASE UNCHANGED <<mem, sinceSave, pass, pc>>
  BY <1>0, <1>1 DEF PlaceInv
<1>2. CASE OpenFile \/ CloseFile
  BY <1>0, <1>2 DEF OpenFile, CloseFile, PlaceInv, state
<1>3. CASE HandleLine
  <2>1. /\ pass.at \in Files /\ pass' = pass /\ mem'.offset = mem.offset
        /\ pc' \in {"offset", "save_offset"} /\ pass.lines < LinesPerPass
        /\ mem.offset[pass.at] < files[pass.at].count
        /\ (pc' = "offset" => sinceSave' < PersistEvery)
    <3>1. sinceSave < PersistEvery /\ sinceSave \in Nat
      BY <1>0, <1>3 DEF HandleLine, PlaceInv, ThreadType
    <3> QED BY <1>3, <3>1, HandleLineDoes DEF HandleLine, Readable
  <2>2. files[pass.at].count \in 0 .. MaxLines /\ mem.offset[pass.at] \in Nat
    BY <1>0, <2>1, StateFields DEF WorldType
  <2> QED BY <2>1, <2>2
<1>4. CASE Advance
  BY <1>0, <1>4 DEF Advance, PlaceInv
<1>5. CASE EndPass
  BY <1>0, <1>5 DEF EndPass, PlaceInv
<1>6. CASE BeginRun
  BY <1>6, BeginRunDoes DEF BeginRun
<1>7. CASE AbandonRun
  BY <1>0, <1>7 DEF AbandonRun, PlaceInv
<1>8. CASE HandleItem
  <2>1. sinceSave < PersistEvery /\ sinceSave \in Nat
    BY <1>0, <1>8 DEF HandleItem, PlaceInv, ThreadType
  <2> QED BY <1>8, <2>1, HandleItemDoes DEF HandleItem
<1>9. CASE CompleteRun
  BY <1>0, <1>9 DEF CompleteRun, PlaceInv
<1>10. CASE Save("save_offset", "offset") \/ Save("save_item", "item") \/ Save("save_idle", "idle")
  BY <1>0, <1>10 DEF Save, PlaceInv
<1>11. CASE Crash
  BY <1>11 DEF Crash
<1> QED
  BY <1>1, <1>2, <1>3, <1>4, <1>5, <1>6, <1>7, <1>8, <1>9, <1>10, <1>11
     DEF Next, TailMode, ReplayMode, WriteLine, Replace, FinishRun, RemoveRun, Arrive, state,
         history, vars

\* No file is known in a content that was not written yet.
LEMMA ContentKept ==
  ASSUME TypeInv, [Next]_vars, NEW f \in Files
  PROVE  mem'.content[f] <= files'[f].content /\ disk'.content[f] <= files'[f].content
<1>0. /\ mem.content[f] \in Nat /\ disk.content[f] \in Nat /\ files[f].content \in Nat
      /\ mem.content[f] <= files[f].content /\ disk.content[f] <= files[f].content
      /\ files \in [Files -> [content: Nat, count: 0 .. MaxLines]]
  <2>1. PlaceInv /\ mem \in States /\ disk \in States /\ WorldType
    BY TypeParts DEF TypeInv, StateType
  <2> QED BY <2>1, StateFields DEF PlaceInv, WorldType
<1>1. CASE /\ UNCHANGED files
           /\ mem'.content[f] \in {mem.content[f], disk.content[f], files[f].content}
           /\ disk'.content[f] \in {mem.content[f], disk.content[f]}
  BY <1>0, <1>1
<1>2. ASSUME NEW g \in Files, WriteLine(g) \/ Replace(g), UNCHANGED <<mem, disk>>
      PROVE  mem'.content[f] <= files'[f].content /\ disk'.content[f] <= files'[f].content
  <2>1. CASE WriteLine(g)
    <3>1. files' = [files EXCEPT ![g].count = @ + 1]
      BY <2>1 DEF WriteLine
    <3>2. files'[f].content = files[f].content
      BY <3>1, <1>0
    <3> QED BY <1>0, <1>2, <3>2
  <2>2. CASE Replace(g)
    <3>1. files' = [files EXCEPT ![g] = [content |-> files[g].content + 1, count |-> 1]]
      BY <2>2 DEF Replace
    <3>2. files'[f].content \in {files[f].content, files[f].content + 1}
      BY <3>1, <1>0
    <3> QED BY <1>0, <1>2, <3>2
  <2> QED BY <1>2, <2>1, <2>2
<1>3. CASE OpenFile
  BY <1>1, <1>3, OpenFileDoes DEF OpenFile, input
<1>4. CASE HandleLine \/ Advance \/ HandleItem \/ CompleteRun
  BY <1>1, <1>4, HandleLineDoes, AdvanceDoes, HandleItemDoes, CompleteRunDoes
     DEF HandleLine, Advance, HandleItem, CompleteRun, input
<1>5. CASE BeginRun
  BY <1>1, <1>5, BeginRunDoes DEF BeginRun, input
<1>6. CASE AbandonRun
  BY <1>1, <1>6, AbandonRunDoes DEF AbandonRun, input
<1>7. CASE Crash \/ EndPass \/ CloseFile
  BY <1>1, <1>7 DEF Crash, EndPass, CloseFile, input, state
<1>8. CASE Save("save_offset", "offset") \/ Save("save_item", "item") \/ Save("save_idle", "idle")
  BY <1>1, <1>8 DEF Save, input
<1>9. CASE UNCHANGED <<mem, disk, files>>
  BY <1>1, <1>9
<1> QED
  BY <1>2, <1>3, <1>4, <1>5, <1>6, <1>7, <1>8, <1>9
     DEF Next, TailMode, ReplayMode, WriteLine, Replace, FinishRun, RemoveRun, Arrive, input, state,
         history, vars

\* What holds where the thread is, in all.
LEMMA PlaceKept == TypeInv /\ [Next]_vars => PlaceInv'
BY LoopKept, RoomKept, ContentKept DEF PlaceInv

\* Every step keeps the invariant.
LEMMA Kept == IInv /\ [Next]_vars => IInv'
<1> SUFFICES ASSUME IInv, [Next]_vars PROVE IInv'
  OBVIOUS
<1>1. TypeInv'
  <2>1. WorldType' /\ StateType' /\ ThreadType' /\ LinkType' /\ PlaceInv'
    BY WorldKept, StateKept, ThreadKept, LinkKept, PlaceKept DEF IInv
  <2>2. TypeOK'
    BY <2>1, TypeParts, PTL
  <2> QED BY <2>1, <2>2 DEF TypeInv
<1>2. NumberInv'
  <2>1. mode' = mode
    BY DEF Next, TailMode, ReplayMode, WriteLine, Replace, FinishRun, RemoveRun, OpenFile,
           HandleLine, Save, Advance, CloseFile, EndPass, BeginRun, AbandonRun, HandleItem,
           CompleteRun, Crash, Arrive, input, history, vars
  <2> QED BY <2>1, TailKept, ReplayKept DEF NumberInv
<1> QED BY <1>1, <1>2, DoneKept, ListsKept, LinkKept DEF IInv

\* In a replayed run, and in tail mode until a crash, a number names one record.
LEMMA NumbersName == IInv => NumberMeansOneRecord
<1> SUFFICES ASSUME IInv, mode = "replay" \/ crashes = 0,
                    NEW a \in sent, NEW b \in sent, a.seq = b.seq
             PROVE  a = b
  BY DEF NumberMeansOneRecord, ResentIsExactDuplicate
<1>1. mode \in {"tail", "replay"} /\ a \in Message /\ b \in Message
  BY TypeParts, TwoModes DEF IInv, TypeInv, LinkInv
<1>2. CASE mode = "tail"
  BY <1>1, <1>2 DEF IInv, NumberInv, TailInv, ResentIsExactDuplicate
<1>3. CASE mode = "replay"
  <2>1. ReplayInv
    BY <1>3 DEF IInv, NumberInv
  <2>2. /\ a.line.from \in Runs /\ a.line.content = 0 /\ a.line.n \in 0 .. Total[a.line.from] - 1
        /\ b.line.from \in Runs /\ b.line.content = 0 /\ b.line.n \in 0 .. Total[b.line.from] - 1
    BY <2>1 DEF ReplayInv
  <2>3. a.seq \in Nat /\ Total[a.line.from] \in Nat /\ Total[b.line.from] \in Nat
    BY <1>1, <2>2, SenderAssumption DEF Message, Runs
  <2>4. a.line.from = b.line.from /\ Base(a) = Base(b)
    <3>1. \/ a.line.from = b.line.from /\ Base(a) = Base(b)
          \/ Base(a) + Total[a.line.from] <= Base(b)
          \/ Base(b) + Total[b.line.from] <= Base(a)
      BY <2>1 DEF ReplayInv
    <3> QED BY <2>2, <2>3, <3>1 DEF Base
  <2>5. a.line.n = b.line.n
    BY <2>2, <2>3, <2>4 DEF Base
  <2> QED BY <1>1, <2>2, <2>4, <2>5, SameMessage
<1> QED BY <1>1, <1>2, <1>3

\* A record of a replayed run has one number, unless the run was forgotten.
LEMMA RecordsNumbered ==
  ASSUME IInv, mode = "replay", NEW a \in sent, NEW b \in sent, a.line = b.line,
         a.line.from \notin forgotten
  PROVE  a = b
<1>1. a \in Message /\ b \in Message /\ ReplayInv
  BY DEF IInv, LinkInv, NumberInv
<1>2. Base(a) = Base(b)
  BY <1>1 DEF ReplayInv
<1>3. a.seq = b.seq
  BY <1>1, <1>2 DEF Base, Message
<1> QED BY <1>1, <1>3, SameMessage

\* A record has one number more for each crash at most; of a run that is remembered only one.
LEMMA NumbersOnce == IInv => OneNumberPerLife
<1> SUFFICES ASSUME IInv, NEW m \in sent
             PROVE  IF mode = "tail" THEN Cardinality(Numbers(m.line)) <= 1 + crashes
                    ELSE m.line.from \notin forgotten => Numbers(m.line) = {m.seq}
  BY DEF OneNumberPerLife
<1>1. mode \in {"tail", "replay"}
  BY TypeParts, TwoModes DEF IInv, TypeInv
<1>2. CASE mode = "tail"
  BY <1>2 DEF IInv, NumberInv, TailInv
<1>3. CASE mode = "replay"
  BY <1>3, RecordsNumbered DEF Numbers
<1> QED BY <1>1, <1>2, <1>3

\* The invariant implies what the run checks.
LEMMA Implied ==
  ASSUME IInv
  PROVE  /\ TypeOK /\ NumberingIsSound /\ NothingSkipped /\ SuppressedWasAccepted
         /\ ReplayAcceptedOnce
<1>1. TypeOK /\ LinkType
  BY TypeParts DEF IInv, TypeInv
<1>2. NothingSkipped
  BY Zenon DEF IInv, DoneInv, Sound, Handled, NothingSkipped, WasHandled
<1>3. NumberMeansOneRecord
  BY NumbersName
<1>4. SuppressedWasAccepted
  <2> SUFFICES ASSUME mode = "replay" \/ crashes = 0,
                      NEW m \in sent, Classify(win, m.seq) = Duplicate
               PROVE  m \in accepted
    BY DEF SuppressedWasAccepted
  <2>1. win \in StreamState /\ Seqs(accepted) \in SUBSET Nat /\ m.seq \in Nat
        /\ Represents(win, Seqs(accepted))
    BY <1>1 DEF LinkType, Seqs, IInv, LinkInv
  <2>2. m.seq \in Seqs(accepted)
    BY <2>1, ClassifyExact
  <2>3. PICK a \in accepted : a.seq = m.seq
    BY <2>2 DEF Seqs
  <2>4. a = m
    BY <1>1, <1>3, <2>3 DEF LinkType, NumberMeansOneRecord, ResentIsExactDuplicate
  <2> QED BY <2>3, <2>4
<1>5. ReplayAcceptedOnce
  BY <1>1, RecordsNumbered DEF ReplayAcceptedOnce, LinkType
<1>6. RunsAreRemembered
  BY DEF IInv, ListInv
<1> QED BY <1>1, <1>2, <1>3, <1>4, <1>5, <1>6, NumbersOnce DEF NumberingIsSound

\* Every variable keeps its type, for any files, runs and settings (state.py, tail.py, replay.py).
THEOREM TypeCorrect == Spec => []TypeOK
<1>1. Init => IInv BY Initially
<1>2. IInv /\ [Next]_vars => IInv' BY Kept
<1>3. IInv => TypeOK BY Implied
<1> QED BY <1>1, <1>2, <1>3, PTL DEF Spec

\* For any files, runs and settings, whenever the process crashes: in a replayed run, and in
\* tail mode until a crash, a number names one record; a record of a file gets one number
\* more for each crash at most; and one of a run has one number until the list of completed
\* runs has forgotten the run, which takes more finished runs than the list has room for
\* (state.py:3-5 and 61-65, replay.py:52-55).
THEOREM NumbersSound == Spec => []NumberingIsSound
<1>1. Init => IInv BY Initially
<1>2. IInv /\ [Next]_vars => IInv' BY Kept
<1>3. IInv => NumberingIsSound BY Implied
<1> QED BY <1>1, <1>2, <1>3, PTL DEF Spec

\* Whatever is written, replaced and removed, and whenever the process crashes: what is saved
\* as done was put on the link, or was not to be (tail.py, replay.py).
THEOREM NothingSkippedEver == Spec => []NothingSkipped
<1>1. Init => IInv BY Initially
<1>2. IInv /\ [Next]_vars => IInv' BY Kept
<1>3. IInv => NothingSkipped BY Implied
<1> QED BY <1>1, <1>2, <1>3, PTL DEF Spec

\* For every window size, and in whichever order the link delivers, repeats and loses: a
\* record that the receiver would suppress was accepted (dedup.py:82-99).
THEOREM SuppressedAccepted == Spec => []SuppressedWasAccepted
<1>1. Init => IInv BY Initially
<1>2. IInv /\ [Next]_vars => IInv' BY Kept
<1>3. IInv => SuppressedWasAccepted BY Implied
<1> QED BY <1>1, <1>2, <1>3, PTL DEF Spec

\* However often the records of a replayed run are sent again after crashes, and whatever
\* the link repeats, each is accepted at most once, unless the list of completed runs has
\* forgotten the run (replay.py, state.py:3-5 and 61-65).
THEOREM AcceptedOnce == Spec => []ReplayAcceptedOnce
<1>1. Init => IInv BY Initially
<1>2. IInv /\ [Next]_vars => IInv' BY Kept
<1>3. IInv => ReplayAcceptedOnce BY Implied
<1> QED BY <1>1, <1>2, <1>3, PTL DEF Spec

=============================================================================
