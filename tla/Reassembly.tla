----------------------------- MODULE Reassembly -----------------------------
(***************************************************************************)
(* The receiver's reassembly of records that need several datagrams        *)
(* (reassembly.py): a bounded table of incomplete records in the order of  *)
(* their first fragments, with a timeout.  The link loses, repeats and     *)
(* reorders the fragments, and after a crash of the sender two records can *)
(* have the same key.                                                      *)
(***************************************************************************)
EXTENDS Integers, SequencesExt, FiniteSetsExt

CONSTANTS
  Records,    \* the records that are sent
  Key,        \* the key of a record: frame type, sensor, boot and sequence
  Total,      \* the length of a record
  Missing,    \* a chunk that has not arrived
  ChunkBytes, \* MAX_CHUNK_BYTES
  MaxPending, \* max_pending
  Timeout,    \* timeout_us, in ticks of the clock
  MaxTime,    \* bound on the clock
  MaxFrames   \* bound on the datagrams that arrive

ASSUME ReassemblyAssumption ==
  /\ MaxPending \in Nat \ {0} /\ Timeout \in Nat \ {0}
  /\ MaxTime \in Nat /\ MaxFrames \in Nat
  /\ ChunkBytes \in Nat \ {0} /\ Missing \notin Records /\ Total \in [Records -> Nat \ {0}]

VARIABLES
  pending,     \* _pending, oldest first
  now,         \* the clock
  completed,   \* history: the records handed on, each as its chunks
  quarantined, \* history: the keys given up, with the reason
  arrived,     \* history: the datagrams that arrived
  count        \* how many datagrams arrived

vars == <<pending, now, completed, quarantined, arrived, count>>

\* encode: a fragment carries the key, the number of fragments, the total length,
\* its index and its chunk, which stands for the record it was cut from.
FragCount(r) == (Total[r] + ChunkBytes - 1) \div ChunkBytes
Fragments == UNION {{[record |-> r, index |-> i] : i \in 1 .. FragCount(r)} : r \in Records}

Init ==
  /\ pending = << >> /\ now = 0
  /\ completed = {} /\ quarantined = {} /\ arrived = {} /\ count = 0

Entry(k) == SelectInSeq(pending, LAMBDA p : p.key = k)

Without(k) == RemoveAt(pending, Entry(k))

\* The entry of a key that is not pending yet.
NewEntry(r) ==
  [key |-> Key[r], total |-> Total[r], since |-> now,
   chunks |-> [i \in 1 .. FragCount(r) |-> Missing]]

\* A mutation of Overflow: what gives way is not reported.
OverflowSilent == {}

\* The oldest entry gives way when the table is full.
Room == IF Len(pending) >= MaxPending THEN Tail(pending) ELSE pending
Overflow ==
  IF Len(pending) >= MaxPending THEN {[reason |-> "overflow", key |-> Head(pending).key]} ELSE {}

\* A mutation of Filled: every fragment renews the entry's time.
FilledRenewing(p, f) ==
  IF p.chunks[f.index] = Missing
    THEN [p EXCEPT !.chunks[f.index] = f.record, !.since = now] ELSE p

\* A fragment goes into its place of an entry, unless the place is taken.
Filled(p, f) ==
  IF p.chunks[f.index] = Missing THEN [p EXCEPT !.chunks[f.index] = f.record] ELSE p

\* A mutation of IsComplete: the last fragment is not waited for.
IsCompleteEarly(p) == \A i \in DOMAIN p.chunks \ {Len(p.chunks)} : p.chunks[i] # Missing

IsComplete(p) == \A i \in DOMAIN p.chunks : p.chunks[i] # Missing

Arrives(f) ==
  /\ count < MaxFrames
  /\ count' = count + 1
  /\ arrived' = arrived \cup {f}
  /\ UNCHANGED now

\* add, for a record in one fragment.
AddWhole(f) ==
  /\ FragCount(f.record) = 1
  /\ Arrives(f)
  /\ completed' = completed \cup {[key |-> Key[f.record], chunks |-> <<f.record>>]}
  /\ UNCHANGED <<pending, quarantined>>

\* add, for the first fragment of a key.
AddFirst(f) ==
  /\ FragCount(f.record) > 1
  /\ Entry(Key[f.record]) = 0
  /\ Arrives(f)
  /\ pending' = Append(Room, Filled(NewEntry(f.record), f))
  /\ quarantined' = quarantined \cup Overflow
  /\ UNCHANGED completed

\* add, for a fragment that contradicts the entry of its key.
AddContradiction(f) ==
  LET i == Entry(Key[f.record])
  IN  /\ FragCount(f.record) > 1 /\ i # 0
      /\ pending[i].total # Total[f.record]
      /\ Arrives(f)
      /\ pending' = Without(Key[f.record])
      /\ quarantined' = quarantined \cup {[reason |-> "malformed", key |-> Key[f.record]]}
      /\ UNCHANGED completed

\* add, for a further fragment: the entry leaves when it is complete.
AddFurther(f) ==
  LET i     == Entry(Key[f.record])
      entry == Filled(pending[i], f)
  IN  /\ FragCount(f.record) > 1 /\ i # 0
      /\ pending[i].total = Total[f.record]
      /\ Arrives(f)
      /\ IF IsComplete(entry)
           THEN /\ pending' = Without(entry.key)
                /\ completed' = completed \cup {[key |-> entry.key, chunks |-> entry.chunks]}
           ELSE /\ pending' = ReplaceAt(pending, i, entry)
                /\ UNCHANGED completed
      /\ UNCHANGED quarantined

\* A mutation of Expire: it only looks at the oldest entry.
ExpireOne ==
  /\ pending # << >> /\ now - Head(pending).since >= Timeout
  /\ pending' = Tail(pending)
  /\ quarantined' = quarantined \cup {[reason |-> "timeout", key |-> Head(pending).key]}
  /\ UNCHANGED <<now, completed, arrived, count>>

\* expire: from the oldest entry on, up to the first that is young enough.
Expire ==
  LET young == {i \in DOMAIN pending : now - pending[i].since < Timeout}
      keep  == IF young = {} THEN Len(pending) + 1 ELSE Min(young)
  IN  /\ pending' = SubSeq(pending, keep, Len(pending))
      /\ quarantined' = quarantined \cup
           {[reason |-> "timeout", key |-> pending[i].key] : i \in 1 .. keep - 1}
      /\ UNCHANGED <<now, completed, arrived, count>>

Tick ==
  /\ now < MaxTime
  /\ now' = now + 1
  /\ UNCHANGED <<pending, completed, quarantined, arrived, count>>

Add(f) == AddWhole(f) \/ AddFirst(f) \/ AddContradiction(f) \/ AddFurther(f)

Next ==
  \/ \E f \in Fragments : Add(f)
  \/ Expire
  \/ Tick

Spec == Init /\ [][Next]_vars

-----------------------------------------------------------------------------
(***************************************************************************)
(* Properties                                                              *)
(***************************************************************************)

\* The table holds at most MaxPending entries, one per key, none of them complete, and
\* they are "insertion-ordered: the rest are younger" (reassembly.py:68), which lets expire
\* stop at the first young entry and overflow take the oldest one.
TableIsInOrder ==
  /\ Len(pending) <= MaxPending
  /\ \A i, j \in DOMAIN pending : pending[i].key = pending[j].key => i = j
  /\ \A i \in DOMAIN pending : \E c \in DOMAIN pending[i].chunks : pending[i].chunks[c] = Missing
  /\ \A i, j \in DOMAIN pending : i < j => pending[i].since <= pending[j].since

\* After expire no entry is older than the timeout.
NoneOverstays ==
  [][Expire => \A i \in DOMAIN pending' : now - pending'[i].since < Timeout]_vars

\* Nothing vanishes: every fragment that arrived is in the table, or its key was
\* handed on or given up with a reason.
NothingVanishes ==
  \A f \in arrived :
    LET k == Key[f.record]
    IN  \/ \E i \in DOMAIN pending :
             /\ pending[i].key = k /\ f.index \in DOMAIN pending[i].chunks
             /\ pending[i].chunks[f.index] # Missing
        \/ \E c \in completed : c.key = k
        \/ \E q \in quarantined : q.key = k

\* A record that is handed on consists of fragments that arrived, of records of
\* its key and its length; it is the record that was sent unless the sender used
\* the key for two records of one length.
CompletedIsWhole ==
  \A c \in completed :
    /\ \A i \in DOMAIN c.chunks : [record |-> c.chunks[i], index |-> i] \in arrived
    /\ \A i \in DOMAIN c.chunks : LET r == c.chunks[i] IN
         /\ Key[r] = c.key /\ Len(c.chunks) = FragCount(r)
         /\ \/ \A j \in DOMAIN c.chunks : c.chunks[j] = r
            \/ \E s \in Records \ {r} : Key[s] = Key[r] /\ Total[s] = Total[r]

=============================================================================
