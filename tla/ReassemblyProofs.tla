-------------------------- MODULE ReassemblyProofs --------------------------
(***************************************************************************)
(* What the reassembly of fragments promises for any records, keys and     *)
(* lengths, any size of the table and any timeout, and in whichever order  *)
(* fragments arrive, expire and give way.                                  *)
(***************************************************************************)
EXTENDS Reassembly, SequenceTheorems, WellFoundedInduction, TLAPS

\* The entries of the table.
Entries ==
  [key: {Key[r] : r \in Records}, total: Nat \ {0}, since: Nat, chunks: Seq(Records \cup {Missing})]

\* What an entry has is of fragments that arrived, of its key and its length, and
\* something is missing.
EntryInv(p, A) ==
  /\ \E r \in Records : Total[r] = p.total /\ FragCount(r) = Len(p.chunks)
  /\ \E i \in 1 .. Len(p.chunks) : p.chunks[i] = Missing
  /\ \A i \in 1 .. Len(p.chunks) : p.chunks[i] # Missing =>
       /\ [record |-> p.chunks[i], index |-> i] \in A
       /\ Key[p.chunks[i]] = p.key /\ Total[p.chunks[i]] = p.total

\* A table has one entry for a key, older ones first, at the time t and with A arrived.
TableInv(s, t, A) ==
  /\ \A i, j \in 1 .. Len(s) : s[i].key = s[j].key => i = j
  /\ \A i, j \in 1 .. Len(s) : i < j => s[i].since <= s[j].since
  /\ \A i \in 1 .. Len(s) : EntryInv(s[i], A) /\ s[i].since <= t

TypeInv ==
  /\ pending \in Seq(Entries) /\ Len(pending) <= MaxPending
  /\ now \in Nat /\ count \in Nat /\ arrived \subseteq Fragments

\* The inductive invariant.
IInv ==
  /\ TypeInv /\ TableInv(pending, now, arrived)
  /\ NothingVanishes /\ CompletedIsWhole

-----------------------------------------------------------------------------
(***************************************************************************)
(* Operators                                                               *)
(***************************************************************************)

\* A set of numbers has a least element.
LEMMA Least ==
  ASSUME NEW S \in SUBSET Nat, S # {}
  PROVE  Min(S) \in S /\ \A y \in S : Min(S) <= y
<1> DEFINE R == OpToRel(<, Nat)
<1>1. IsWellFoundedOn(R, Nat)
  BY NatLessThanWellFounded
<1>2. \A x, y \in Nat : y < x => <<y, x>> \in R
  BY DEF OpToRel
<1> HIDE DEF R
<1>3. \E x \in S : \A y \in S : ~(<<y, x>> \in R)
  BY <1>1, WFMin
<1>4. \A x, y \in S : ~(<<y, x>> \in R) => x =< y
  <2>1. \A x, y \in Nat : ~(y < x) => x =< y
    OBVIOUS
  <2> QED
    BY <1>2, <2>1, Zenon
<1>5. \E x \in S : \A y \in S : x =< y
  BY <1>3, <1>4, Zenon
<1> QED
  BY <1>5, Zenon DEF Min

\* A fragment belongs to a record, and has a place in it.
LEMMA FragmentIs ==
  ASSUME NEW f \in Fragments
  PROVE  /\ f.record \in Records /\ f.index \in 1 .. FragCount(f.record)
         /\ f = [record |-> f.record, index |-> f.index]
         /\ FragCount(f.record) \in Int /\ Total[f.record] \in Nat \ {0}
<1>1. PICK r \in Records : f \in {[record |-> r, index |-> i] : i \in 1 .. FragCount(r)}
  BY DEF Fragments
<1>2. PICK i \in 1 .. FragCount(r) : f = [record |-> r, index |-> i]
  BY <1>1
<1>3. f.record = r /\ f.index = i
  BY <1>2
<1>4. Total[r] \in Nat \ {0} /\ ChunkBytes \in Nat \ {0}
  BY ReassemblyAssumption
<1>5. FragCount(r) \in Int
  BY <1>4 DEF FragCount
<1> QED BY <1>2, <1>3, <1>4, <1>5

\* Records of one length have as many fragments.
LEMMA SameFragCount ==
  ASSUME NEW r, NEW s, Total[r] = Total[s]
  PROVE  FragCount(r) = FragCount(s)
BY DEF FragCount

\* An entry's fields.
LEMMA EntryFields ==
  ASSUME NEW p \in Entries
  PROVE  /\ p.key \in {Key[r] : r \in Records} /\ p.total \in Nat \ {0} /\ p.since \in Nat
         /\ p.chunks \in Seq(Records \cup {Missing}) /\ Len(p.chunks) \in Nat
         /\ DOMAIN p.chunks = 1 .. Len(p.chunks)
         /\ p = [key |-> p.key, total |-> p.total, since |-> p.since, chunks |-> p.chunks]
BY DEF Entries

\* Where the entry of a key is.
LEMMA EntryIs ==
  ASSUME pending \in Seq(Entries), NEW k
  PROVE  /\ Entry(k) = 0 => \A i \in 1 .. Len(pending) : pending[i].key # k
         /\ Entry(k) # 0 => Entry(k) \in 1 .. Len(pending) /\ pending[Entry(k)].key = k
<1> DEFINE I == {i \in 1 .. Len(pending) : pending[i].key = k}
<1>1. Entry(k) = IF I # {} THEN Min(I) ELSE 0
  BY DEF Entry, SelectInSeq
<1>2. I \in SUBSET Nat
  OBVIOUS
<1>3. I # {} => Min(I) \in I
  BY <1>2, Least
<1>4. \A i \in I : i # 0
  OBVIOUS
<1> QED BY <1>1, <1>3, <1>4

-----------------------------------------------------------------------------
(***************************************************************************)
(* Tables that lose entries                                                *)
(***************************************************************************)

\* What remains is in the order of places h.
Remains(s, t, h) ==
  /\ h \in [1 .. Len(t) -> 1 .. Len(s)]
  /\ \A i, j \in 1 .. Len(t) : i < j => h[i] < h[j]
  /\ \A i \in 1 .. Len(t) : t[i] = s[h[i]]

\* What remains of a table is one.
LEMMA RemainsTable ==
  ASSUME NEW s \in Seq(Entries), NEW t \in Seq(Entries), NEW h, Remains(s, t, h),
         NEW n, NEW A, TableInv(s, n, A)
  PROVE  TableInv(t, n, A)
<1>0. /\ \A i \in 1 .. Len(t) : h[i] \in 1 .. Len(s) /\ t[i] = s[h[i]]
      /\ \A i, j \in 1 .. Len(t) : i < j => h[i] < h[j]
  BY DEF Remains
<1>1. ASSUME NEW i \in 1 .. Len(t), NEW j \in 1 .. Len(t), t[i].key = t[j].key PROVE i = j
  <2>1. h[i] = h[j]
    BY <1>0, <1>1 DEF TableInv
  <2> QED BY <1>0, <2>1
<1>2. ASSUME NEW i \in 1 .. Len(t), NEW j \in 1 .. Len(t), i < j PROVE t[i].since <= t[j].since
  BY <1>0, <1>2 DEF TableInv
<1>3. ASSUME NEW i \in 1 .. Len(t) PROVE EntryInv(t[i], A) /\ t[i].since <= n
  BY <1>0 DEF TableInv
<1> QED BY <1>1, <1>2, <1>3 DEF TableInv

\* The oldest entry gives way.
LEMMA TailRemains ==
  ASSUME NEW s \in Seq(Entries), s # <<>>
  PROVE  /\ Tail(s) \in Seq(Entries) /\ Len(Tail(s)) = Len(s) - 1 /\ Len(s) \in Nat \ {0}
         /\ Head(s) = s[1] /\ \A i \in 2 .. Len(s) : \E j \in 1 .. Len(Tail(s)) : Tail(s)[j] = s[i]
         /\ \E h : Remains(s, Tail(s), h)
<1> DEFINE t == Tail(s)
<1>1. /\ t \in Seq(Entries) /\ Len(t) = Len(s) - 1 /\ Len(s) \in Nat \ {0} /\ Head(s) = s[1]
      /\ \A i \in 1 .. Len(t) : t[i] = s[i + 1]
  OBVIOUS
<1> HIDE DEF t
<1>2. ASSUME NEW i \in 2 .. Len(s) PROVE \E j \in 1 .. Len(t) : t[j] = s[i]
  <2>1. i - 1 \in 1 .. Len(t) /\ t[i - 1] = s[i]
    BY <1>1
  <2> QED BY <2>1
<1>3. Remains(s, t, [i \in 1 .. Len(t) |-> i + 1])
  BY <1>1 DEF Remains
<1> QED BY <1>1, <1>2, <1>3 DEF t

\* The entry at a place is removed.
LEMMA RemoveAtRemains ==
  ASSUME NEW s \in Seq(Entries), NEW k \in 1 .. Len(s)
  PROVE  LET t == RemoveAt(s, k) IN
         /\ t \in Seq(Entries) /\ Len(t) = Len(s) - 1
         /\ \A i \in 1 .. Len(s) \ {k} : \E j \in 1 .. Len(t) : t[j] = s[i]
         /\ \E h : Remains(s, t, h)
<1> DEFINE a == SubSeq(s, 1, k - 1)
           b == SubSeq(s, k + 1, Len(s))
           t == a \o b
<1>0. RemoveAt(s, k) = t
  BY DEF RemoveAt
<1>1. a \in Seq(Entries) /\ Len(a) = k - 1 /\ \A i \in 1 .. k - 1 : a[i] = s[i]
  BY SubSeqProperties
<1>2. b \in Seq(Entries) /\ Len(b) = Len(s) - k /\ \A i \in 1 .. Len(s) - k : b[i] = s[k + i]
  BY SubSeqProperties
<1> HIDE DEF a, b
<1>3. /\ t \in Seq(Entries) /\ Len(t) = Len(s) - 1
      /\ \A i \in 1 .. Len(t) : t[i] = IF i < k THEN s[i] ELSE s[i + 1]
  <2>1. /\ t \in Seq(Entries) /\ Len(t) = Len(a) + Len(b)
        /\ \A i \in 1 .. Len(a) + Len(b) : t[i] = IF i <= Len(a) THEN a[i] ELSE b[i - Len(a)]
    BY <1>1, <1>2, ConcatProperties
  <2> HIDE DEF t
  <2>2. Len(t) = Len(s) - 1
    BY <1>1, <1>2, <2>1
  <2>3. ASSUME NEW i \in 1 .. Len(t) PROVE t[i] = IF i < k THEN s[i] ELSE s[i + 1]
    <3>1. CASE i < k
      BY <1>1, <2>1, <2>2, <3>1
    <3>2. CASE ~(i < k)
      <4>1. i - (k - 1) \in 1 .. Len(s) - k /\ k + (i - (k - 1)) = i + 1
        BY <2>2, <3>2
      <4>2. t[i] = b[i - (k - 1)]
        BY <1>1, <1>2, <2>1, <2>2, <3>2
      <4> QED BY <1>2, <3>2, <4>1, <4>2
    <3> QED BY <3>1, <3>2
  <2> QED BY <2>1, <2>2, <2>3
<1> HIDE DEF t
<1>4. ASSUME NEW i \in 1 .. Len(s) \ {k} PROVE \E j \in 1 .. Len(t) : t[j] = s[i]
  <2>1. CASE i < k
    <3>1. i \in 1 .. Len(t) /\ t[i] = s[i]
      BY <1>3, <2>1
    <3> QED BY <3>1
  <2>2. CASE ~(i < k)
    <3>1. i - 1 \in 1 .. Len(t) /\ t[i - 1] = s[i]
      BY <1>3, <2>2
    <3> QED BY <3>1
  <2> QED BY <2>1, <2>2
<1>5. Remains(s, t, [i \in 1 .. Len(t) |-> IF i < k THEN i ELSE i + 1])
  BY <1>3 DEF Remains
<1> QED BY <1>0, <1>3, <1>4, <1>5

\* Entries are removed up to a place.
LEMMA SubSeqRemains ==
  ASSUME NEW s \in Seq(Entries), NEW k \in 1 .. Len(s) + 1
  PROVE  LET t == SubSeq(s, k, Len(s)) IN
         /\ t \in Seq(Entries) /\ Len(t) = Len(s) + 1 - k
         /\ \A i \in 1 .. Len(t) : t[i] = s[k + i - 1]
         /\ \A i \in k .. Len(s) : \E j \in 1 .. Len(t) : t[j] = s[i]
         /\ \E h : Remains(s, t, h)
<1> DEFINE t == SubSeq(s, k, Len(s))
<1>1. t \in Seq(Entries) /\ Len(t) = Len(s) + 1 - k /\ \A i \in 1 .. Len(t) : t[i] = s[k + i - 1]
  BY SubSeqProperties
<1> HIDE DEF t
<1>2. ASSUME NEW i \in k .. Len(s) PROVE \E j \in 1 .. Len(t) : t[j] = s[i]
  <2>1. i + 1 - k \in 1 .. Len(t) /\ t[i + 1 - k] = s[i]
    BY <1>1
  <2> QED BY <2>1
<1>3. Remains(s, t, [i \in 1 .. Len(t) |-> k + i - 1])
  BY <1>1 DEF Remains
<1> QED BY <1>1, <1>2, <1>3 DEF t

-----------------------------------------------------------------------------
(***************************************************************************)
(* Entries and fragments                                                   *)
(***************************************************************************)

\* A fragment is in an entry of a table.
Has(s, f) ==
  \E i \in 1 .. Len(s) :
    /\ s[i].key = Key[f.record] /\ f.index \in 1 .. Len(s[i].chunks)
    /\ s[i].chunks[f.index] # Missing

\* A fragment is in the table, or its key was handed on or given up.
Kept(s, C, Q, f) ==
  \/ Has(s, f)
  \/ \E c \in C : c.key = Key[f.record]
  \/ \E q \in Q : q.key = Key[f.record]

\* What the run checks, in these terms.
LEMMA VanishesIs ==
  ASSUME pending \in Seq(Entries)
  PROVE  NothingVanishes <=> \A f \in arrived : Kept(pending, completed, quarantined, f)
<1>1. DOMAIN pending = 1 .. Len(pending)
  OBVIOUS
<1>2. \A i \in 1 .. Len(pending) : DOMAIN pending[i].chunks = 1 .. Len(pending[i].chunks)
  BY EntryFields
<1> QED BY <1>1, <1>2 DEF NothingVanishes, Kept, Has

\* A fragment goes into its place, and all else stays.
LEMMA FilledIs ==
  ASSUME NEW p \in Entries, NEW f \in Fragments, f.index \in 1 .. Len(p.chunks)
  PROVE  LET q == Filled(p, f) IN
         /\ q \in Entries /\ q.key = p.key /\ q.total = p.total /\ q.since = p.since
         /\ Len(q.chunks) = Len(p.chunks) /\ q.chunks[f.index] # Missing
         /\ \A i \in 1 .. Len(p.chunks) :
              \/ q.chunks[i] = p.chunks[i]
              \/ i = f.index /\ p.chunks[i] = Missing /\ q.chunks[i] = f.record
<1> DEFINE c == [p.chunks EXCEPT ![f.index] = f.record]
<1>0. f.record \in Records /\ f.record # Missing
  BY FragmentIs, ReassemblyAssumption
<1>1. CASE p.chunks[f.index] # Missing
  BY <1>1 DEF Filled
<1>2. CASE p.chunks[f.index] = Missing
  <2>1. c \in Seq(Records \cup {Missing}) /\ Len(c) = Len(p.chunks)
    BY <1>0, EntryFields
  <2>2. \A i \in 1 .. Len(p.chunks) : c[i] = IF i = f.index THEN f.record ELSE p.chunks[i]
    BY EntryFields
  <2>3. Filled(p, f) = [key |-> p.key, total |-> p.total, since |-> p.since, chunks |-> c]
    <3>1. Filled(p, f) = [p EXCEPT !.chunks = c]
      BY <1>2 DEF Filled
    <3> QED BY <3>1 DEF Entries
  <2> HIDE DEF c
  <2>4. /\ Filled(p, f) \in Entries /\ Filled(p, f).chunks = c /\ Filled(p, f).key = p.key
        /\ Filled(p, f).total = p.total /\ Filled(p, f).since = p.since
    BY <2>1, <2>3, EntryFields DEF Entries
  <2> QED BY <1>0, <1>2, <2>1, <2>2, <2>4
<1> QED BY <1>1, <1>2

\* An entry stays one when a fragment of its key and its length goes into it, as long
\* as something is missing.
LEMMA FilledKeeps ==
  ASSUME NEW p \in Entries, NEW f \in Fragments, NEW A, EntryInv(p, A),
         p.key = Key[f.record], p.total = Total[f.record]
  PROVE  /\ f.index \in 1 .. Len(p.chunks)
         /\ ~IsComplete(Filled(p, f)) => EntryInv(Filled(p, f), A \cup {f})
         /\ \A i \in 1 .. Len(p.chunks) : Filled(p, f).chunks[i] # Missing =>
              /\ [record |-> Filled(p, f).chunks[i], index |-> i] \in A \cup {f}
              /\ Key[Filled(p, f).chunks[i]] = p.key
              /\ Total[Filled(p, f).chunks[i]] = p.total
              /\ FragCount(Filled(p, f).chunks[i]) = Len(p.chunks)
<1>1. PICK r \in Records : Total[r] = p.total /\ FragCount(r) = Len(p.chunks)
  BY DEF EntryInv
<1>2. FragCount(f.record) = Len(p.chunks) /\ f.index \in 1 .. Len(p.chunks)
  BY <1>1, SameFragCount, FragmentIs
<1> DEFINE q == Filled(p, f)
<1>3. /\ q \in Entries /\ q.key = p.key /\ q.total = p.total /\ Len(q.chunks) = Len(p.chunks)
      /\ \A i \in 1 .. Len(p.chunks) :
           \/ q.chunks[i] = p.chunks[i]
           \/ i = f.index /\ q.chunks[i] = f.record
  BY <1>2, FilledIs
<1> HIDE DEF q
<1>4. ASSUME NEW i \in 1 .. Len(p.chunks), q.chunks[i] # Missing
      PROVE  /\ [record |-> q.chunks[i], index |-> i] \in A \cup {f}
             /\ Key[q.chunks[i]] = p.key /\ Total[q.chunks[i]] = p.total
  <2>1. CASE q.chunks[i] = p.chunks[i]
    BY <1>4, <2>1 DEF EntryInv
  <2>2. CASE i = f.index /\ q.chunks[i] = f.record
    BY <2>2, FragmentIs
  <2> QED BY <1>3, <2>1, <2>2
<1>5. ~IsComplete(q) => \E i \in 1 .. Len(q.chunks) : q.chunks[i] = Missing
  BY <1>3, EntryFields DEF IsComplete
<1>6. ~IsComplete(q) => EntryInv(q, A \cup {f})
  BY <1>1, <1>3, <1>4, <1>5 DEF EntryInv
<1>7. \A i \in 1 .. Len(p.chunks) : q.chunks[i] # Missing =>
        FragCount(q.chunks[i]) = Len(p.chunks)
  BY <1>1, <1>4, SameFragCount
<1> QED BY <1>2, <1>4, <1>6, <1>7 DEF q

\* More arrives, and time passes.
LEMMA TableGoesOn ==
  ASSUME NEW s \in Seq(Entries), NEW n \in Nat, NEW m \in Nat, n <= m, NEW A, NEW B, A \subseteq B,
         TableInv(s, n, A)
  PROVE  TableInv(s, m, B)
<1>1. \A p : EntryInv(p, A) => EntryInv(p, B)
  BY DEF EntryInv
<1>2. \A i \in 1 .. Len(s) : s[i].since <= m
  BY EntryFields DEF TableInv
<1> QED BY <1>1, <1>2 DEF TableInv

\* A younger entry of another key is appended.
LEMMA AppendTable ==
  ASSUME NEW s \in Seq(Entries), NEW n \in Nat, NEW A, TableInv(s, n, A),
         NEW q \in Entries, EntryInv(q, A), q.since = n, \A i \in 1 .. Len(s) : s[i].key # q.key
  PROVE  LET t == Append(s, q) IN
         /\ t \in Seq(Entries) /\ Len(t) = Len(s) + 1 /\ TableInv(t, n, A)
         /\ t[Len(s) + 1] = q /\ \A i \in 1 .. Len(s) : t[i] = s[i]
<1> DEFINE t == Append(s, q)
<1>1. /\ t \in Seq(Entries) /\ Len(t) = Len(s) + 1 /\ t[Len(s) + 1] = q /\ Len(s) \in Nat
      /\ \A i \in 1 .. Len(s) : t[i] = s[i]
  OBVIOUS
<1> HIDE DEF t
<1>2. \A i \in 1 .. Len(t) : i = Len(s) + 1 \/ i \in 1 .. Len(s)
  BY <1>1
<1>3. \A i, j \in 1 .. Len(t) : t[i].key = t[j].key => i = j
  BY <1>1, <1>2 DEF TableInv
<1>4. \A i, j \in 1 .. Len(t) : i < j => t[i].since <= t[j].since
  BY <1>1, <1>2 DEF TableInv
<1>5. \A i \in 1 .. Len(t) : EntryInv(t[i], A) /\ t[i].since <= n
  BY <1>1, <1>2 DEF TableInv
<1> QED BY <1>1, <1>3, <1>4, <1>5 DEF TableInv, t

\* An entry is replaced by one of its key and its time.
LEMMA ReplaceTable ==
  ASSUME NEW s \in Seq(Entries), NEW n \in Nat, NEW A, TableInv(s, n, A), NEW k \in 1 .. Len(s),
         NEW q \in Entries, EntryInv(q, A), q.key = s[k].key, q.since = s[k].since
  PROVE  LET t == ReplaceAt(s, k, q) IN
         /\ t \in Seq(Entries) /\ Len(t) = Len(s) /\ TableInv(t, n, A)
         /\ t[k] = q /\ \A i \in 1 .. Len(s) \ {k} : t[i] = s[i]
<1> DEFINE t == ReplaceAt(s, k, q)
<1>1. /\ t \in Seq(Entries) /\ Len(t) = Len(s) /\ t[k] = q
      /\ \A i \in 1 .. Len(s) \ {k} : t[i] = s[i]
  BY DEF ReplaceAt
<1> HIDE DEF t
<1>2. \A i \in 1 .. Len(t) : t[i].key = s[i].key /\ t[i].since = s[i].since
  BY <1>1
<1>3. \A i \in 1 .. Len(t) : EntryInv(t[i], A)
  BY <1>1 DEF TableInv
<1> QED BY <1>1, <1>2, <1>3 DEF TableInv, t

\* A fragment stays in the table as long as its entry does, and what is handed on or
\* given up stays so.
LEMMA KeptRemains ==
  ASSUME NEW s, NEW t, NEW C, NEW D, NEW Q, NEW R, C \subseteq D, Q \subseteq R,
         \A i \in 1 .. Len(s) :
           \/ \E j \in 1 .. Len(t) : t[j] = s[i]
           \/ \E c \in D : c.key = s[i].key
           \/ \E q \in R : q.key = s[i].key,
         NEW f, Kept(s, C, Q, f)
  PROVE  Kept(t, D, R, f)
<1>1. CASE Has(s, f)
  <2>1. PICK i \in 1 .. Len(s) : /\ s[i].key = Key[f.record]
                                 /\ f.index \in 1 .. Len(s[i].chunks)
                                 /\ s[i].chunks[f.index] # Missing
    BY <1>1 DEF Has
  <2>2. CASE \E j \in 1 .. Len(t) : t[j] = s[i]
    BY <2>1, <2>2 DEF Kept, Has
  <2>3. CASE (\E c \in D : c.key = s[i].key) \/ (\E q \in R : q.key = s[i].key)
    BY <2>1, <2>3 DEF Kept
  <2> QED BY <2>2, <2>3
<1>2. CASE ~Has(s, f)
  BY <1>2 DEF Kept
<1> QED BY <1>1, <1>2

\* A record that was handed on, with A arrived.
Whole(c, A) ==
  /\ \A i \in DOMAIN c.chunks : [record |-> c.chunks[i], index |-> i] \in A
  /\ \A i \in DOMAIN c.chunks : LET r == c.chunks[i] IN
       /\ Key[r] = c.key /\ Len(c.chunks) = FragCount(r)
       /\ \/ \A j \in DOMAIN c.chunks : c.chunks[j] = r
          \/ \E s \in Records \ {r} : Key[s] = Key[r] /\ Total[s] = Total[r]

\* More arrives, and whole records are handed on.
LEMMA WholeStays ==
  ASSUME CompletedIsWhole, arrived \subseteq arrived',
         \A c \in completed' : c \in completed \/ Whole(c, arrived')
  PROVE  CompletedIsWhole'
<1>1. \A c \in completed : Whole(c, arrived)
  BY DEF CompletedIsWhole, Whole
<1>2. \A c \in completed : Whole(c, arrived')
  BY <1>1 DEF Whole
<1>3. \A c \in completed' : Whole(c, arrived')
  BY <1>2
<1> QED BY <1>3 DEF CompletedIsWhole, Whole

-----------------------------------------------------------------------------
(***************************************************************************)
(* The steps                                                               *)
(***************************************************************************)

\* What is to be shown of a step.
LEMMA StepKeeps ==
  ASSUME IInv, TypeInv', TableInv(pending', now', arrived'), arrived \subseteq arrived',
         \A f \in arrived' : Kept(pending', completed', quarantined', f),
         \A c \in completed' : c \in completed \/ Whole(c, arrived')
  PROVE  IInv'
<1>1. CompletedIsWhole'
  BY WholeStays DEF IInv
<1>2. NothingVanishes'
  <2>1. pending \in Seq(Entries) =>
          (NothingVanishes <=> \A f \in arrived : Kept(pending, completed, quarantined, f))
    BY VanishesIs
  <2>2. pending' \in Seq(Entries)
    BY DEF TypeInv
  <2>3. pending' \in Seq(Entries) =>
          (NothingVanishes' <=> \A f \in arrived' : Kept(pending', completed', quarantined', f))
    <3>1. (pending \in Seq(Entries) =>
            (NothingVanishes <=> \A f \in arrived : Kept(pending, completed, quarantined, f)))'
      BY <2>1, VanishesIs, PTL
    <3> QED BY <3>1 DEF Kept, Has
  <2> QED BY <2>2, <2>3
<1> QED BY <1>1, <1>2 DEF IInv

\* What the invariant says of the table, and what a datagram that arrives adds.
LEMMA Table ==
  ASSUME IInv
  PROVE  /\ pending \in Seq(Entries) /\ Len(pending) \in Nat /\ Len(pending) <= MaxPending
         /\ now \in Nat /\ count \in Nat /\ arrived \subseteq Fragments
         /\ TableInv(pending, now, arrived)
         /\ \A f \in arrived : Kept(pending, completed, quarantined, f)
BY VanishesIs DEF IInv, TypeInv

LEMMA ArrivesIs ==
  ASSUME IInv, NEW f \in Fragments, Arrives(f)
  PROVE  /\ arrived' = arrived \cup {f} /\ arrived' \subseteq Fragments
         /\ now' = now /\ now' \in Nat /\ count' \in Nat
         /\ TableInv(pending, now, arrived')
<1>1. /\ arrived' = arrived \cup {f} /\ arrived' \subseteq Fragments
      /\ now' = now /\ now' \in Nat /\ count' \in Nat
  BY Table DEF Arrives
<1>2. TableInv(pending, now, arrived')
  BY <1>1, Table, TableGoesOn
<1> QED BY <1>1, <1>2

\* A record of one fragment is handed on at once.
LEMMA AddWholeKeeps ==
  ASSUME IInv, NEW f \in Fragments, AddWhole(f)
  PROVE  IInv'
<1> DEFINE c == [key |-> Key[f.record], chunks |-> <<f.record>>]
<1>1. Arrives(f) /\ pending' = pending /\ quarantined' = quarantined /\ FragCount(f.record) = 1
  BY DEF AddWhole
<1>2. completed' = completed \cup {c}
  BY DEF AddWhole
<1>3. TypeInv' /\ TableInv(pending', now', arrived') /\ arrived \subseteq arrived'
  BY <1>1, Table, ArrivesIs DEF TypeInv
<1>4. ASSUME NEW g \in arrived' PROVE Kept(pending', completed', quarantined', g)
  <2>1. CASE g \in arrived
    <3>1. Kept(pending, completed, quarantined, g)
      BY <2>1, Table
    <3> QED BY <1>1, <1>2, <3>1 DEF Kept
  <2>2. CASE g = f
    <3>1. c \in completed' /\ c.key = Key[g.record]
      BY <1>2, <2>2
    <3> QED BY <3>1 DEF Kept
  <2> QED BY <1>1, <2>1, <2>2, ArrivesIs
<1>5. Whole(c, arrived')
  <2>1. f.index = 1 /\ [record |-> f.record, index |-> 1] = f /\ f \in arrived'
    BY <1>1, FragmentIs, ArrivesIs
  <2>2. DOMAIN c.chunks = {1} /\ c.chunks[1] = f.record /\ Len(c.chunks) = 1
    OBVIOUS
  <2>3. c.key = Key[f.record]
    OBVIOUS
  <2> HIDE DEF c
  <2> QED BY <1>1, <2>1, <2>2, <2>3 DEF Whole
<1> HIDE DEF c
<1> QED BY <1>2, <1>3, <1>4, <1>5, StepKeeps

\* The table after the oldest entry gave way, if it had to.
LEMMA RoomIs ==
  ASSUME IInv, Len(pending) \in Nat
  PROVE  /\ Room \in Seq(Entries) /\ Len(Room) \in Nat /\ Len(Room) < MaxPending
         /\ \E h : Remains(pending, Room, h)
         /\ \A i \in 1 .. Len(pending) :
              \/ \E j \in 1 .. Len(Room) : Room[j] = pending[i]
              \/ \E q \in Overflow : q.key = pending[i].key
         /\ \A j \in 1 .. Len(Room) : \E i \in 1 .. Len(pending) : Room[j] = pending[i]
<1>0. pending \in Seq(Entries) /\ Len(pending) <= MaxPending /\ MaxPending \in Nat \ {0}
  BY Table, ReassemblyAssumption
<1>1. CASE Len(pending) >= MaxPending
  <2>1. pending # <<>> /\ Room = Tail(pending)
    BY <1>0, <1>1 DEF Room
  <2>2. /\ Room \in Seq(Entries) /\ Len(Room) = Len(pending) - 1 /\ Head(pending) = pending[1]
        /\ \A i \in 2 .. Len(pending) : \E j \in 1 .. Len(Room) : Room[j] = pending[i]
        /\ \E h : Remains(pending, Room, h)
    BY <1>0, <2>1, TailRemains
  <2>3. \E q \in Overflow : q.key = pending[1].key
    BY <1>1, <2>2 DEF Overflow
  <2>4. \A i \in 1 .. Len(pending) : i = 1 \/ i \in 2 .. Len(pending)
    BY <1>0
  <2>5. \A j \in 1 .. Len(Room) : \E i \in 1 .. Len(pending) : Room[j] = pending[i]
    BY <2>2 DEF Remains
  <2>6. Len(Room) \in Nat /\ Len(Room) < MaxPending
    BY <1>0, <1>1, <2>2
  <2> QED BY <2>2, <2>3, <2>4, <2>5, <2>6
<1>2. CASE ~(Len(pending) >= MaxPending)
  <2>1. Room = pending /\ Len(pending) < MaxPending
    BY <1>0, <1>2 DEF Room
  <2>2. Remains(pending, pending, [i \in 1 .. Len(pending) |-> i])
    BY <1>0 DEF Remains
  <2> QED BY <1>0, <2>1, <2>2
<1> QED BY <1>1, <1>2

\* The entry of a first fragment.
LEMMA FirstEntry ==
  ASSUME IInv, NEW f \in Fragments, FragCount(f.record) > 1
  PROVE  LET q == Filled(NewEntry(f.record), f) IN
         /\ q \in Entries /\ q.key = Key[f.record] /\ q.since = now
         /\ EntryInv(q, arrived \cup {f})
         /\ f.index \in 1 .. Len(q.chunks) /\ q.chunks[f.index] # Missing
<1> DEFINE p == NewEntry(f.record)
           n == FragCount(f.record)
           c == [i \in 1 .. n |-> Missing]
<1>0. /\ f.record \in Records /\ f.record # Missing /\ f.index \in 1 .. n /\ n \in Nat /\ n > 1
      /\ Total[f.record] \in Nat \ {0} /\ f = [record |-> f.record, index |-> f.index]
  BY FragmentIs, ReassemblyAssumption
<1>1. c \in Seq(Records \cup {Missing}) /\ Len(c) = n /\ \A i \in 1 .. n : c[i] = Missing
  BY <1>0
<1>2. p = [key |-> Key[f.record], total |-> Total[f.record], since |-> now, chunks |-> c]
  BY DEF NewEntry
<1> HIDE DEF c, p
<1>3. /\ p \in Entries /\ p.key = Key[f.record] /\ p.total = Total[f.record]
      /\ p.since = now /\ p.chunks = c
  BY <1>0, <1>1, <1>2, Table DEF Entries
<1>4. EntryInv(p, arrived)
  BY <1>0, <1>1, <1>3 DEF EntryInv
<1>5. /\ Filled(p, f) \in Entries /\ Filled(p, f).key = p.key /\ Filled(p, f).since = p.since
      /\ Len(Filled(p, f).chunks) = n /\ Filled(p, f).chunks[f.index] # Missing
      /\ \A i \in 1 .. n : Filled(p, f).chunks[i] = c[i] \/ i = f.index
  BY <1>0, <1>1, <1>3, FilledIs
<1>6. ~IsComplete(Filled(p, f))
  <2>1. PICK i \in 1 .. n : i # f.index
    <3>1. 1 \in 1 .. n /\ 2 \in 1 .. n /\ 1 # 2
      BY <1>0
    <3> QED BY <3>1
  <2>2. i \in DOMAIN Filled(p, f).chunks /\ Filled(p, f).chunks[i] = Missing
    BY <1>1, <1>5, <2>1, EntryFields
  <2> QED BY <2>2 DEF IsComplete
<1>7. EntryInv(Filled(p, f), arrived \cup {f})
  BY <1>3, <1>4, <1>6, FilledKeeps
<1> QED BY <1>0, <1>3, <1>5, <1>7 DEF p

\* A first fragment makes an entry; the oldest one gives way if there is no room.
LEMMA AddFirstKeeps ==
  ASSUME IInv, NEW f \in Fragments, AddFirst(f)
  PROVE  IInv'
<1> DEFINE q == Filled(NewEntry(f.record), f)
<1>1. /\ Arrives(f) /\ FragCount(f.record) > 1 /\ Entry(Key[f.record]) = 0
      /\ completed' = completed /\ quarantined' = quarantined \cup Overflow
  BY DEF AddFirst
<1>2. pending' = Append(Room, q)
  BY DEF AddFirst
<1>3. /\ q \in Entries /\ q.key = Key[f.record] /\ q.since = now
      /\ EntryInv(q, arrived') /\ f.index \in 1 .. Len(q.chunks) /\ q.chunks[f.index] # Missing
  BY <1>1, FirstEntry, ArrivesIs
<1> HIDE DEF q
<1>4. \A i \in 1 .. Len(pending) : pending[i].key # q.key
  BY <1>1, <1>3, EntryIs, Table
<1>5. TableInv(Room, now, arrived')
  BY <1>1, RoomIs, RemainsTable, Table, ArrivesIs
<1>6. \A j \in 1 .. Len(Room) : Room[j].key # q.key
  BY <1>4, RoomIs, Table
<1>7. /\ pending' \in Seq(Entries) /\ Len(pending') = Len(Room) + 1
      /\ TableInv(pending', now, arrived') /\ pending'[Len(Room) + 1] = q
      /\ \A i \in 1 .. Len(Room) : pending'[i] = Room[i]
  BY <1>2, <1>3, <1>5, <1>6, RoomIs, Table, AppendTable
<1>8. /\ Len(Room) \in Nat /\ Len(pending') <= MaxPending
      /\ \A i \in 1 .. Len(Room) : i \in 1 .. Len(pending')
      /\ Len(Room) + 1 \in 1 .. Len(pending')
  BY <1>7, RoomIs, Table, ReassemblyAssumption
<1>9. TypeInv' /\ arrived \subseteq arrived'
  BY <1>1, <1>7, <1>8, ArrivesIs DEF TypeInv
<1>10. ASSUME NEW g \in arrived' PROVE Kept(pending', completed', quarantined', g)
  <2>1. CASE g \in arrived
    <3>1. ASSUME NEW i \in 1 .. Len(pending)
          PROVE  \/ \E j \in 1 .. Len(pending') : pending'[j] = pending[i]
                 \/ \E r \in quarantined' : r.key = pending[i].key
      BY <1>1, <1>7, <1>8, RoomIs, Table
    <3>2. Kept(pending, completed, quarantined, g)
      BY <2>1, Table
    <3>3. completed \subseteq completed' /\ quarantined \subseteq quarantined'
      BY <1>1
    <3> QED BY <3>1, <3>2, <3>3, KeptRemains
  <2>2. CASE g = f
    BY <1>3, <1>7, <1>8, <2>2 DEF Kept, Has
  <2> QED BY <1>1, <2>1, <2>2, ArrivesIs
<1> QED BY <1>1, <1>7, <1>9, <1>10, ArrivesIs, StepKeeps

\* A fragment of another length: the entry of its key is given up.
LEMMA AddContradictionKeeps ==
  ASSUME IInv, NEW f \in Fragments, AddContradiction(f)
  PROVE  IInv'
<1> DEFINE k == Key[f.record]
           m == [reason |-> "malformed", key |-> k]
<1>1. /\ Arrives(f) /\ Entry(k) # 0 /\ completed' = completed
      /\ pending' = RemoveAt(pending, Entry(k))
  BY DEF AddContradiction, Without
<1>2. quarantined' = quarantined \cup {m} /\ m.key = k
  BY DEF AddContradiction
<1> HIDE DEF m
<1>3. Entry(k) \in 1 .. Len(pending) /\ pending[Entry(k)].key = k
  BY <1>1, EntryIs, Table
<1>4. /\ pending' \in Seq(Entries) /\ Len(pending') = Len(pending) - 1
      /\ \A i \in 1 .. Len(pending) \ {Entry(k)} :
           \E j \in 1 .. Len(pending') : pending'[j] = pending[i]
      /\ \E h : Remains(pending, pending', h)
  BY <1>1, <1>3, RemoveAtRemains, Table
<1>5. TableInv(pending', now, arrived')
  BY <1>1, <1>4, RemainsTable, Table, ArrivesIs
<1>6. TypeInv' /\ arrived \subseteq arrived'
  BY <1>1, <1>4, Table, ArrivesIs, ReassemblyAssumption DEF TypeInv
<1>7. ASSUME NEW g \in arrived' PROVE Kept(pending', completed', quarantined', g)
  <2>1. CASE g \in arrived
    <3>1. ASSUME NEW i \in 1 .. Len(pending)
          PROVE  \/ \E j \in 1 .. Len(pending') : pending'[j] = pending[i]
                 \/ \E q \in quarantined' : q.key = pending[i].key
      BY <1>2, <1>3, <1>4
    <3>2. Kept(pending, completed, quarantined, g)
      BY <2>1, Table
    <3>3. completed \subseteq completed' /\ quarantined \subseteq quarantined'
      BY <1>1, <1>2
    <3> QED BY <3>1, <3>2, <3>3, KeptRemains
  <2>2. CASE g = f
    BY <1>2, <2>2 DEF Kept
  <2> QED BY <1>1, <2>1, <2>2, ArrivesIs
<1> QED BY <1>1, <1>5, <1>6, <1>7, ArrivesIs, StepKeeps

\* A further fragment goes into its entry, which is handed on when it is complete.
LEMMA AddFurtherKeeps ==
  ASSUME IInv, NEW f \in Fragments, AddFurther(f)
  PROVE  IInv'
<1> DEFINE k == Key[f.record]
           i == Entry(k)
           p == pending[i]
           q == Filled(p, f)
<1>1. Arrives(f) /\ i # 0 /\ p.total = Total[f.record] /\ quarantined' = quarantined
  BY DEF AddFurther
<1>2. IF IsComplete(q)
        THEN /\ pending' = Without(q.key)
             /\ completed' = completed \cup {[key |-> q.key, chunks |-> q.chunks]}
        ELSE /\ pending' = ReplaceAt(pending, i, q)
             /\ completed' = completed
  BY DEF AddFurther
<1>3. i \in 1 .. Len(pending) /\ p.key = k
  BY <1>1, EntryIs, Table
<1>4. p \in Entries /\ EntryInv(p, arrived)
  BY <1>3, Table DEF TableInv
<1>4a. arrived' = arrived \cup {f}
  BY <1>1, ArrivesIs
<1>5. /\ f.index \in 1 .. Len(p.chunks)
      /\ ~IsComplete(q) => EntryInv(q, arrived')
      /\ \A c \in 1 .. Len(p.chunks) : q.chunks[c] # Missing =>
           /\ [record |-> q.chunks[c], index |-> c] \in arrived'
           /\ Key[q.chunks[c]] = p.key /\ Total[q.chunks[c]] = p.total
           /\ FragCount(q.chunks[c]) = Len(p.chunks)
  BY <1>1, <1>3, <1>4, <1>4a, FilledKeeps
<1>6. /\ q \in Entries /\ q.key = p.key /\ q.total = p.total /\ q.since = p.since
      /\ Len(q.chunks) = Len(p.chunks) /\ q.chunks[f.index] # Missing
      /\ \A c \in 1 .. Len(p.chunks) : q.chunks[c] = p.chunks[c] \/ p.chunks[c] = Missing
      /\ \A c \in 1 .. Len(p.chunks) : p.chunks[c] # Missing => q.chunks[c] # Missing
  BY <1>4, <1>5, FilledIs
<1> HIDE DEF i, p, q
<1>7. CASE IsComplete(q)
  <2> DEFINE c == [key |-> q.key, chunks |-> q.chunks]
  <2>1. completed' = completed \cup {c} /\ c.key = q.key /\ c.chunks = q.chunks
    BY <1>2, <1>7
  <2> HIDE DEF c
  <2>2. pending' = RemoveAt(pending, i)
    BY <1>2, <1>3, <1>6, <1>7 DEF Without, i
  <2>3. /\ pending' \in Seq(Entries) /\ Len(pending') = Len(pending) - 1
        /\ \A j \in 1 .. Len(pending) \ {i} :
             \E l \in 1 .. Len(pending') : pending'[l] = pending[j]
        /\ \E h : Remains(pending, pending', h)
    BY <1>3, <2>2, RemoveAtRemains, Table
  <2>4. TableInv(pending', now, arrived')
    BY <1>1, <2>3, RemainsTable, Table, ArrivesIs
  <2>5. TypeInv' /\ arrived \subseteq arrived'
    BY <1>1, <2>3, Table, ArrivesIs, ReassemblyAssumption DEF TypeInv
  <2>6. ASSUME NEW g \in arrived' PROVE Kept(pending', completed', quarantined', g)
    <3>1. CASE g \in arrived
      <4>1. ASSUME NEW j \in 1 .. Len(pending)
            PROVE  \/ \E l \in 1 .. Len(pending') : pending'[l] = pending[j]
                   \/ \E d \in completed' : d.key = pending[j].key
        BY <1>6, <2>1, <2>3 DEF p
      <4>2. Kept(pending, completed, quarantined, g)
        BY <3>1, Table
      <4>3. completed \subseteq completed' /\ quarantined \subseteq quarantined'
        BY <1>1, <2>1
      <4> QED BY <4>1, <4>2, <4>3, KeptRemains
    <3>2. CASE g = f
      BY <1>3, <1>6, <2>1, <3>2 DEF Kept
    <3> QED BY <1>4a, <3>1, <3>2
  <2>7. Whole(c, arrived')
    <3>1. DOMAIN c.chunks = 1 .. Len(p.chunks) /\ Len(c.chunks) = Len(p.chunks)
      BY <1>6, <2>1, EntryFields
    <3>2. \A j \in 1 .. Len(p.chunks) : c.chunks[j] # Missing
      BY <1>7, <2>1, <3>1 DEF IsComplete
    <3>3. \A j \in 1 .. Len(p.chunks) :
            /\ [record |-> c.chunks[j], index |-> j] \in arrived' /\ Key[c.chunks[j]] = c.key
            /\ Total[c.chunks[j]] = p.total /\ Len(c.chunks) = FragCount(c.chunks[j])
      BY <1>5, <1>6, <2>1, <3>1, <3>2
    <3>4. \A j \in 1 .. Len(p.chunks) : c.chunks[j] \in Records
      BY <1>6, <2>1, <3>1, <3>2, EntryFields
    <3>5. ASSUME NEW j \in 1 .. Len(p.chunks)
          PROVE  \/ \A l \in 1 .. Len(p.chunks) : c.chunks[l] = c.chunks[j]
                 \/ \E s \in Records \ {c.chunks[j]} :
                      Key[s] = Key[c.chunks[j]] /\ Total[s] = Total[c.chunks[j]]
      BY <3>3, <3>4
    <3> QED BY <3>1, <3>3, <3>5 DEF Whole
  <2> QED BY <1>1, <2>1, <2>4, <2>5, <2>6, <2>7, ArrivesIs, StepKeeps
<1>8. CASE ~IsComplete(q)
  <2>1. pending' = ReplaceAt(pending, i, q) /\ completed' = completed
    BY <1>2, <1>8
  <2>2. /\ pending' \in Seq(Entries) /\ Len(pending') = Len(pending)
        /\ TableInv(pending', now, arrived')
        /\ pending'[i] = q /\ \A j \in 1 .. Len(pending) \ {i} : pending'[j] = pending[j]
    <3>1. TableInv(pending, now, arrived') /\ EntryInv(q, arrived')
      BY <1>1, <1>5, <1>8, ArrivesIs
    <3>2. q.key = pending[i].key /\ q.since = pending[i].since
      BY <1>6 DEF p
    <3> QED BY <1>3, <1>6, <2>1, <3>1, <3>2, ReplaceTable, Table
  <2>3. TypeInv' /\ arrived \subseteq arrived'
    BY <1>1, <2>2, Table, ArrivesIs DEF TypeInv
  <2>4. ASSUME NEW g \in arrived' PROVE Kept(pending', completed', quarantined', g)
    <3>1. CASE g \in arrived
      <4>1. ASSUME NEW j \in 1 .. Len(pending)
            PROVE  \E l \in 1 .. Len(pending') :
                     /\ pending'[l].key = pending[j].key
                     /\ Len(pending'[l].chunks) = Len(pending[j].chunks)
                     /\ \A c \in 1 .. Len(pending[j].chunks) :
                          pending[j].chunks[c] # Missing => pending'[l].chunks[c] # Missing
        <5>1. CASE j = i
          BY <1>6, <2>2, <5>1 DEF p
        <5>2. CASE j # i
          BY <2>2, <5>2
        <5> QED BY <5>1, <5>2
      <4>2. Kept(pending, completed, quarantined, g)
        BY <3>1, Table
      <4>3. completed \subseteq completed' /\ quarantined \subseteq quarantined'
        BY <1>1, <2>1
      <4>4. CASE Has(pending, g)
        <5>1. PICK j \in 1 .. Len(pending) : /\ pending[j].key = Key[g.record]
                                             /\ g.index \in 1 .. Len(pending[j].chunks)
                                             /\ pending[j].chunks[g.index] # Missing
          BY <4>4 DEF Has
        <5>2. Has(pending', g)
          BY <4>1, <5>1 DEF Has
        <5> QED BY <5>2 DEF Kept
      <4> QED BY <4>2, <4>3, <4>4 DEF Kept
    <3>2. CASE g = f
      <4>1. i \in 1 .. Len(pending') /\ pending'[i].key = Key[g.record]
        BY <1>3, <1>6, <2>2, <3>2
      <4>2. g.index \in 1 .. Len(pending'[i].chunks) /\ pending'[i].chunks[g.index] # Missing
        BY <1>5, <1>6, <2>2, <3>2
      <4> QED BY <4>1, <4>2 DEF Kept, Has
    <3> QED BY <1>4a, <3>1, <3>2
  <2> QED BY <1>1, <2>1, <2>2, <2>3, <2>4, ArrivesIs, StepKeeps
<1> QED BY <1>7, <1>8

\* What expire keeps: the entries from the first that is young enough on, which are
\* young as well, since older ones come first.
LEMMA ExpireIs ==
  ASSUME IInv, Expire
  PROVE  \E k \in 1 .. Len(pending) + 1 :
           /\ pending' = SubSeq(pending, k, Len(pending))
           /\ quarantined' = quarantined \cup
                {[reason |-> "timeout", key |-> pending[i].key] : i \in 1 .. k - 1}
           /\ \A i \in k .. Len(pending) : now - pending[i].since < Timeout
<1> DEFINE young == {i \in DOMAIN pending : now - pending[i].since < Timeout}
           k     == IF young = {} THEN Len(pending) + 1 ELSE Min(young)
<1>1. /\ pending' = SubSeq(pending, k, Len(pending))
      /\ quarantined' = quarantined \cup
           {[reason |-> "timeout", key |-> pending[i].key] : i \in 1 .. k - 1}
  BY DEF Expire
<1>2. DOMAIN pending = 1 .. Len(pending) /\ Len(pending) \in Nat
  BY Table
<1>3. young \in SUBSET Nat
  BY <1>2
<1>4. young # {} => k \in young /\ \A y \in young : k <= y
  BY <1>3, Least
<1>5. k \in 1 .. Len(pending) + 1
  <2>1. CASE young = {}
    BY <1>2, <2>1
  <2>2. CASE young # {}
    BY <1>2, <1>4, <2>2
  <2> QED BY <2>1, <2>2
<1>6. ASSUME NEW i \in k .. Len(pending) PROVE now - pending[i].since < Timeout
  <2>1. young # {}
    BY <1>2, <1>5
  <2>2. k \in 1 .. Len(pending) /\ now - pending[k].since < Timeout
    BY <1>2, <1>4, <2>1
  <2> HIDE DEF k, young
  <2>3. i \in 1 .. Len(pending)
    BY <1>2, <2>2
  <2>4. pending[k] \in Entries /\ pending[i] \in Entries
    BY <2>2, <2>3, Table
  <2>5. pending[k].since \in Nat /\ pending[i].since \in Nat /\ now \in Nat /\ Timeout \in Nat
    BY <2>4, Table, EntryFields, ReassemblyAssumption
  <2>6. pending[k].since <= pending[i].since
    <3>1. CASE k = i
      BY <2>5, <3>1
    <3>2. CASE k < i
      BY <2>2, <2>3, <3>2, Table DEF TableInv
    <3> QED BY <1>2, <2>2, <2>3, <3>1, <3>2
  <2> QED BY <2>2, <2>5, <2>6
<1> HIDE DEF k
<1> QED BY <1>1, <1>5, <1>6

\* Old entries are given up.
LEMMA ExpireKeeps ==
  ASSUME IInv, Expire
  PROVE  IInv'
<1>1. now' = now /\ completed' = completed /\ arrived' = arrived /\ count' = count
  BY DEF Expire
<1>2. PICK k \in 1 .. Len(pending) + 1 :
        /\ pending' = SubSeq(pending, k, Len(pending))
        /\ quarantined' = quarantined \cup
             {[reason |-> "timeout", key |-> pending[i].key] : i \in 1 .. k - 1}
  BY ExpireIs
<1>3. /\ pending' \in Seq(Entries) /\ Len(pending') = Len(pending) + 1 - k
      /\ \A i \in k .. Len(pending) : \E j \in 1 .. Len(pending') : pending'[j] = pending[i]
      /\ \E h : Remains(pending, pending', h)
  BY <1>2, SubSeqRemains, Table
<1>4. TableInv(pending', now', arrived')
  BY <1>1, <1>3, RemainsTable, Table
<1>5. TypeInv'
  BY <1>1, <1>3, Table, ReassemblyAssumption DEF TypeInv
<1>6. ASSUME NEW g \in arrived' PROVE Kept(pending', completed', quarantined', g)
  <2>1. ASSUME NEW i \in 1 .. Len(pending)
        PROVE  \/ \E j \in 1 .. Len(pending') : pending'[j] = pending[i]
               \/ \E q \in quarantined' : q.key = pending[i].key
    <3>1. CASE i \in k .. Len(pending)
      BY <1>3, <3>1
    <3>2. CASE i \notin k .. Len(pending)
      <4> DEFINE q == [reason |-> "timeout", key |-> pending[i].key]
      <4>1. i \in 1 .. k - 1
        BY <3>2, Table
      <4>2. q \in quarantined' /\ q.key = pending[i].key
        BY <1>2, <4>1
      <4> QED BY <4>2
    <3> QED BY <3>1, <3>2
  <2>2. Kept(pending, completed, quarantined, g)
    BY <1>1, Table
  <2>3. completed \subseteq completed' /\ quarantined \subseteq quarantined'
    BY <1>1, <1>2
  <2> QED BY <2>1, <2>2, <2>3, KeptRemains
<1> QED BY <1>1, <1>4, <1>5, <1>6, StepKeeps

\* Time passes.
LEMMA TickKeeps ==
  ASSUME IInv, Tick
  PROVE  IInv'
<1>1. now' = now + 1 /\ UNCHANGED <<pending, completed, quarantined, arrived, count>>
  BY DEF Tick
<1>2. TypeInv' /\ TableInv(pending', now', arrived')
  BY <1>1, Table, TableGoesOn DEF TypeInv
<1> QED BY <1>1, <1>2, Table, StepKeeps

LEMMA StutterKeeps ==
  ASSUME IInv, UNCHANGED vars
  PROVE  IInv'
<1>1. UNCHANGED <<pending, now, completed, quarantined, arrived, count>>
  BY DEF vars
<1> QED BY <1>1, Table, StepKeeps DEF TypeInv

-----------------------------------------------------------------------------
(***************************************************************************)
(* The theorems                                                            *)
(***************************************************************************)

LEMMA Initially == Init => IInv
<1> SUFFICES ASSUME Init PROVE IInv
  OBVIOUS
<1>1. /\ pending = << >> /\ now = 0 /\ completed = {} /\ quarantined = {}
      /\ arrived = {} /\ count = 0
  BY DEF Init
<1>2. pending \in Seq(Entries) /\ Len(pending) = 0
  BY <1>1, EmptySeq
<1>3. TypeInv
  BY <1>1, <1>2, ReassemblyAssumption DEF TypeInv
<1>4. TableInv(pending, now, arrived)
  BY <1>2 DEF TableInv
<1> QED BY <1>1, <1>3, <1>4 DEF IInv, NothingVanishes, CompletedIsWhole

LEMMA NextKeeps == IInv /\ [Next]_vars => IInv'
<1> SUFFICES ASSUME IInv, [Next]_vars PROVE IInv'
  OBVIOUS
<1>1. CASE \E f \in Fragments : Add(f)
  BY <1>1, AddWholeKeeps, AddFirstKeeps, AddContradictionKeeps, AddFurtherKeeps DEF Add
<1>2. CASE Expire
  BY <1>2, ExpireKeeps
<1>3. CASE Tick
  BY <1>3, TickKeeps
<1>4. CASE UNCHANGED vars
  BY <1>4, StutterKeeps
<1> QED BY <1>1, <1>2, <1>3, <1>4 DEF Next

LEMMA Always == Spec => []IInv
BY Initially, NextKeeps, PTL DEF Spec

\* The table is bounded, has one entry for a key and none that is complete, and is in
\* the order expire and overflow rely on.
THEOREM TableInOrder == Spec => []TableIsInOrder
<1>1. IInv => TableIsInOrder
  <2> SUFFICES ASSUME IInv PROVE TableIsInOrder
    OBVIOUS
  <2>1. DOMAIN pending = 1 .. Len(pending)
    BY Table
  <2>2. \A i \in 1 .. Len(pending) : DOMAIN pending[i].chunks = 1 .. Len(pending[i].chunks)
    BY Table, EntryFields
  <2>3. \A i \in 1 .. Len(pending) :
          \E c \in DOMAIN pending[i].chunks : pending[i].chunks[c] = Missing
    BY <2>2, Table DEF TableInv, EntryInv
  <2> QED BY <2>1, <2>3, Table DEF TableIsInOrder, TableInv
<1> QED BY <1>1, Always, PTL

\* Every fragment that arrived waits in the table, or its key was handed on or given up.
THEOREM NothingVanishesEver == Spec => []NothingVanishes
<1>1. IInv => NothingVanishes
  BY DEF IInv
<1> QED BY <1>1, Always, PTL

\* What is handed on is whole: of fragments that arrived, of its key and its length.
THEOREM WholeOnly == Spec => []CompletedIsWhole
<1>1. IInv => CompletedIsWhole
  BY DEF IInv
<1> QED BY <1>1, Always, PTL

\* expire leaves no entry that is older than the timeout.
THEOREM NoneOverstaysEver == Spec => NoneOverstays
<1>1. IInv /\ Expire => \A i \in DOMAIN pending' : now - pending'[i].since < Timeout
  <2> SUFFICES ASSUME IInv, Expire, NEW i \in DOMAIN pending'
               PROVE  now - pending'[i].since < Timeout
    OBVIOUS
  <2>1. PICK k \in 1 .. Len(pending) + 1 :
          /\ pending' = SubSeq(pending, k, Len(pending))
          /\ \A j \in k .. Len(pending) : now - pending[j].since < Timeout
    BY ExpireIs
  <2>2. /\ pending' \in Seq(Entries) /\ Len(pending') = Len(pending) + 1 - k
        /\ \A j \in 1 .. Len(pending') : pending'[j] = pending[k + j - 1]
    BY <2>1, SubSeqRemains, Table
  <2>3. i \in 1 .. Len(pending') /\ k + i - 1 \in k .. Len(pending)
    BY <2>2, Table
  <2> QED BY <2>1, <2>2, <2>3
<1>2. IInv /\ [Next]_vars =>
        [Expire => \A i \in DOMAIN pending' : now - pending'[i].since < Timeout]_vars
  BY <1>1
<1> QED BY <1>2, Always, PTL DEF Spec, NoneOverstays

=============================================================================
