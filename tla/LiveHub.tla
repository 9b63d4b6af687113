------------------------------- MODULE LiveHub -------------------------------
(***************************************************************************)
(* The fan-out of alert updates to a browser (live.py, and stream in       *)
(* app.py).  The consumer thread publishes, the event loop hands on to the *)
(* clients; clients share nothing, so that one is enough.                  *)
(***************************************************************************)
EXTENDS ServicesConfig, SequencesExt

VARIABLES
  life,    \* the process, by its nonce
  seq,     \* the number last published
  fanned,  \* the number up to which _fanout has run
  member,  \* whether the hub knows the client's queue
  queue,   \* numbers for the client, or the sentinel Cut
  backlog, \* numbers the stream sends before it turns to the queue
  told,    \* whether the stream is to begin with a resync
  conn,    \* whether the client is connected
  last,    \* the id of the client's last event
  base,    \* the number from which on the client relies on the stream
  got,     \* numbers received since then
  evicted, \* numbers taken out of a full queue since then, with the sentinel still in it
  lost     \* numbers that the client passed, taken out with a sentinel that it never got

server == <<life, seq, fanned>>
stream == <<member, queue, backlog, told, conn>>
client == <<last, base, got, evicted, lost>>
vars   == <<server, stream, client>>

Cut    == 0
Unread == [life |-> 0, seq |-> 0]

Init ==
  /\ life = 1 /\ seq = 0 /\ fanned = 0
  /\ member = FALSE /\ queue = <<>> /\ backlog = <<>> /\ told = FALSE /\ conn = FALSE
  /\ last = Unread /\ base = 0 /\ got = {} /\ evicted = {} /\ lost = {}

-----------------------------------------------------------------------------
\* publish
Publish ==
  /\ seq < MaxSeq /\ seq' = seq + 1
  /\ UNCHANGED <<life, fanned, stream, client>>

\* Mutation: what does not fit is left out.
OfferDropping(n) ==
  IF member /\ Len(queue) < QueueSize
  THEN queue' = Append(queue, n) /\ UNCHANGED <<member, evicted>>
  ELSE UNCHANGED <<queue, member, evicted>>

\* The client's queue is offered a number.  If it is full the client is given up: the
\* sentinel takes the place of the oldest number.
Offer(n) ==
  IF ~member THEN UNCHANGED <<queue, member, evicted>>
  ELSE IF Len(queue) < QueueSize THEN queue' = Append(queue, n) /\ UNCHANGED <<member, evicted>>
  ELSE queue' = Append(Tail(queue), Cut) /\ member' = FALSE /\ evicted' = evicted \cup {Head(queue)}

\* _fanout, which the event loop runs in the order of publication.
Fanout ==
  /\ fanned < seq /\ fanned' = fanned + 1
  /\ Offer(fanned + 1)
  /\ UNCHANGED <<life, seq, backlog, told, conn, last, base, got, lost>>

\* The connection ends, and the queue with it: of what was taken out of the queue, the
\* client will not be sent again what precedes its last id.
Gone ==
  /\ member' = FALSE /\ queue' = <<>> /\ backlog' = <<>> /\ told' = FALSE /\ conn' = FALSE
  /\ lost' = lost \cup {n \in evicted : last.life = life /\ n <= last.seq} /\ evicted' = {}
  /\ UNCHANGED <<last, base, got>>

\* The server ends and is restarted, and connections with it.
Restart ==
  /\ life < MaxLives /\ life' = life + 1 /\ seq' = 0 /\ fanned' = 0
  /\ Gone

-----------------------------------------------------------------------------
(***************************************************************************)
(* stream                                                                  *)
(***************************************************************************)

\* The oldest number in the ring, which holds those up to seq.
Oldest == IF seq > RingSize THEN seq - RingSize + 1 ELSE 1

\* Mutation: what the ring has lost is not looked at.
ResyncForNonce == last.life # life

\* backlog_after: an id of another process, or older than the ring.
Resync == last.life # life \/ last.seq < Oldest - 1

\* What the ring has after the id.
After ==
  LET start == IF last.seq < Oldest - 1 THEN Oldest - 1 ELSE last.seq IN
  IF Resync THEN <<>> ELSE [k \in 1 .. seq - start |-> start + k]

Subscribe ==
  /\ conn' = TRUE /\ member' = TRUE /\ queue' = <<>>
  /\ UNCHANGED <<server, last>>

\* What the client has or will have of the numbers up to base is in the history that it
\* loads.
Anew(b) == base' = b /\ got' = {} /\ evicted' = {} /\ lost' = {}

\* A client without an id, which loads the history by itself.
Connect ==
  /\ ~conn /\ last = Unread /\ Subscribe
  /\ backlog' = <<>> /\ told' = FALSE
  /\ Anew(fanned)

\* A client with the id of its last event; no step of the loop is between looking at
\* the ring and subscribing.
Reconnect ==
  /\ ~conn /\ last # Unread /\ Subscribe
  /\ backlog' = After /\ told' = Resync
  /\ IF Resync THEN Anew(seq) ELSE UNCHANGED <<base, got, evicted, lost>>

\* The client loads the history anew, and relies on the stream from here on.
Told ==
  /\ conn /\ told /\ told' = FALSE
  /\ UNCHANGED <<server, member, queue, backlog, conn, client>>

Received(n) == last' = [life |-> life, seq |-> n] /\ got' = got \cup {n} /\ UNCHANGED <<base, evicted, lost>>

Backlogged ==
  /\ conn /\ ~told /\ backlog # <<>>
  /\ Received(Head(backlog)) /\ backlog' = Tail(backlog)
  /\ UNCHANGED <<server, member, queue, told, conn>>

Queued ==
  /\ conn /\ ~told /\ backlog = <<>> /\ queue # <<>> /\ Head(queue) # Cut
  /\ Received(Head(queue)) /\ queue' = Tail(queue)
  /\ UNCHANGED <<server, member, backlog, told, conn>>

\* The stream tells the client to resync, and closes; the client loads the history
\* and keeps the id.
Closed ==
  /\ conn /\ ~told /\ backlog = <<>> /\ queue # <<>> /\ Head(queue) = Cut
  /\ conn' = FALSE /\ queue' = <<>>
  /\ Anew(last.seq)
  /\ UNCHANGED <<server, member, backlog, told, last>>

\* The client goes away, or the network fails.
Disconnect ==
  /\ conn /\ Gone
  /\ UNCHANGED server

Sending == Fanout \/ Told \/ Backlogged \/ Queued \/ Closed

Next == Publish \/ Restart \/ Connect \/ Reconnect \/ Disconnect \/ Sending

Spec == Init /\ [][Next]_vars

\* The event loop runs.
FairSpec == Spec /\ WF_vars(Sending)

-----------------------------------------------------------------------------
\* The gaps of a client's stream (live.py:3-7): between the number it relies on and its
\* last id it has received everything, and what is still to come follows in its backlog,
\* its queue and the fan-out, but for numbers taken out of a full queue.  Of those a
\* sentinel that is still in the queue will tell; it does not if the client read past the
\* number and left before the sentinel.
StreamHasNoGap ==
  LET missed == evicted \cup lost
      had    == got \cup missed
  IN
  /\ last.life = life => base + 1 .. last.seq \subseteq had
  /\ conn /\ member => base + 1 .. seq \subseteq had \cup ToSet(backlog) \cup ToSet(queue) \cup fanned + 1 .. seq
  /\ conn /\ ~member => Cut \in ToSet(queue)
  /\ evicted # {} => conn /\ Cut \in ToSet(queue)

\* A number is sent to a client that stays connected, unless it was taken out of the
\* full queue; such a client, while it stays, is told (live.py:3-5).
ClientIsServed ==
  /\ \A n \in 1 .. MaxSeq : (conn /\ base < n /\ n <= seq) ~> (n \in got \cup evicted \cup lost \/ ~conn)
  /\ (conn /\ ~member) ~> ~conn

=============================================================================
