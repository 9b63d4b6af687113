----------------------------- MODULE MCServices -----------------------------
(* Instances of Services for TLC. *)
EXTENDS Services

AllSinks == {"clickhouse", "notifier", "search"}

Message(kind, update, version) == [kind |-> kind, update |-> update, incident |-> "i", version |-> version]

\* An incident's updates out of order and one of them twice, with a record of each kind.
SomeLog ==
  <<Message("fine", "u2", 2), Message("refused", "u3", 3), Message("fine", "u1", 1),
    Message("unreadable", "none", 0), Message("quiet", "none", 0), Message("fine", "u2", 2)>>

=============================================================================
