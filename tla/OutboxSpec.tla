------------------------------ MODULE OutboxSpec ------------------------------
(***************************************************************************)
(* What an outbox promises (spec 4.1 and 8), with no publisher in it: rows *)
(* are appended, each unpublished row may be sent to the bus any number of *)
(* times, and a set of rows that have all been sent may be marked          *)
(* published together.  A published row is never unmarked or sent again,  *)
(* and every row is eventually sent and marked.  The Outbox module is      *)
(* checked to implement this specification.                               *)
(***************************************************************************)
EXTENDS Naturals, Sequences

CONSTANTS
    Aggregates,  \* aggregate ids
    MaxRows      \* bound on the rows ever inserted

VARIABLES
    table,  \* Seq of [agg, published]: the outbox rows
    sent    \* ids of the rows sent to the bus at least once

vars == <<table, sent>>

Ids == 1..Len(table)

Pending == {i \in Ids : ~table[i].published}

Insert(a) ==
    /\ Len(table) < MaxRows
    /\ table' = Append(table, [agg |-> a, published |-> FALSE])
    /\ UNCHANGED sent

Send(i) ==
    /\ i \in Pending
    /\ sent' = sent \cup {i}
    /\ UNCHANGED table

Publish(S) ==
    /\ S # {}
    /\ S \subseteq Pending \cap sent
    /\ table' = [i \in Ids |-> IF i \in S THEN [table[i] EXCEPT !.published = TRUE]
                                         ELSE table[i]]
    /\ UNCHANGED sent

\* Row i is marked published in some batch.
PublishRow(i) == \E S \in SUBSET Pending : i \in S /\ Publish(S)

Init ==
    /\ table = <<>>
    /\ sent = {}

Next ==
    \/ \E a \in Aggregates : Insert(a)
    \/ \E i \in Ids : Send(i)
    \/ \E S \in SUBSET Ids : Publish(S)

Fairness ==
    \A i \in 1..MaxRows : WF_vars(Send(i)) /\ WF_vars(PublishRow(i))

Spec == Init /\ [][Next]_vars /\ Fairness
==============================================================================
