--------------------------- MODULE MCRecordReader ---------------------------
(***************************************************************************)
(* Instances of RecordReader small enough for TLC: two partitions, logs of *)
(* at most three offsets, limits around the number of partitions.          *)
(***************************************************************************)
EXTENDS RecordReader

CONSTANTS p1, p2

MCPartitions == {p1, p2}

Request(start, limit) == [startPoint |-> start, limit |-> limit]

MCReadDetails == {Request("Beginning", 1), Request("Beginning", 2),
                  Request("MostRecent", 2), Request("MostRecent", 3),
                  Request("Since", 2), Request("Live", 2)}

LogOf(low, since, kinds) == [low |-> low, since |-> since, kinds |-> kinds]

\* An empty partition, one record (none of it in the period), three records
\* of which the first has been deleted, a rejected and a hidden last offset.
MCLogs == {LogOf(0, 0, <<>>),
           LogOf(0, 1, <<"match">>),
           LogOf(1, 2, <<"match", "match", "match">>),
           LogOf(0, 0, <<"skip", "match", "skip">>),
           LogOf(0, 0, <<"match", "gap">>)}

-----------------------------------------------------------------------------
(* Liveness: fewer requests and logs, one producer step.                   *)

MCFewDetails == {Request("Beginning", 2), Request("MostRecent", 2),
                 Request("Since", 2), Request("Live", 2)}

MCFewLogs == {LogOf(0, 1, <<"match">>), LogOf(0, 0, <<"match", "skip">>)}

-----------------------------------------------------------------------------
(* What the tests and comments of the repository say of a read.            *)

MCLimitDetails == {Request("Beginning", 2)}
MCLimitLogs    == {LogOf(0, 0, <<"match", "match">>)}

SentTotal == LET all == {<<p, o>> : p \in Partitions, o \in 0 .. 3}
             IN  Cardinality({x \in all : x[2] \in sent[x[1]]})

\* "Read from beginning with specific limit, with multiple partitions"
\* (record_reader_test.go) expects exactly as many records as the limit: a
\* read never sends more records than its limit.
LimitRespected == SentTotal <= rd.limit
=============================================================================
