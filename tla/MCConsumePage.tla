--------------------------- MODULE MCConsumePage ----------------------------
(***************************************************************************)
(* Instances of ConsumePage for TLC.                                       *)
(***************************************************************************)
EXTENDS ConsumePage

CONSTANTS p1, p2

MCPartitions == {p1, p2}

Request(start, limit) == [startPoint |-> start, limit |-> limit]
LogOf(low, since, kinds) == [low |-> low, since |-> since, kinds |-> kinds]

MCReadDetails == {Request("Beginning", 2), Request("Since", 1)}

\* Empty, hence without a record in the period, and with two records.
MCLogs == {LogOf(0, 0, <<>>), LogOf(0, 0, <<"match", "match">>)}

MCTwoDetails  == {Request("Beginning", 2), Request("Since", 2)}
MCTwoRecords  == {LogOf(0, 0, <<"match", "match">>)}
=============================================================================
