--------------------------- MODULE ReadingOffsets ---------------------------
(***************************************************************************)
(* The offset arithmetic of a topic read: which offsets of a partition the *)
(* reader asks for, given the offsets the broker reports for it and the    *)
(* read request (kadmin/record_reader.go).                                 *)
(*                                                                         *)
(* An offsets record [start, end] is what fetchOffsets stores: `start` is  *)
(* the first offset of the requested period (-1: nothing in the period)    *)
(* and `end` the next offset the partition will assign.                    *)
(***************************************************************************)
EXTENDS Integers, FiniteSets

\* Today, Yesterday and Last7Days differ only in the instant asked of the
\* broker; a read uses one of them, so one value stands for the three.
StartPoints == {"Beginning", "MostRecent", "Since", "Live"}

NoOffset == -1

Offsets == [start : Int, end : Int]

\* offsets.newest: the last offset assigned.
Newest(o) == o.end - 1

\* The records each of n partitions contributes to `limit`; the float
\* division is truncated, which for positive operands is \div.
RecordsPerPartition(limit, n) == limit \div n

\* A bug this arithmetic invites: the end is taken as exclusive.
FromBeginningInclusive(o, n) ==
  [start |-> o.start,
   end   |-> IF o.start + n < Newest(o) THEN o.start + n ELSE Newest(o)]

FromBeginning(o, n) ==
  [start |-> o.start,
   end   |-> IF o.start + n < Newest(o) THEN o.start + n - 1 ELSE Newest(o)]

\* A bug: the end is taken as exclusive.
FromMostRecentToEnd(o, n) ==
  LET wanted == Newest(o) - n
  IN  [start |-> IF wanted < 0 \/ wanted < o.start THEN o.start ELSE wanted,
       end   |-> o.end]

\* MostRecent, and every start point given by an instant.
FromMostRecent(o, n) ==
  LET wanted == Newest(o) - n
  IN  [start |-> IF wanted < 0 \/ wanted < o.start THEN o.start ELSE wanted,
       end   |-> Newest(o)]

DetermineReadingOffsets(startPoint, limit, partitions, o) ==
  LET n == RecordsPerPartition(limit, Cardinality(partitions))
  IN  IF startPoint = "Live" THEN [start |-> o.end, end |-> -1]
      ELSE IF startPoint = "Beginning" THEN FromBeginning(o, n)
      ELSE FromMostRecent(o, n)

\* No partition has a record in the requested period.
NoRecordsFound(offs) == \A p \in DOMAIN offs : offs[p].start = NoOffset
=============================================================================
