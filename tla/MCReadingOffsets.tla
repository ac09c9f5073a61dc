-------------------------- MODULE MCReadingOffsets --------------------------
(***************************************************************************)
(* The offset arithmetic of a read against reference definitions, over a   *)
(* partition that producers append to and retention deletes from.          *)
(***************************************************************************)
EXTENDS ReadingOffsets

CONSTANTS MaxEnd, MaxLimit, MaxPartitions

ASSUME BoundsAssumption == {MaxEnd, MaxLimit, MaxPartitions} \subseteq Nat

VARIABLES request, \* what is asked for: start point, limit and partitions
          stored   \* the offsets of one partition as the broker has them

requestVars == <<request, stored>>

RequestInit ==
  /\ request \in [startPoint : {"Beginning", "MostRecent"},
                  limit      : 1 .. MaxLimit,
                  partitions : {1 .. n : n \in 1 .. MaxPartitions}]
  /\ stored = [start |-> 0, end |-> 1]

Grow == /\ stored.end < MaxEnd
        /\ stored' = [stored EXCEPT !.end = @ + 1]
        /\ UNCHANGED request

Shrink == /\ stored.start + 1 < stored.end
          /\ stored' = [stored EXCEPT !.start = @ + 1]
          /\ UNCHANGED request

RequestNext == Grow \/ Shrink
RequestSpec == RequestInit /\ [][RequestNext]_requestVars

-----------------------------------------------------------------------------
Available == stored.start .. stored.end - 1
Share     == RecordsPerPartition(request.limit, Cardinality(request.partitions))
Asked     == DetermineReadingOffsets(request.startPoint, request.limit,
                                     request.partitions, stored)
Window    == Asked.start .. Asked.end

Earlier(x) == {y \in Available : y < x}
Later(x)   == {y \in Available : y > x}

\* Said of sets of offsets: a read from the beginning takes all of a partition
\* that holds at most one record more than its share, else the first ones up
\* to the share; a read of the most recent takes one more than its share,
\* counted from the newest (determineReadingOffsets).
WindowIsReference ==
  Window = IF request.startPoint = "Beginning"
           THEN IF Cardinality(Available) <= Share + 1 THEN Available
                ELSE {x \in Available : Cardinality(Earlier(x)) < Share}
           ELSE {x \in Available : Cardinality(Later(x)) <= Share}
=============================================================================
