------------------------- MODULE RecordReader_proofs ------------------------
(***************************************************************************)
(* What holds of a read for every set of partitions, request and log.      *)
(***************************************************************************)
EXTENDS RecordReader, MCReadingOffsets, FiniteSetTheorems, TLAPS

-----------------------------------------------------------------------------
(* The offset arithmetic                                                   *)

\* There is at least one partition to read.
LEMMA PartitionsCounted == Cardinality(Partitions) \in Nat \ {0}
  BY PartitionsAssumption, FS_CardinalityType, FS_EmptySet

\* The share of the limit of a partition is a natural number.
LEMMA ShareType ==
  ASSUME NEW limit \in Nat \ {0}
  PROVE  RecordsPerPartition(limit, Cardinality(Partitions)) \in Nat
  BY PartitionsCounted DEF RecordsPerPartition

\* The share, and how many records of the partition come before and after one.
RequestOK == /\ stored \in [start : Nat, end : Nat] /\ stored.start < stored.end
             /\ request \in [startPoint : {"Beginning", "MostRecent"},
                             limit      : 1 .. MaxLimit,
                             partitions : {1 .. n : n \in 1 .. MaxPartitions}]

LEMMA RequestTyped == RequestSpec => []RequestOK
<1>1. RequestInit => RequestOK
  BY DEF RequestInit, RequestOK
<1>2. RequestOK /\ [RequestNext]_requestVars => RequestOK'
  BY DEF RequestOK, RequestNext, Grow, Shrink, requestVars
<1> QED
  BY <1>1, <1>2, PTL DEF RequestSpec

LEMMA IntervalCount ==
  ASSUME NEW a \in Int, NEW c \in Int, a <= c + 1
  PROVE  Cardinality(a .. c) = c + 1 - a
<1>1. Cardinality(a .. c) = IF a > c THEN 0 ELSE c - a + 1
  BY FS_Interval
<1> QED
  BY <1>1

LEMMA SharesAndCounts ==
  ASSUME RequestOK
  PROVE  /\ Share \in Nat
         /\ Cardinality(Available) = stored.end - stored.start
         /\ \A x \in Available : /\ Cardinality(Earlier(x)) = x - stored.start
                                 /\ Cardinality(Later(x)) = stored.end - 1 - x
<1>1. stored.start \in Nat /\ stored.end \in Nat /\ stored.start < stored.end
  BY DEF RequestOK
<1>2. Share \in Nat
  <2>1. PICK n \in 1 .. MaxPartitions : request.partitions = 1 .. n
    BY DEF RequestOK
  <2>2. n \in Nat \ {0} /\ request.limit \in Nat
    BY BoundsAssumption DEF RequestOK
  <2>3. Cardinality(request.partitions) = n
    BY <2>1, <2>2, FS_Interval
  <2> QED
    BY <2>2, <2>3 DEF Share, RecordsPerPartition
<1>3. Cardinality(Available) = stored.end - stored.start
  <2> DEFINE a == stored.start
             c == stored.end - 1
  <2>1. a \in Int /\ c \in Int /\ a <= c + 1 /\ c + 1 - a = stored.end - stored.start
    BY <1>1
  <2>2. Available = a .. c
    BY DEF Available
  <2> HIDE DEF a, c
  <2> QED
    BY <2>1, <2>2, IntervalCount
<1>4. ASSUME NEW x \in Available
      PROVE  /\ Cardinality(Earlier(x)) = x - stored.start
             /\ Cardinality(Later(x)) = stored.end - 1 - x
  <2>1. x \in Int /\ stored.start <= x /\ x <= stored.end - 1
    BY <1>1, <1>4 DEF Available
  <2>2. /\ Earlier(x) = stored.start .. x - 1
        /\ Later(x) = x + 1 .. stored.end - 1
    BY <1>1, <2>1 DEF Earlier, Later, Available
  <2>3. Cardinality(stored.start .. x - 1) = x - stored.start
    <3> DEFINE a == stored.start
               c == x - 1
    <3>1. a \in Int /\ c \in Int /\ a <= c + 1 /\ c + 1 - a = x - stored.start
      BY <1>1, <2>1
    <3> HIDE DEF a, c
    <3>2. Cardinality(a .. c) = c + 1 - a
      BY <3>1, IntervalCount
    <3> QED
      BY <3>1, <3>2 DEF a, c
  <2>4. Cardinality(x + 1 .. stored.end - 1) = stored.end - 1 - x
    <3> DEFINE a == x + 1
               c == stored.end - 1
    <3>1. a \in Int /\ c \in Int /\ a <= c + 1 /\ c + 1 - a = stored.end - 1 - x
      BY <1>1, <2>1
    <3> HIDE DEF a, c
    <3>2. Cardinality(a .. c) = c + 1 - a
      BY <3>1, IntervalCount
    <3> QED
      BY <3>1, <3>2 DEF a, c
  <2> QED
    BY <2>2, <2>3, <2>4
<1> QED
  BY <1>2, <1>3, <1>4

\* A read asks for the offsets the reference names, whatever the limit, the
\* number of partitions and the offsets of the partition
\* (determineReadingOffsets).
THEOREM WindowsAreReference == RequestSpec => []WindowIsReference
<1>1. RequestOK => WindowIsReference
  <2> SUFFICES ASSUME RequestOK PROVE WindowIsReference
    OBVIOUS
  <2> DEFINE a == stored.start
             b == stored.end
             n == Share
  <2>1. a \in Nat /\ b \in Nat /\ a < b
    BY DEF RequestOK
  <2>2. /\ n \in Nat
        /\ Cardinality(Available) = b - a
        /\ \A x \in Available : /\ Cardinality(Earlier(x)) = x - a
                                /\ Cardinality(Later(x)) = b - 1 - x
    BY SharesAndCounts
  <2>3. Available = a .. b - 1
    BY DEF Available
  <2>4. request.startPoint \in {"Beginning", "MostRecent"}
    BY DEF RequestOK
  <2>5. Asked = IF request.startPoint = "Beginning" THEN FromBeginning(stored, n)
                ELSE FromMostRecent(stored, n)
    BY <2>4 DEF Asked, DetermineReadingOffsets, Share
  <2> HIDE DEF n
  <2>6. CASE request.startPoint = "Beginning"
    <3>1. /\ Asked.start = a
          /\ Asked.end = IF a + n < b - 1 THEN a + n - 1 ELSE b - 1
      BY <2>5, <2>6 DEF FromBeginning, Newest
    <3>2. CASE a + n < b - 1
      <4>1. ~(Cardinality(Available) <= n + 1)
        BY <2>1, <2>2, <3>2
      <4>2. Window = a .. a + n - 1
        BY <3>1, <3>2 DEF Window
      <4>3. {x \in Available : Cardinality(Earlier(x)) < n} = {x \in a .. b - 1 : x - a < n}
        BY <2>2, <2>3
      <4>4. a .. a + n - 1 = {x \in a .. b - 1 : x - a < n}
        BY <2>1, <2>2, <3>2
      <4> QED
        BY <2>6, <4>1, <4>2, <4>3, <4>4 DEF WindowIsReference, n
    <3>3. CASE ~(a + n < b - 1)
      <4>1. Cardinality(Available) <= n + 1
        BY <2>1, <2>2, <3>3
      <4>2. Window = Available
        BY <2>3, <3>1, <3>3 DEF Window
      <4> QED
        BY <2>6, <4>1, <4>2 DEF WindowIsReference, n
    <3> QED
      BY <3>2, <3>3
  <2>7. CASE request.startPoint = "MostRecent"
    <3> DEFINE wanted == b - 1 - n
    <3>1. /\ Asked.start = IF wanted < 0 \/ wanted < a THEN a ELSE wanted
          /\ Asked.end = b - 1
      BY <2>5, <2>7 DEF FromMostRecent, Newest
    <3>2. {x \in Available : Cardinality(Later(x)) <= n} = {x \in a .. b - 1 : b - 1 - x <= n}
      BY <2>2, <2>3
    <3>3. Window = {x \in a .. b - 1 : b - 1 - x <= n}
      <4>1. CASE wanted < 0 \/ wanted < a
        <5>1. Window = a .. b - 1
          BY <3>1, <4>1 DEF Window
        <5> QED
          BY <2>1, <2>2, <4>1, <5>1
      <4>2. CASE ~(wanted < 0 \/ wanted < a)
        <5>1. Window = wanted .. b - 1
          BY <3>1, <4>2 DEF Window
        <5> QED
          BY <2>1, <2>2, <4>2, <5>1
      <4> QED
        BY <4>1, <4>2
    <3> QED
      BY <2>7, <3>2, <3>3 DEF WindowIsReference, n
  <2> QED
    BY <2>4, <2>6, <2>7
<1> QED
  BY <1>1, RequestTyped, PTL

\* The reading offsets of a partition are a pair of integers.
LEMMA WindowType ==
  ASSUME NEW startPoint \in StartPoints, NEW limit \in Nat \ {0},
         NEW o \in Offsets
  PROVE  DetermineReadingOffsets(startPoint, limit, Partitions, o) \in Offsets
<1> DEFINE n == RecordsPerPartition(limit, Cardinality(Partitions))
<1>1. n \in Nat
  BY ShareType
<1> HIDE DEF n
<1>2. FromBeginning(o, n) \in Offsets
  BY <1>1 DEF FromBeginning, Offsets, Newest
<1>3. FromMostRecent(o, n) \in Offsets
  BY <1>1 DEF FromMostRecent, Offsets, Newest
<1>4. [start |-> o.end, end |-> -1] \in Offsets
  BY DEF Offsets
<1>5. QED
  BY <1>2, <1>3, <1>4 DEF DetermineReadingOffsets, StartPoints, n

\* Unfolded for a partition of the read: what ReadingWindow returns.
LEMMA ReadingWindowType ==
  ASSUME TypeOK, NEW p \in Partitions
  PROVE  /\ ReadingWindow(p) \in Offsets
         /\ ConsumerStart(p, ReadingWindow(p)) \in Int
<1>1. rd.startPoint \in StartPoints /\ rd.limit \in Nat \ {0}
  BY ReadDetailsAssumption DEF TypeOK
<1>2. offsets[p] \in Offsets
  BY DEF TypeOK
<1>3. ReadingWindow(p) \in Offsets
  BY <1>1, <1>2, WindowType DEF ReadingWindow
<1>4. log[p].kinds \in Seq(Kinds)
  BY DEF TypeOK, Log
<1>5. End(p) \in Nat
  BY <1>4 DEF End
<1> DEFINE w == ReadingWindow(p)
<1>6. w.start \in Int
  BY <1>3 DEF Offsets
<1> HIDE DEF w
<1>7. ConsumerStart(p, w) \in Int
  BY <1>5, <1>6 DEF ConsumerStart
<1>8. QED
  BY <1>3, <1>7 DEF w

\* The length of a log.
LEMMA EndType ==
  ASSUME TypeOK, NEW p \in Partitions
  PROVE  End(p) \in Nat /\ log[p].low \in Nat /\ log[p].kinds \in Seq(Kinds)
  BY DEF TypeOK, Log, End

-----------------------------------------------------------------------------
(* Type correctness                                                        *)

LEMMA InitTypeOK == Init => TypeOK
<1> SUFFICES ASSUME Init PROVE TypeOK
  OBVIOUS
<1>1. log \in [Partitions -> Log]
  BY LogsAssumption DEF Init
<1>2. [start |-> 0, end |-> 0] \in Offsets
  BY DEF Offsets
<1>3. toClose \in Seq(Channels) /\ records \in Seq(ChannelRecord)
  BY DEF Init
<1>4. offsets \in [Partitions -> Offsets] /\ window \in [Partitions -> Offsets]
  BY <1>2 DEF Init
<1>5. /\ fetch \in [Partitions -> Fetching]
      /\ reader \in [Partitions -> ReaderSteps]
      /\ main \in MainSteps
  BY DEF Init, Fetching, ReaderSteps, Exited, MainSteps
<1>6. /\ next \in [Partitions -> Int]
      /\ sent \in [Partitions -> SUBSET Int]
      /\ msgCount \in Nat
  BY DEF Init
<1>7. full \subseteq Signals /\ closed \subseteq Channels /\ cancelled \in BOOLEAN
  BY DEF Init
<1>8. rd \in ReadDetails
  BY DEF Init
<1>9. QED
  BY <1>1, <1>3, <1>4, <1>5, <1>6, <1>7, <1>8 DEF TypeOK

\* Every step of the read keeps the types.
LEMMA NextTypeOK == TypeOK /\ [Next]_readerVars => TypeOK'
<1> SUFFICES ASSUME TypeOK, [Next]_readerVars PROVE TypeOK'
  OBVIOUS
<1> USE DEF TypeOK, brokerVars, fetchVars, mainVars, partVars, chanVars,
            Fetching, MainSteps, ReaderSteps, Exited
<1>1. ASSUME NEW p \in Partitions, FetchStart(p) PROVE TypeOK'
  <2>1. End(p) \in Nat
    BY EndType
  <2>2. PICK o \in NoOffset .. End(p) : offsets' = [offsets EXCEPT ![p].start = o]
    BY <1>1 DEF FetchStart
  <2>3. o \in Int
    BY <2>1, <2>2 DEF NoOffset
  <2>4. offsets[p] \in Offsets
    OBVIOUS
  <2>5. [offsets[p] EXCEPT !.start = o] \in Offsets
    BY <2>3, <2>4 DEF Offsets
  <2>6. offsets' = [offsets EXCEPT ![p] = [offsets[p] EXCEPT !.start = o]]
    BY <2>2
  <2>7. offsets' \in [Partitions -> Offsets]
    BY <2>5, <2>6
  <2>8. QED
    BY <1>1, <2>7 DEF FetchStart
<1>2. ASSUME NEW p \in Partitions, FetchEnd(p) PROVE TypeOK'
  <2> DEFINE e == End(p)
  <2>1. e \in Int
    BY EndType
  <2>4. offsets' = [offsets EXCEPT ![p] = [offsets[p] EXCEPT !.end = e]]
    BY <1>2 DEF FetchEnd
  <2> HIDE DEF e
  <2>2. offsets[p] \in Offsets
    OBVIOUS
  <2>3. [offsets[p] EXCEPT !.end = e] \in Offsets
    BY <2>1, <2>2 DEF Offsets
  <2>5. offsets' \in [Partitions -> Offsets]
    BY <2>3, <2>4
  <2>6. QED
    BY <1>2, <2>5 DEF FetchEnd
<1>3. ASSUME NEW p \in Partitions, FetchError(p) PROVE TypeOK'
  BY <1>3 DEF FetchError
<1>4. CASE ReportFetchError
  BY <1>4 DEF ReportFetchError, FetchErrorOrder, Channels, Signals
<1>5. CASE FindNothing
  BY <1>5 DEF FindNothing
<1>6. CASE ReportNoRecordsFound
  BY <1>6 DEF ReportNoRecordsFound, Signals
<1>7. CASE StartPartitions
  BY <1>7 DEF StartPartitions
<1>8. CASE ReportEmptyTopic
  BY <1>8 DEF ReportEmptyTopic, Signals
<1>9. CASE AwaitPartitions
  BY <1>9 DEF AwaitPartitions
<1>10. CASE Shutdown
  BY <1>10 DEF Shutdown, ShutdownOrder, Channels, Signals
<1>11. CASE CloseNext
  BY <1>11 DEF CloseNext
<1>12. ASSUME NEW p \in Partitions, Connect(p) PROVE TypeOK'
  BY <1>12, ReadingWindowType DEF Connect, Move
<1>13. ASSUME NEW p \in Partitions, ConnectError(p) PROVE TypeOK'
  BY <1>13 DEF ConnectError, Move
<1>14. ASSUME NEW p \in Partitions, StreamError(p) PROVE TypeOK'
  BY <1>14 DEF StreamError, Move
<1>15. ASSUME NEW p \in Partitions, SendError(p) PROVE TypeOK'
  BY <1>15 DEF SendError, Move, Signals
<1>16. ASSUME NEW p \in Partitions, RejectRecord(p) PROVE TypeOK'
  BY <1>16 DEF RejectRecord, Move
<1>17. ASSUME NEW p \in Partitions, AcceptRecord(p) PROVE TypeOK'
  BY <1>17 DEF AcceptRecord, Move
<1>18. ASSUME NEW p \in Partitions, SendRecord(p) PROVE TypeOK'
  BY <1>18 DEF SendRecord, Move, AfterSend, Held, ChannelRecord
<1>19. ASSUME NEW p \in Partitions, ObserveCancel(p) PROVE TypeOK'
  BY <1>19 DEF ObserveCancel, Move
<1>20. CASE TakeRecord
  BY <1>20 DEF TakeRecord
<1>21. ASSUME NEW c \in Signals, TakeSignal(c) PROVE TypeOK'
  BY <1>21 DEF TakeSignal
<1>22. CASE Cancel
  BY <1>22 DEF Cancel
<1>23. ASSUME NEW p \in Partitions, NEW k \in Kinds, Produce(p, k) PROVE TypeOK'
  <2>1. log[p] \in Log /\ log[p].kinds \in Seq(Kinds)
    BY EndType
  <2>2. Append(log[p].kinds, k) \in Seq(Kinds)
    BY <2>1
  <2>3. [log[p] EXCEPT !.kinds = Append(log[p].kinds, k)] \in Log
    BY <2>1, <2>2 DEF Log
  <2>4. log' = [log EXCEPT ![p] = [log[p] EXCEPT !.kinds = Append(log[p].kinds, k)]]
    BY <1>23 DEF Produce
  <2>5. log' \in [Partitions -> Log]
    BY <2>3, <2>4
  <2>6. QED
    BY <1>23, <2>5 DEF Produce
<1>24. CASE UNCHANGED readerVars
  BY <1>24 DEF readerVars
<1>25. QED
  BY <1>1, <1>2, <1>3, <1>4, <1>5, <1>6, <1>7, <1>8, <1>9, <1>10, <1>11, <1>12,
     <1>13, <1>14, <1>15, <1>16, <1>17, <1>18, <1>19, <1>20, <1>21, <1>22,
     <1>23, <1>24
     DEF Next, Goroutines, Environment, Fetcher, Main, PartitionReader

\* The variables of a read keep their types in every reachable state.
THEOREM TypeCorrect == Spec => []TypeOK
  BY InitTypeOK, NextTypeOK, PTL DEF Spec

-----------------------------------------------------------------------------
(* The phases of doReadRecords                                             *)

AllExited == \A p \in Partitions : reader[p] \in Exited

\* How far main is with closing the channels, on either path.
ShuttingDown ==
  \/ toClose = <<"records", "err", "empty", "none">> /\ closed = {}
  \/ toClose = <<"err", "empty", "none">> /\ closed = {"records"}
  \/ toClose = <<"empty", "none">> /\ closed = {"records", "err"}
  \/ toClose = <<"none">> /\ closed = {"records", "err", "empty"}

GivingUp ==
  \/ toClose = <<"records", "err">> /\ closed = {}
  \/ toClose = <<"err">> /\ closed = {"records"}

\* ChannelDiscipline is not inductive: that no goroutine is left when a
\* channel is closed depends on the phase main is in.
PhaseInv ==
  /\ main = "fetching" => closed = {} /\ \A p \in Partitions : reader[p] = "off"
  /\ main # "fetching" => \A p \in Partitions : fetch[p] \in {"done", "failed"}
  /\ main \in {"emptyTopic", "waiting", "sleeping"} => closed = {} /\ ~FetchFailed
  /\ main \in {"emptyTopic", "sleeping", "closing", "notFound", "returned"}
       => AllExited
  /\ main = "closing" => (ShuttingDown /\ ~FetchFailed) \/ GivingUp
  /\ main # "closing" => toClose = <<>>
  /\ main = "notFound" => closed \subseteq {"records", "err"}

\* A partition goroutine is at work only while main waits for it.
LEMMA WorkWhileWaiting ==
  ASSUME TypeOK, PhaseInv, NEW p \in Partitions, reader[p] \notin Exited
  PROVE  main = "waiting"
  BY DEF TypeOK, MainSteps, PhaseInv, AllExited, Exited

LEMMA InitPhase == Init => PhaseInv
  BY DEF Init, PhaseInv

\* A step of a partition goroutine leaves main and the channels' ends alone.
LEMMA PartitionKeepsPhase ==
  ASSUME TypeOK, PhaseInv, NEW p \in Partitions, PartitionReader(p)
  PROVE  PhaseInv'
<1> USE DEF brokerVars, fetchVars, mainVars, partVars, chanVars
<1>1. reader[p] \notin Exited
  BY DEF PartitionReader, Connect, ConnectError, StreamError, SendError,
         RejectRecord, AcceptRecord, SendRecord, ObserveCancel, Exited
<1>2. main = "waiting"
  BY <1>1, WorkWhileWaiting
<1>3. main' = main /\ toClose' = toClose /\ closed' = closed /\ fetch' = fetch
  BY DEF PartitionReader, Connect, ConnectError, StreamError, SendError,
         RejectRecord, AcceptRecord, SendRecord, ObserveCancel
<1>4. QED
  BY <1>2, <1>3 DEF PhaseInv, FetchFailed

LEMMA NextPhase == TypeOK /\ PhaseInv /\ [Next]_readerVars => PhaseInv'
<1> SUFFICES ASSUME TypeOK, PhaseInv, [Next]_readerVars PROVE PhaseInv'
  OBVIOUS
<1> USE DEF brokerVars, fetchVars, mainVars, partVars, chanVars
<1>1. ASSUME NEW p \in Partitions, Fetcher(p) PROVE PhaseInv'
  <2>1. main = "fetching"
    BY <1>1 DEF PhaseInv, Fetcher, FetchStart, FetchEnd, FetchError
  <2>2. UNCHANGED <<main, toClose, closed, reader>>
    BY <1>1 DEF Fetcher, FetchStart, FetchEnd, FetchError
  <2>3. QED
    BY <2>1, <2>2 DEF PhaseInv
<1>2. CASE ReportFetchError
  BY <1>2 DEF ReportFetchError, FetchJoined, FetchErrorOrder, PhaseInv,
              GivingUp, AllExited, Exited
<1>3. CASE FindNothing
  BY <1>3 DEF FindNothing, FetchJoined, PhaseInv, AllExited, Exited
<1>4. CASE ReportNoRecordsFound
  BY <1>4 DEF ReportNoRecordsFound, PhaseInv, AllExited
<1>5. CASE StartPartitions
  <2>1. closed' = {} /\ toClose' = <<>> /\ fetch' = fetch /\ ~FetchFailed
        /\ \A p \in Partitions : fetch[p] \in {"done", "failed"}
    BY <1>5 DEF StartPartitions, FetchJoined, PhaseInv
  <2>2. CASE \E p \in Partitions : HasData(p)
    <3>1. main' = "waiting"
      BY <1>5, <2>2 DEF StartPartitions
    <3>2. QED
      BY <2>1, <3>1 DEF PhaseInv, FetchFailed
  <2>3. CASE ~ \E p \in Partitions : HasData(p)
    <3>1. main' = "emptyTopic" /\ reader' = [p \in Partitions |-> "off"]
      BY <1>5, <2>3 DEF StartPartitions
    <3>2. AllExited'
      BY <3>1 DEF AllExited, Exited
    <3>3. QED
      BY <2>1, <3>1, <3>2 DEF PhaseInv, FetchFailed
  <2>4. QED
    BY <2>2, <2>3
<1>6. CASE ReportEmptyTopic
  BY <1>6 DEF ReportEmptyTopic, PhaseInv, FetchFailed
<1>7. CASE AwaitPartitions
  BY <1>7 DEF AwaitPartitions, PhaseInv, FetchFailed, AllExited
<1>8. CASE Shutdown
  BY <1>8 DEF Shutdown, ShutdownOrder, PhaseInv, FetchFailed, AllExited,
              ShuttingDown
<1>9. CASE CloseNext
  <2>1. AllExited' /\ (FetchFailed' <=> FetchFailed) /\ main = "closing"
        /\ \A p \in Partitions : fetch'[p] \in {"done", "failed"}
    BY <1>9 DEF CloseNext, PhaseInv, AllExited, FetchFailed
  <2>2. CASE ShuttingDown /\ ~FetchFailed
    <3>1. CASE toClose = <<"records", "err", "empty", "none">> /\ closed = {}
      <4>1. /\ toClose' = <<"err", "empty", "none">>
            /\ closed' = {"records"}
            /\ main' = "closing"
        BY <1>9, <3>1 DEF CloseNext
      <4>2. QED
        BY <2>1, <2>2, <4>1 DEF PhaseInv, ShuttingDown
    <3>2. CASE toClose = <<"err", "empty", "none">> /\ closed = {"records"}
      <4>1. /\ toClose' = <<"empty", "none">>
            /\ closed' = {"records", "err"}
            /\ main' = "closing"
        BY <1>9, <3>2 DEF CloseNext
      <4>2. QED
        BY <2>1, <2>2, <4>1 DEF PhaseInv, ShuttingDown
    <3>3. CASE toClose = <<"empty", "none">> /\ closed = {"records", "err"}
      <4>1. /\ toClose' = <<"none">>
            /\ closed' = {"records", "err", "empty"}
            /\ main' = "closing"
        BY <1>9, <3>3 DEF CloseNext
      <4>2. QED
        BY <2>1, <2>2, <4>1 DEF PhaseInv, ShuttingDown
    <3>4. CASE toClose = <<"none">> /\ closed = {"records", "err", "empty"}
      <4>1. toClose' = <<>> /\ main' = "returned"
        BY <1>9, <2>2, <3>4 DEF CloseNext
      <4>2. QED
        BY <2>1, <4>1 DEF PhaseInv
    <3>5. QED
      BY <2>2, <3>1, <3>2, <3>3, <3>4 DEF ShuttingDown
  <2>3. CASE GivingUp
    <3>1. CASE toClose = <<"records", "err">> /\ closed = {}
      <4>1. toClose' = <<"err">> /\ closed' = {"records"} /\ main' = "closing"
        BY <1>9, <3>1 DEF CloseNext
      <4>2. QED
        BY <2>1, <4>1 DEF PhaseInv, GivingUp
    <3>2. CASE toClose = <<"err">> /\ closed = {"records"}
      <4>1. /\ toClose' = <<>>
            /\ closed' = {"records", "err"}
            /\ main' \in {"notFound", "returned"}
        BY <1>9, <3>2 DEF CloseNext
      <4>2. QED
        BY <2>1, <4>1 DEF PhaseInv
    <3>3. QED
      BY <2>3, <3>1, <3>2 DEF GivingUp
  <2>4. QED
    BY <2>1, <2>2, <2>3 DEF PhaseInv
<1>10. ASSUME NEW p \in Partitions, PartitionReader(p) PROVE PhaseInv'
  BY <1>10, PartitionKeepsPhase
<1>11. CASE Environment \/ UNCHANGED readerVars
  <2>1. UNCHANGED <<main, toClose, closed, reader, fetch>>
    BY <1>11 DEF Environment, TakeRecord, TakeSignal, Cancel, Produce, readerVars
  <2>2. QED
    BY <2>1 DEF PhaseInv, AllExited, FetchFailed, ShuttingDown, GivingUp
<1>12. QED
  BY <1>1, <1>2, <1>3, <1>4, <1>5, <1>6, <1>7, <1>8, <1>9, <1>10, <1>11
     DEF Next, Goroutines, Main

\* No read ever sends on a closed channel or closes one twice.
THEOREM ChannelsDisciplined == Spec => []ChannelDiscipline
<1>1. TypeOK /\ PhaseInv => ChannelDiscipline
  <2> SUFFICES ASSUME TypeOK, PhaseInv PROVE ChannelDiscipline
    OBVIOUS
  <2>1. main \in {"fetching", "emptyTopic"} => closed = {}
    BY DEF PhaseInv
  <2>2. main = "notFound" => "none" \notin closed
    BY DEF PhaseInv
  <2>3. closed # {} => AllExited
    BY DEF PhaseInv, TypeOK, MainSteps
  <2>4. toClose # <<>> => Head(toClose) \notin closed
    BY DEF PhaseInv, ShuttingDown, GivingUp
  <2>5. QED
    BY <2>1, <2>2, <2>3, <2>4 DEF ChannelDiscipline, AllExited
<1>2. QED
  BY InitTypeOK, NextTypeOK, InitPhase, NextPhase, <1>1, PTL DEF Spec

-----------------------------------------------------------------------------
(* The counter                                                             *)

\* The partition goroutines that will not count another record.
Stopped == {p \in Partitions : reader[p] \in {"sendLast", "done", "failed"}}

\* Every record counted at or past the limit was counted by a goroutine of
\* its own, which has stopped.
CountInv == msgCount >= rd.limit => msgCount - rd.limit + 1 <= Cardinality(Stopped)

LEMMA StoppedFinite == IsFiniteSet(Stopped) /\ Stopped \subseteq Partitions
  BY PartitionsAssumption, FS_Subset DEF Stopped

LEMMA InitCount == Init => CountInv
<1> SUFFICES ASSUME Init PROVE CountInv
  OBVIOUS
<1>1. msgCount = 0 /\ rd.limit \in Nat \ {0}
  BY ReadDetailsAssumption DEF Init
<1>2. QED
  BY <1>1 DEF CountInv

\* Goroutines that have stopped stay so: a step that counts nothing and
\* restarts nobody keeps the bound.
LEMMA CountKept ==
  ASSUME TypeOK, TypeOK', CountInv, Stopped \subseteq Stopped',
         msgCount' = msgCount, rd' = rd
  PROVE  CountInv'
<1>1. IsFiniteSet(Stopped) /\ IsFiniteSet(Stopped')
  <2>1. Stopped' \subseteq Partitions
    BY DEF Stopped
  <2>2. QED
    BY <2>1, StoppedFinite, PartitionsAssumption, FS_Subset
<1>2. Cardinality(Stopped) <= Cardinality(Stopped')
  BY <1>1, FS_Subset
<1>3. Cardinality(Stopped) \in Nat /\ Cardinality(Stopped') \in Nat
  BY <1>1, FS_CardinalityType
<1>4. rd.limit \in Nat /\ msgCount \in Nat
  BY ReadDetailsAssumption DEF TypeOK
<1> DEFINE c == Cardinality(Stopped)
           d == Cardinality(Stopped)'
<1>5. c <= d /\ c \in Nat /\ d \in Nat
  BY <1>2, <1>3
<1>6. msgCount >= rd.limit => msgCount - rd.limit + 1 <= c
  BY DEF CountInv
<1> HIDE DEF c, d
<1>7. msgCount' >= rd'.limit => msgCount' - rd'.limit + 1 <= d
  BY <1>4, <1>5, <1>6
<1>8. QED
  BY <1>7 DEF CountInv, d

\* A goroutine that counts at or past the limit joins the stopped ones.
LEMMA CountAccepted ==
  ASSUME TypeOK, CountInv, NEW p \in Partitions, AcceptRecord(p)
  PROVE  CountInv'
<1>1. /\ reader[p] = "read" /\ msgCount' = msgCount + 1 /\ rd' = rd
      /\ reader' = [reader EXCEPT ![p] =
                      IF msgCount + 1 >= rd.limit THEN "sendLast" ELSE "send"]
  BY DEF AcceptRecord, Move, brokerVars
<1>2. rd.limit \in Nat \ {0} /\ msgCount \in Nat
  BY ReadDetailsAssumption DEF TypeOK
<1>3. CASE msgCount + 1 >= rd.limit
  <2>1. p \notin Stopped /\ Stopped' = Stopped \union {p}
    BY <1>1, <1>3 DEF Stopped, TypeOK
  <2>2. Cardinality(Stopped') = Cardinality(Stopped) + 1
    BY <2>1, StoppedFinite, FS_AddElement
  <2>3. Cardinality(Stopped) \in Nat
    BY StoppedFinite, FS_CardinalityType
  <2> DEFINE c == Cardinality(Stopped)
             d == Cardinality(Stopped)'
  <2>4. d = c + 1 /\ c \in Nat
    BY <2>2, <2>3
  <2>5. msgCount >= rd.limit => msgCount - rd.limit + 1 <= c
    BY DEF CountInv
  <2> HIDE DEF c, d
  <2>6. msgCount' - rd'.limit + 1 <= d
    BY <1>1, <1>2, <1>3, <2>4, <2>5
  <2>7. QED
    BY <2>6 DEF CountInv, d
<1>4. CASE ~(msgCount + 1 >= rd.limit)
  BY <1>1, <1>2, <1>4 DEF CountInv
<1>5. QED
  BY <1>3, <1>4

LEMMA NextCount ==
  TypeOK /\ PhaseInv /\ CountInv /\ [Next]_readerVars => CountInv'
<1> SUFFICES ASSUME TypeOK, PhaseInv, CountInv, [Next]_readerVars PROVE CountInv'
  OBVIOUS
<1> USE DEF brokerVars, fetchVars, mainVars, partVars, chanVars
<1>1. TypeOK'
  BY NextTypeOK
<1>2. ASSUME NEW p \in Partitions, AcceptRecord(p) PROVE CountInv'
  BY <1>2, CountAccepted
<1>3. CASE StartPartitions
  <2>1. Stopped = {}
    BY <1>3 DEF StartPartitions, FetchJoined, PhaseInv, Stopped
  <2>2. UNCHANGED <<msgCount, rd>>
    BY <1>3 DEF StartPartitions
  <2>3. QED
    BY <1>1, <2>1, <2>2, CountKept
<1>4. ASSUME NEW p \in Partitions,
             \/ Connect(p) \/ ConnectError(p) \/ StreamError(p) \/ SendError(p)
             \/ RejectRecord(p) \/ SendRecord(p) \/ ObserveCancel(p)
      PROVE  CountInv'
  <2>1. UNCHANGED <<msgCount, rd>>
    BY <1>4 DEF Connect, ConnectError, StreamError, SendError, RejectRecord,
                SendRecord, ObserveCancel
  <2>2. /\ \A q \in Partitions \ {p} : reader'[q] = reader[q]
        /\ reader[p] \in {"sendLast", "done", "failed"}
             => reader'[p] \in {"sendLast", "done", "failed"}
    BY <1>4 DEF Connect, ConnectError, StreamError, SendError, RejectRecord,
                SendRecord, AfterSend, ObserveCancel, Move, TypeOK
  <2>3. Stopped \subseteq Stopped'
    BY <2>2 DEF Stopped
  <2>4. QED
    BY <1>1, <2>1, <2>3, CountKept
<1>5. ASSUME UNCHANGED <<msgCount, rd, reader>> PROVE CountInv'
  BY <1>5 DEF CountInv, Stopped
<1>6. ASSUME NEW p \in Partitions, Fetcher(p) PROVE CountInv'
  BY <1>5, <1>6 DEF Fetcher, FetchStart, FetchEnd, FetchError
<1>7. CASE \/ ReportFetchError \/ FindNothing \/ ReportNoRecordsFound
           \/ ReportEmptyTopic \/ AwaitPartitions \/ Shutdown \/ CloseNext
  BY <1>5, <1>7 DEF ReportFetchError, FindNothing, ReportNoRecordsFound,
                    ReportEmptyTopic, AwaitPartitions, Shutdown, CloseNext
<1>8. CASE Environment \/ UNCHANGED readerVars
  BY <1>5, <1>8 DEF Environment, TakeRecord, TakeSignal, Cancel, Produce, readerVars
<1>9. QED
  BY <1>2, <1>3, <1>4, <1>6, <1>7, <1>8
     DEF Next, Goroutines, Main, PartitionReader

\* A read counts at most |Partitions| - 1 records more than its limit.
THEOREM OverrunBounded == Spec => []CountWithinOverrun
<1>1. TypeOK /\ CountInv => CountWithinOverrun
  <2> SUFFICES ASSUME TypeOK, CountInv PROVE CountWithinOverrun
    OBVIOUS
  <2>1. rd.limit \in Nat /\ msgCount \in Nat
    BY ReadDetailsAssumption DEF TypeOK
  <2> DEFINE c == Cardinality(Stopped)
             n == Cardinality(Partitions)
  <2>2. c <= n /\ c \in Nat /\ n \in Nat \ {0}
    BY StoppedFinite, PartitionsAssumption, FS_Subset, FS_CardinalityType,
       PartitionsCounted
  <2>3. msgCount >= rd.limit => msgCount - rd.limit + 1 <= c
    BY DEF CountInv
  <2> HIDE DEF c, n
  <2>4. msgCount <= rd.limit + n - 1
    BY <2>1, <2>2, <2>3
  <2>5. QED
    BY <2>4 DEF CountWithinOverrun, n
<1>2. QED
  BY InitTypeOK, NextTypeOK, InitPhase, NextPhase, InitCount, NextCount, <1>1,
     PTL DEF Spec

-----------------------------------------------------------------------------
(* The windows                                                             *)

BoundedStart == rd.startPoint \in {"Beginning", "MostRecent"}

\* What fetchOffsets has stored bounds the log from below, and only
\* partitions whose offsets are known and differ are connected to.
OffsetsInv ==
  \A p \in Partitions :
    /\ log[p].low <= End(p)
    /\ BoundedStart /\ fetch[p] \in {"end", "done"} => offsets[p].start = log[p].low
    /\ fetch[p] = "done" => offsets[p].end <= End(p)
    /\ BoundedStart /\ fetch[p] = "done" => offsets[p].start <= offsets[p].end
    /\ BoundedStart /\ reader[p] = "connect"
         => fetch[p] = "done" /\ offsets[p].start # offsets[p].end

WindowInv == OffsetsInv /\ WindowInLog

\* The arithmetic of both bounded start points on a partition with data.
LEMMA WindowSound ==
  ASSUME NEW startPoint \in {"Beginning", "MostRecent"}, NEW limit \in Nat \ {0},
         NEW o \in Offsets, 0 <= o.start, o.start < o.end,
         NEW w, w = DetermineReadingOffsets(startPoint, limit, Partitions, o)
  PROVE  /\ o.start <= w.start
         /\ w.start <= w.end + 1
         /\ w.end < o.end
         /\ w.end - w.start <= RecordsPerPartition(limit, Cardinality(Partitions))
<1> DEFINE n == RecordsPerPartition(limit, Cardinality(Partitions))
<1>1. n \in Nat
  BY ShareType
<1> HIDE DEF n
<1>2. o.start \in Int /\ o.end \in Int
  BY DEF Offsets
<1>3. CASE startPoint = "Beginning"
  <2>1. w = FromBeginning(o, n)
    BY <1>3 DEF DetermineReadingOffsets, n
  <2>2. CASE o.start + n < o.end - 1
    <3>1. w.start = o.start /\ w.end = o.start + n - 1
      BY <2>1, <2>2 DEF FromBeginning, Newest
    <3>2. QED
      BY <1>1, <1>2, <2>2, <3>1 DEF n
  <2>3. CASE ~(o.start + n < o.end - 1)
    <3>1. w.start = o.start /\ w.end = o.end - 1
      BY <2>1, <2>3 DEF FromBeginning, Newest
    <3>2. QED
      BY <1>1, <1>2, <2>3, <3>1 DEF n
  <2>4. QED
    BY <2>2, <2>3
<1>4. CASE startPoint = "MostRecent"
  <2>1. w = FromMostRecent(o, n)
    BY <1>4 DEF DetermineReadingOffsets, n
  <2>2. CASE o.end - 1 - n < 0 \/ o.end - 1 - n < o.start
    <3>1. w.start = o.start /\ w.end = o.end - 1
      BY <2>1, <2>2 DEF FromMostRecent, Newest
    <3>2. QED
      BY <1>1, <1>2, <2>2, <3>1 DEF n
  <2>3. CASE ~(o.end - 1 - n < 0 \/ o.end - 1 - n < o.start)
    <3>1. w.start = o.end - 1 - n /\ w.end = o.end - 1
      BY <2>1, <2>3 DEF FromMostRecent, Newest
    <3>2. QED
      BY <1>1, <1>2, <2>3, <3>1 DEF n
  <2>4. QED
    BY <2>2, <2>3
<1>5. QED
  BY <1>3, <1>4

LEMMA InitWindow == Init => WindowInv
<1> SUFFICES ASSUME Init PROVE WindowInv
  OBVIOUS
<1>1. ASSUME NEW p \in Partitions PROVE log[p].low <= End(p)
  <2>1. log[p] \in Log /\ log[p].low <= log[p].since
        /\ log[p].since <= Len(log[p].kinds)
    BY LogsAssumption DEF Init
  <2> DEFINE a == log[p].low
             b == log[p].since
             c == Len(log[p].kinds)
  <2>2. a \in Int /\ b \in Int /\ c \in Int /\ a <= b /\ b <= c
    BY <2>1 DEF Log
  <2> HIDE DEF a, b, c
  <2>3. a <= c
    BY <2>2
  <2>4. QED
    BY <2>3 DEF End, a, c
<1>2. ASSUME NEW p \in Partitions PROVE fetch[p] = "start" /\ reader[p] = "off"
  BY DEF Init
<1>3. QED
  BY <1>1, <1>2 DEF WindowInv, OffsetsInv, WindowInLog

\* Logs only grow: producers append, nothing else touches them.
LEMMA LogGrows ==
  ASSUME TypeOK, [Next]_readerVars, NEW q \in Partitions
  PROVE  End(q) <= End(q)' /\ log'[q].low = log[q].low /\ rd' = rd
<1> USE DEF brokerVars, fetchVars, mainVars, partVars, chanVars
<1>1. ASSUME NEW p \in Partitions, NEW k \in Kinds, Produce(p, k)
      PROVE  End(q) <= End(q)' /\ log'[q].low = log[q].low /\ rd' = rd
  <2>1. log[p] \in Log /\ log[p].kinds \in Seq(Kinds) /\ log[q] \in Log
    BY EndType DEF TypeOK
  <2>2. log' = [log EXCEPT ![p] = [log[p] EXCEPT !.kinds = Append(log[p].kinds, k)]]
    BY <1>1 DEF Produce
  <2>3. CASE p = q
    <3>1. log'[q] = [log[p] EXCEPT !.kinds = Append(log[p].kinds, k)]
      BY <2>2, <2>3 DEF TypeOK
    <3>2. log'[q].kinds = Append(log[p].kinds, k) /\ log'[q].low = log[p].low
      BY <2>1, <3>1 DEF Log
    <3>3. Len(log'[q].kinds) = Len(log[p].kinds) + 1
      BY <2>1, <3>2
    <3>4. QED
      BY <1>1, <2>1, <2>3, <3>2, <3>3 DEF End, Produce
  <2>4. CASE p # q
    <3>1. log'[q] = log[q]
      BY <2>2, <2>4 DEF TypeOK
    <3>2. QED
      BY <1>1, <3>1, EndType DEF End, Produce
  <2>5. QED
    BY <2>3, <2>4
<1>2. ASSUME UNCHANGED <<rd, log>>
      PROVE  End(q) <= End(q)' /\ log'[q].low = log[q].low /\ rd' = rd
  BY <1>2, EndType DEF End
<1>3. CASE Main \/ UNCHANGED readerVars
  BY <1>2, <1>3 DEF Main, ReportFetchError, FindNothing, ReportNoRecordsFound,
     StartPartitions, ReportEmptyTopic, AwaitPartitions, Shutdown, CloseNext,
     readerVars
<1>4. ASSUME NEW p \in Partitions, Fetcher(p)
      PROVE  UNCHANGED <<rd, log>>
  BY <1>4 DEF Fetcher, FetchStart, FetchEnd, FetchError
<1>5. ASSUME NEW p \in Partitions, PartitionReader(p)
      PROVE  UNCHANGED <<rd, log>>
  BY <1>5 DEF PartitionReader, Connect, ConnectError, StreamError, SendError,
     RejectRecord, AcceptRecord, SendRecord, ObserveCancel
<1>6. CASE TakeRecord \/ Cancel \/ \E c \in Signals : TakeSignal(c)
  BY <1>2, <1>6 DEF TakeRecord, Cancel, TakeSignal
<1>7. QED
  BY <1>1, <1>2, <1>3, <1>4, <1>5, <1>6 DEF Next, Goroutines, Environment

Active == {"read", "send", "sendLast", "streamErr"}

\* A step that neither fetches nor connects, and moves no cursor back.
LEMMA WindowKept ==
  ASSUME TypeOK, TypeOK', WindowInv, [Next]_readerVars,
         UNCHANGED <<offsets, fetch, window>>,
         \A q \in Partitions :
           /\ next[q] <= next'[q]
           /\ reader'[q] = "connect" => reader[q] = "connect"
           /\ reader'[q] \in Active => reader[q] \in Active
  PROVE  WindowInv'
<1> SUFFICES ASSUME NEW q \in Partitions
             PROVE  /\ (log[q].low <= End(q))'
                    /\ (BoundedStart /\ fetch[q] \in {"end", "done"}
                          => offsets[q].start = log[q].low)'
                    /\ (fetch[q] = "done" => offsets[q].end <= End(q))'
                    /\ (BoundedStart /\ fetch[q] = "done"
                          => offsets[q].start <= offsets[q].end)'
                    /\ (BoundedStart /\ reader[q] = "connect"
                          => /\ fetch[q] = "done"
                             /\ offsets[q].start # offsets[q].end)'
                    /\ (BoundedStart /\ reader[q] \in Active
                          => /\ log[q].low <= window[q].start
                             /\ window[q].start <= window[q].end + 1
                             /\ window[q].end < End(q)
                             /\ window[q].end - window[q].start
                                  <= RecordsPerPartition(rd.limit, Cardinality(Partitions))
                             /\ window[q].start <= next[q])'
  BY DEF WindowInv, OffsetsInv, WindowInLog, BoundedStart, Active
<1> DEFINE e == End(q)
           f == End(q)'
<1>1. /\ e <= f /\ e \in Int /\ f \in Int
      /\ log'[q].low = log[q].low /\ rd' = rd /\ log[q].low \in Int
  <2>1. e <= f /\ log'[q].low = log[q].low /\ rd' = rd
    BY LogGrows
  <2>2. e \in Int /\ log[q].low \in Int
    BY EndType
  <2>3. log'[q] \in Log
    BY DEF TypeOK
  <2>4. f \in Int
    BY <2>3 DEF End, Log
  <2>5. QED
    BY <2>1, <2>2, <2>4
<1>2. /\ offsets[q].end \in Int /\ window[q].end \in Int /\ window[q].start \in Int
      /\ next[q] \in Int /\ next'[q] \in Int
  BY DEF TypeOK, Offsets
<1>3. /\ log[q].low <= e
      /\ BoundedStart /\ fetch[q] \in {"end", "done"} => offsets[q].start = log[q].low
      /\ fetch[q] = "done" => offsets[q].end <= e
      /\ BoundedStart /\ fetch[q] = "done" => offsets[q].start <= offsets[q].end
      /\ BoundedStart /\ reader[q] = "connect"
           => fetch[q] = "done" /\ offsets[q].start # offsets[q].end
  BY DEF WindowInv, OffsetsInv
<1>4. BoundedStart /\ reader[q] \in Active
        => /\ log[q].low <= window[q].start
           /\ window[q].start <= window[q].end + 1
           /\ window[q].end < e
           /\ window[q].end - window[q].start
                <= RecordsPerPartition(rd.limit, Cardinality(Partitions))
           /\ window[q].start <= next[q]
  BY DEF WindowInv, WindowInLog, Active, BoundedStart
<1>5. BoundedStart' <=> BoundedStart
  BY <1>1 DEF BoundedStart
<1> HIDE DEF e, f
<1>6. /\ log'[q].low <= f
      /\ fetch'[q] = "done" => offsets'[q].end <= f
  BY <1>1, <1>2, <1>3
<1>7. BoundedStart /\ reader'[q] \in Active
        => window'[q].end < f /\ window'[q].start <= next'[q]
  BY <1>1, <1>2, <1>4
<1>8. QED
  BY <1>1, <1>3, <1>4, <1>5, <1>6, <1>7 DEF f

\* Fetching: a bounded read stores the oldest offset, then the end.
LEMMA FetchKeepsWindow ==
  ASSUME TypeOK, PhaseInv, WindowInv, NEW p \in Partitions, Fetcher(p)
  PROVE  WindowInv'
<1> USE DEF brokerVars, fetchVars, mainVars, partVars, chanVars
<1>1. /\ UNCHANGED <<rd, log, reader, window, next>>
      /\ main = "fetching"
  BY DEF PhaseInv, Fetcher, FetchStart, FetchEnd, FetchError
<1>2. \A q \in Partitions : reader[q] = "off" /\ reader'[q] = "off"
  BY <1>1 DEF PhaseInv
<1>3. WindowInLog'
  BY <1>2 DEF WindowInLog
<1>4. \A q \in Partitions : End(q)' = End(q) /\ log[q].low <= End(q)
  BY <1>1 DEF End, WindowInv, OffsetsInv
<1>5. BoundedStart' <=> BoundedStart
  BY <1>1 DEF BoundedStart
<1>6. ASSUME NEW q \in Partitions
      PROVE  /\ BoundedStart /\ fetch'[q] \in {"end", "done"}
                  => offsets'[q].start = log[q].low
             /\ fetch'[q] = "done" => offsets'[q].end <= End(q)
             /\ BoundedStart /\ fetch'[q] = "done"
                  => offsets'[q].start <= offsets'[q].end
  <2>1. CASE q # p
    <3>1. fetch'[q] = fetch[q] /\ offsets'[q] = offsets[q]
      BY <2>1 DEF Fetcher, FetchStart, FetchEnd, FetchError, TypeOK
    <3>2. QED
      BY <3>1 DEF WindowInv, OffsetsInv
  <2>2. CASE q = p /\ FetchStart(p)
    <3>1. PICK o \in NoOffset .. End(p) :
            /\ IsStartOffset(p, o)
            /\ offsets' = [offsets EXCEPT ![p].start = o]
      BY <2>2 DEF FetchStart
    <3>2. BoundedStart => o = log[p].low
      BY <3>1 DEF IsStartOffset, BoundedStart
    <3>3. offsets[p] \in Offsets /\ fetch'[p] = "end"
      BY <2>2 DEF TypeOK, FetchStart
    <3>4. offsets'[p].start = o
      BY <3>1, <3>3 DEF TypeOK, Offsets
    <3>5. QED
      BY <2>2, <3>2, <3>3, <3>4
  <2>3. CASE q = p /\ FetchEnd(p)
    <3> DEFINE e == End(p)
    <3>1. /\ offsets' = [offsets EXCEPT ![p].end = e]
          /\ fetch[p] = "end"
      BY <2>3 DEF FetchEnd
    <3>2. offsets[p] \in Offsets /\ e \in Nat /\ log[p].low <= e
      BY <1>4, EndType DEF TypeOK
    <3>3. BoundedStart => offsets[p].start = log[p].low
      BY <3>1 DEF WindowInv, OffsetsInv
    <3> HIDE DEF e
    <3>4. offsets'[p].end = e /\ offsets'[p].start = offsets[p].start
      BY <3>1, <3>2 DEF TypeOK, Offsets
    <3>5. /\ BoundedStart => offsets'[p].start = log[p].low
          /\ offsets'[p].end <= e
          /\ BoundedStart => offsets'[p].start <= offsets'[p].end
      BY <3>2, <3>3, <3>4
    <3>6. QED
      BY <2>3, <3>5 DEF e
  <2>4. CASE q = p /\ FetchError(p)
    BY <2>4 DEF FetchError, TypeOK
  <2>5. QED
    BY <2>1, <2>2, <2>3, <2>4 DEF Fetcher
<1>7. OffsetsInv'
  BY <1>1, <1>2, <1>4, <1>5, <1>6 DEF OffsetsInv
<1>8. QED
  BY <1>3, <1>7 DEF WindowInv

\* Connecting: the window comes from offsets that are still those of the log.
LEMMA ConnectKeepsWindow ==
  ASSUME TypeOK, WindowInv, NEW p \in Partitions, Connect(p)
  PROVE  WindowInv'
<1> USE DEF brokerVars, fetchVars, mainVars, partVars, chanVars
<1>1. /\ UNCHANGED <<rd, log, offsets, fetch>>
      /\ reader[p] = "connect" /\ reader' = [reader EXCEPT ![p] = "read"]
      /\ window' = [window EXCEPT ![p] = ReadingWindow(p)]
      /\ next' = [next EXCEPT ![p] = ConsumerStart(p, ReadingWindow(p))]
  BY DEF Connect, Move
<1>2. OffsetsInv'
  <2>1. \A q \in Partitions : reader'[q] = "connect" => reader[q] = "connect"
    BY <1>1 DEF TypeOK
  <2>2. QED
    BY <1>1, <2>1 DEF WindowInv, OffsetsInv, End, BoundedStart
<1>3. ASSUME NEW q \in Partitions, q # p,
             rd.startPoint \in {"Beginning", "MostRecent"},
             reader'[q] \in Active
      PROVE  (/\ log[q].low <= window[q].start
              /\ window[q].start <= window[q].end + 1
              /\ window[q].end < End(q)
              /\ window[q].end - window[q].start
                   <= RecordsPerPartition(rd.limit, Cardinality(Partitions))
              /\ window[q].start <= next[q])'
  <2>1. reader'[q] = reader[q] /\ window'[q] = window[q] /\ next'[q] = next[q]
    BY <1>1, <1>3 DEF TypeOK
  <2>2. QED
    BY <1>1, <1>3, <2>1 DEF WindowInv, WindowInLog, End, Active
<1>4. ASSUME rd.startPoint \in {"Beginning", "MostRecent"}
      PROVE  (/\ log[p].low <= window[p].start
              /\ window[p].start <= window[p].end + 1
              /\ window[p].end < End(p)
              /\ window[p].end - window[p].start
                   <= RecordsPerPartition(rd.limit, Cardinality(Partitions))
              /\ window[p].start <= next[p])'
  <2> DEFINE w == ReadingWindow(p)
             e == End(p)
  <2>1. /\ offsets[p].start = log[p].low
        /\ offsets[p].start <= offsets[p].end
        /\ offsets[p].start # offsets[p].end
        /\ offsets[p].end <= e
    BY <1>1, <1>4 DEF WindowInv, OffsetsInv, BoundedStart
  <2>2. /\ offsets[p] \in Offsets /\ offsets[p].start \in Int
        /\ offsets[p].end \in Int /\ rd.limit \in Nat \ {0}
        /\ log[p].low \in Nat /\ e \in Nat
    BY EndType, ReadDetailsAssumption DEF TypeOK, Offsets
  <2>3. 0 <= offsets[p].start /\ offsets[p].start < offsets[p].end
    BY <2>1, <2>2
  <2>4. w = DetermineReadingOffsets(rd.startPoint, rd.limit, Partitions, offsets[p])
    BY DEF ReadingWindow
  <2>5. /\ offsets[p].start <= w.start
        /\ w.start <= w.end + 1
        /\ w.end < offsets[p].end
        /\ w.end - w.start <= RecordsPerPartition(rd.limit, Cardinality(Partitions))
    BY <1>4, <2>2, <2>3, <2>4, WindowSound
  <2>6. w.start \in Int /\ w.end \in Int
    BY ReadingWindowType DEF Offsets
  <2>7. window'[p] = w /\ next'[p] = ConsumerStart(p, w)
    BY <1>1 DEF TypeOK
  <2> HIDE DEF w, e
  <2>8. w.end < e /\ log[p].low <= w.start /\ w.start # NoOffset
    BY <2>1, <2>2, <2>5, <2>6 DEF NoOffset
  <2>9. next'[p] = w.start
    BY <2>7, <2>8 DEF ConsumerStart
  <2>10. /\ log'[p].low <= window'[p].start
         /\ window'[p].start <= window'[p].end + 1
         /\ window'[p].end < e
         /\ window'[p].end - window'[p].start
              <= RecordsPerPartition(rd'.limit, Cardinality(Partitions))
         /\ window'[p].start <= next'[p]
    BY <1>1, <2>5, <2>6, <2>7, <2>8, <2>9
  <2>11. QED
    BY <1>1, <2>10 DEF End, e
<1>5. WindowInLog'
  BY <1>1, <1>3, <1>4 DEF WindowInLog, Active
<1>6. QED
  BY <1>2, <1>5 DEF WindowInv

\* Starting the goroutines: only partitions with data are connected to.
LEMMA StartKeepsWindow ==
  ASSUME TypeOK, WindowInv, StartPartitions
  PROVE  WindowInv'
<1> USE DEF brokerVars, fetchVars, mainVars, partVars, chanVars
<1>1. /\ UNCHANGED <<rd, log, offsets, fetch>>
      /\ \A q \in Partitions : fetch[q] = "done"
      /\ \A q \in Partitions :
           /\ reader'[q] \in {"connect", "off"}
           /\ reader'[q] = "connect" => HasData(q)
  BY DEF StartPartitions, FetchJoined, FetchFailed
<1>2. WindowInLog'
  BY <1>1 DEF WindowInLog
<1>3. OffsetsInv'
  BY <1>1 DEF WindowInv, OffsetsInv, End, BoundedStart, HasData
<1>4. QED
  BY <1>2, <1>3 DEF WindowInv

LEMMA NextWindow ==
  TypeOK /\ PhaseInv /\ WindowInv /\ [Next]_readerVars => WindowInv'
<1> SUFFICES ASSUME TypeOK, PhaseInv, WindowInv, [Next]_readerVars
             PROVE  WindowInv'
  OBVIOUS
<1> USE DEF brokerVars, fetchVars, mainVars, partVars, chanVars
<1>1. TypeOK'
  BY NextTypeOK
<1>2. ASSUME NEW p \in Partitions, Fetcher(p) PROVE WindowInv'
  BY <1>2, FetchKeepsWindow
<1>3. ASSUME NEW p \in Partitions, Connect(p) PROVE WindowInv'
  BY <1>3, ConnectKeepsWindow
<1>4. CASE StartPartitions
  BY <1>4, StartKeepsWindow
<1>5. ASSUME UNCHANGED <<offsets, fetch, window, next, reader>> PROVE WindowInv'
  <2>1. \A q \in Partitions : next[q] <= next'[q]
    BY <1>5 DEF TypeOK
  <2>2. QED
    BY <1>1, <1>5, <2>1, WindowKept
<1>6. CASE \/ ReportFetchError \/ FindNothing \/ ReportNoRecordsFound
           \/ ReportEmptyTopic \/ AwaitPartitions \/ Shutdown \/ CloseNext
           \/ Environment \/ UNCHANGED readerVars
  BY <1>5, <1>6 DEF ReportFetchError, FindNothing, ReportNoRecordsFound,
     ReportEmptyTopic, AwaitPartitions, Shutdown, CloseNext, Environment,
     TakeRecord, TakeSignal, Cancel, Produce, readerVars
<1>7. ASSUME NEW p \in Partitions,
             ConnectError(p) \/ StreamError(p) \/ SendError(p)
               \/ SendRecord(p) \/ ObserveCancel(p)
      PROVE  WindowInv'
  <2>1. UNCHANGED <<offsets, fetch, window, next>>
    BY <1>7 DEF ConnectError, StreamError, SendError, SendRecord, ObserveCancel
  <2>2. \A q \in Partitions :
          /\ reader'[q] = "connect" => reader[q] = "connect"
          /\ reader'[q] \in Active => reader[q] \in Active
    BY <1>7 DEF ConnectError, StreamError, SendError, SendRecord, AfterSend,
                ObserveCancel, Move, TypeOK, Active
  <2>3. \A q \in Partitions : next[q] <= next'[q]
    BY <2>1 DEF TypeOK
  <2>4. QED
    BY <1>1, <2>1, <2>2, <2>3, WindowKept
<1>8. ASSUME NEW p \in Partitions, RejectRecord(p) \/ AcceptRecord(p)
      PROVE  WindowInv'
  <2>1. UNCHANGED <<offsets, fetch, window>> /\ reader[p] = "read"
    BY <1>8 DEF RejectRecord, AcceptRecord
  <2>2. \A q \in Partitions :
          /\ reader'[q] = "connect" => reader[q] = "connect"
          /\ reader'[q] \in Active => reader[q] \in Active
    BY <1>8, <2>1 DEF RejectRecord, AcceptRecord, Move, TypeOK, Active
  <2>3. PICK o \in next[p] .. End(p) - 1 : next' = [next EXCEPT ![p] = o + 1]
    BY <1>8 DEF RejectRecord, AcceptRecord
  <2>4. \A q \in Partitions : next[q] <= next'[q]
    BY <2>3, EndType DEF TypeOK
  <2>5. QED
    BY <1>1, <2>1, <2>2, <2>4, WindowKept
<1>9. QED
  BY <1>2, <1>3, <1>4, <1>6, <1>7, <1>8
     DEF Next, Goroutines, Main, PartitionReader

\* A bounded read never asks a partition for offsets it does not have, nor for
\* more than one record over the partition's share of the limit.
THEOREM WindowsInLog == Spec => []WindowInLog
<1>1. WindowInv => WindowInLog
  BY DEF WindowInv
<1>2. QED
  BY InitTypeOK, NextTypeOK, InitPhase, NextPhase, InitWindow, NextWindow, <1>1,
     PTL DEF Spec

-----------------------------------------------------------------------------
(* No record of the window is passed over                                  *)

Matching(p, o) == HasRecord(p, o) /\ log[p].kinds[o + 1] = "match"

\* Every matching record of the window below n has been sent.
SentBelow(p, n) ==
  \A o \in window[p].start .. n - 1 : Matching(p, o) => o \in sent[p]

Reading == {"read", "send", "sendLast"}

\* Up to where a goroutine has dealt with what it was delivered: a record it
\* still holds is not dealt with.
Position(p) == IF reader[p] = "read" THEN next[p] ELSE Held(p)

\* A consumer that started at the newest offset is past the end of its window,
\* where nothing but a cancel or the limit ends it.
PastWindow(p) == /\ rd.startPoint \notin {"Beginning", "MostRecent"}
                 /\ window[p].end < Position(p)

ProgressOf(p) ==
  /\ next[p] <= End(p)
  /\ reader[p] = "connect" => fetch[p] = "done"
  /\ reader[p] \in Reading => SentBelow(p, Position(p)) \/ PastWindow(p)
  /\ reader[p] = "sendLast" => msgCount >= rd.limit
  /\ reader[p] = "done"
       => \/ cancelled \/ msgCount >= rd.limit
          \/ SentBelow(p, next[p]) /\ window[p].end < next[p]

ProgressInv == \A p \in Partitions : ProgressOf(p)

\* At the start nothing has been read of any log.
LEMMA InitProgress == Init => ProgressInv
<1> SUFFICES ASSUME Init, NEW p \in Partitions PROVE ProgressOf(p)
  BY DEF ProgressInv
<1>1. next[p] = 0 /\ reader[p] = "off" /\ End(p) \in Nat
  BY InitTypeOK, EndType DEF Init
<1>2. QED
  BY <1>1 DEF ProgressOf, Reading

\* The records there are do not change: a producer only adds at the end.
LEMMA RecordsStay ==
  ASSUME TypeOK, [Next]_readerVars, NEW q \in Partitions
  PROVE  \A o \in Int : o < End(q) => (Matching(q, o)' <=> Matching(q, o))
<1> USE DEF brokerVars, fetchVars, mainVars, partVars, chanVars
<1>1. CASE UNCHANGED log
  BY <1>1 DEF Matching, HasRecord, End
<1>2. ASSUME NEW p \in Partitions, NEW k \in Kinds, Produce(p, k)
      PROVE  \A o \in Int : o < End(q) => (Matching(q, o)' <=> Matching(q, o))
  <2>1. log[q] \in Log /\ log[q].kinds \in Seq(Kinds) /\ log[q].low \in Nat
    BY EndType DEF TypeOK
  <2>2. log' = [log EXCEPT ![p] = [log[p] EXCEPT !.kinds = Append(log[p].kinds, k)]]
    BY <1>2 DEF Produce
  <2>3. CASE p # q
    <3>1. log'[q] = log[q]
      BY <2>2, <2>3 DEF TypeOK
    <3>2. QED
      BY <3>1 DEF Matching, HasRecord, End
  <2>4. CASE p = q
    <3>1. log'[q] = [log[q] EXCEPT !.kinds = Append(log[q].kinds, k)]
      BY <2>2, <2>4 DEF TypeOK
    <3>2. log'[q].kinds = Append(log[q].kinds, k) /\ log'[q].low = log[q].low
      BY <2>1, <3>1 DEF Log
    <3> SUFFICES ASSUME NEW o \in Int, o < End(q)
                 PROVE  Matching(q, o)' <=> Matching(q, o)
      OBVIOUS
    <3> DEFINE s == log[q].kinds
               n == Len(s)
    <3>3. n \in Nat /\ End(q) = n /\ End(q)' = n + 1
      BY <2>1, <3>2 DEF End
    <3>4. CASE o < log[q].low
      <4>1. ~HasRecord(q, o) /\ ~HasRecord(q, o)'
        BY <2>1, <3>2, <3>3, <3>4 DEF HasRecord
      <4>2. QED
        BY <4>1 DEF Matching
    <3>5. CASE ~(o < log[q].low)
      <4>1. o + 1 \in 1 .. n
        BY <2>1, <3>3, <3>5
      <4>2. Append(s, k)[o + 1] = s[o + 1]
        BY <2>1, <4>1
      <4>3. /\ o \in log[q].low .. End(q) - 1
            /\ o \in log'[q].low .. End(q)' - 1
        BY <2>1, <3>2, <3>3, <3>5
      <4>4. QED
        BY <3>2, <4>2, <4>3 DEF Matching, HasRecord
    <3>6. QED
      BY <3>4, <3>5
  <2>5. QED
    BY <2>3, <2>4
<1>3. CASE Main \/ UNCHANGED readerVars
  BY <1>1, <1>3 DEF Main, ReportFetchError, FindNothing, ReportNoRecordsFound,
     StartPartitions, ReportEmptyTopic, AwaitPartitions, Shutdown, CloseNext,
     readerVars
<1>4. ASSUME NEW p \in Partitions, Fetcher(p)
      PROVE  UNCHANGED log
  BY <1>4 DEF Fetcher, FetchStart, FetchEnd, FetchError
<1>5. ASSUME NEW p \in Partitions, PartitionReader(p)
      PROVE  UNCHANGED log
  BY <1>5 DEF PartitionReader, Connect, ConnectError, StreamError, SendError,
     RejectRecord, AcceptRecord, SendRecord, ObserveCancel
<1>6. CASE TakeRecord \/ Cancel \/ \E c \in Signals : TakeSignal(c)
  BY <1>1, <1>6 DEF TakeRecord, Cancel, TakeSignal
<1>7. QED
  BY <1>1, <1>2, <1>3, <1>4, <1>5, <1>6 DEF Next, Goroutines, Environment

\* What was sent below a position stays so while only the log grows and more
\* is sent.
LEMMA SentStays ==
  ASSUME TypeOK, [Next]_readerVars, NEW q \in Partitions,
         window'[q] = window[q], sent[q] \subseteq sent'[q],
         NEW n \in Int, n <= End(q), SentBelow(q, n)
  PROVE  \A o \in window'[q].start .. n - 1 : Matching(q, o)' => o \in sent'[q]
<1>1. window[q].start \in Int /\ End(q) \in Nat
  BY EndType DEF TypeOK, Offsets
<1> SUFFICES ASSUME NEW o \in window[q].start .. n - 1, Matching(q, o)'
             PROVE  o \in sent[q]
  OBVIOUS
<1>2. o \in Int /\ o < End(q)
  BY <1>1
<1>3. QED
  BY <1>2, RecordsStay DEF SentBelow

\* A goroutine that does not move keeps its progress: the log, the counter and
\* the set of what was sent only grow, a cancel and a fetched offset stay.
LEMMA ProgressKept ==
  ASSUME TypeOK, TypeOK', [Next]_readerVars, NEW q \in Partitions, ProgressOf(q),
         reader'[q] = reader[q], window'[q] = window[q], next'[q] = next[q],
         sent'[q] = sent[q], msgCount <= msgCount', cancelled => cancelled',
         fetch[q] = "done" => fetch'[q] = "done"
  PROVE  ProgressOf(q)'
<1>1. /\ End(q) \in Nat /\ End(q)' \in Nat /\ End(q) <= End(q)' /\ rd' = rd
      /\ next[q] \in Int /\ msgCount \in Nat /\ msgCount' \in Nat
      /\ rd.limit \in Nat
  <2>1. rd.limit \in Nat
    BY ReadDetailsAssumption DEF TypeOK
  <2>2. log'[q].kinds \in Seq(Kinds)
    BY DEF TypeOK, Log
  <2>3. End(q)' \in Nat
    BY <2>2 DEF End
  <2>4. QED
    BY <2>1, <2>3, EndType, LogGrows DEF TypeOK
<1> DEFINE e == End(q)
           f == End(q)'
<1>2. e \in Nat /\ f \in Nat /\ e <= f /\ next[q] <= e
  BY <1>1 DEF ProgressOf
<1> HIDE DEF e, f
<1>3. next'[q] <= f
  BY <1>1, <1>2
<1>4. Position(q)' = Position(q) /\ Position(q) \in Int /\ Position(q) <= e
  BY <1>1, <1>2 DEF Position, Held
<1>5. ASSUME NEW n \in Int, n <= e, SentBelow(q, n)
      PROVE  \A o \in window'[q].start .. n - 1 : Matching(q, o)' => o \in sent'[q]
  BY <1>5, SentStays DEF e
<1>6. SentBelow(q, Position(q)) => SentBelow(q, Position(q))'
  BY <1>4, <1>5 DEF SentBelow
<1>7. SentBelow(q, next[q]) => SentBelow(q, next[q])'
  BY <1>1, <1>2, <1>5 DEF SentBelow
<1>8. PastWindow(q) => PastWindow(q)'
  BY <1>1, <1>4 DEF PastWindow
<1>9. msgCount >= rd.limit => msgCount' >= rd'.limit
  BY <1>1
<1>10. QED
  BY <1>3, <1>6, <1>7, <1>8, <1>9 DEF ProgressOf, f

\* A step of one goroutine keeps the progress of every other.
LEMMA OthersProgress ==
  ASSUME TypeOK, TypeOK', [Next]_readerVars, ProgressInv,
         NEW p \in Partitions, PartitionReader(p), NEW q \in Partitions, q # p
  PROVE  ProgressOf(q)'
<1> USE DEF brokerVars, fetchVars, mainVars, partVars, chanVars
<1>1. msgCount \in Nat
  BY DEF TypeOK
<1>2. /\ reader'[q] = reader[q] /\ window'[q] = window[q]
      /\ next'[q] = next[q] /\ sent'[q] = sent[q]
      /\ (cancelled => cancelled') /\ fetch' = fetch
      /\ (msgCount' = msgCount \/ msgCount' = msgCount + 1)
  BY DEF PartitionReader, Connect, ConnectError, StreamError, SendError,
     RejectRecord, AcceptRecord, SendRecord, ObserveCancel, Move, TypeOK
<1>3. msgCount <= msgCount'
  BY <1>1, <1>2
<1>4. QED
  BY <1>2, <1>3, ProgressKept DEF ProgressInv

\* A consumer starts at the first offset of its window, or, where the period
\* asked for holds nothing yet, past its end.
LEMMA ConnectProgress ==
  ASSUME TypeOK, TypeOK', WindowInv, NEW p \in Partitions, ProgressOf(p), Connect(p)
  PROVE  ProgressOf(p)'
<1> USE DEF brokerVars, fetchVars, mainVars, partVars, chanVars
<1> DEFINE w == ReadingWindow(p)
           e == End(p)
<1>1. /\ UNCHANGED <<rd, log, fetch, sent>> /\ reader[p] = "connect"
      /\ reader'[p] = "read" /\ window'[p] = w /\ next'[p] = ConsumerStart(p, w)
      /\ InRange(p, w)
  BY DEF Connect, Move, TypeOK
<1>2. /\ e \in Nat /\ End(p)' = e /\ w.start \in Int /\ w.end \in Int
      /\ log[p].low \in Nat /\ offsets[p].end \in Int
      /\ rd.startPoint \in StartPoints
  BY <1>1, EndType, ReadingWindowType, ReadDetailsAssumption
     DEF TypeOK, Offsets, End
<1>3. fetch[p] = "done" /\ offsets[p].end <= e
  BY <1>1 DEF ProgressOf, WindowInv, OffsetsInv
<1>4. w = DetermineReadingOffsets(rd.startPoint, rd.limit, Partitions, offsets[p])
  BY DEF ReadingWindow
<1>5. rd.startPoint \in {"Beginning", "MostRecent"} => w.start # NoOffset
  <2> SUFFICES ASSUME rd.startPoint \in {"Beginning", "MostRecent"}
               PROVE  w.start # NoOffset
    OBVIOUS
  <2>1. WindowInLog'
    BY ConnectKeepsWindow DEF WindowInv
  <2>2. log'[p].low <= window'[p].start
    BY <1>1, <2>1 DEF WindowInLog
  <2>3. QED
    BY <1>1, <1>2, <2>2 DEF NoOffset
<1>6. rd.startPoint = "Live" => w.end = -1
  BY <1>4 DEF DetermineReadingOffsets
<1>7. rd.startPoint = "Since" => w.end = offsets[p].end - 1
  BY <1>4 DEF DetermineReadingOffsets, FromMostRecent, Newest
<1> HIDE DEF w, e
<1>8. next'[p] <= e
  BY <1>1, <1>2 DEF InRange, e
<1>9. CASE w.start # NoOffset
  <2>1. next'[p] = w.start
    BY <1>1, <1>9 DEF ConsumerStart
  <2>2. SentBelow(p, next[p])'
    BY <1>1, <1>2, <2>1 DEF SentBelow
  <2>3. QED
    BY <1>1, <1>2, <1>8, <2>2 DEF ProgressOf, Position
<1>10. CASE w.start = NoOffset
  <2>1. next'[p] = e
    BY <1>1, <1>10 DEF ConsumerStart, e
  <2>2. rd.startPoint \in {"Since", "Live"}
    BY <1>2, <1>5, <1>10 DEF StartPoints
  <2>3. w.end < e
    BY <1>2, <1>3, <1>6, <1>7, <2>2
  <2>4. PastWindow(p)'
    BY <1>1, <2>1, <2>2, <2>3 DEF PastWindow, Position
  <2>5. QED
    BY <1>1, <1>2, <1>8, <2>4 DEF ProgressOf
<1>11. QED
  BY <1>9, <1>10

\* A consumer delivers the records there are in order: none lies between the
\* position and what it delivers next.
LEMMA NothingBetween ==
  ASSUME TypeOK, NEW p \in Partitions, NEW o \in next[p] .. End(p) - 1,
         IsNextRecord(p, o)
  PROVE  \A x \in next[p] .. o - 1 : ~Matching(p, x)
<1>1. next[p] \in Int /\ End(p) \in Nat /\ o \in Int
  BY EndType DEF TypeOK
<1> SUFFICES ASSUME NEW x \in next[p] .. o - 1, HasRecord(p, x) PROVE FALSE
  BY DEF Matching
<1>2. x \in {y \in next[p] .. End(p) - 1 : HasRecord(p, y)}
  BY <1>1
<1>3. o <= x
  BY <1>2 DEF IsNextRecord, IsFirst
<1>4. QED
  BY <1>1, <1>3

\* A delivered record moves the consumer past it; if it is rejected, it is
\* dealt with, if it is accepted, the goroutine holds it.
LEMMA DeliveryProgress ==
  ASSUME TypeOK, TypeOK', NEW p \in Partitions, ProgressOf(p),
         RejectRecord(p) \/ AcceptRecord(p)
  PROVE  ProgressOf(p)'
<1> USE DEF brokerVars, fetchVars, mainVars, partVars, chanVars
<1> DEFINE e == End(p)
<1>1. /\ UNCHANGED <<rd, log, fetch, sent, window>> /\ reader[p] = "read"
      /\ \A x \in Int : Matching(p, x)' <=> Matching(p, x)
  BY DEF RejectRecord, AcceptRecord, Matching, HasRecord, End
<1>2. PICK o \in next[p] .. e - 1 :
        /\ IsNextRecord(p, o)
        /\ log[p].kinds[o + 1] = (IF AcceptRecord(p) THEN "match" ELSE "skip")
        /\ next' = [next EXCEPT ![p] = o + 1]
        /\ ~AcceptRecord(p)
             => Move(p, IF rd.startPoint = "MostRecent" /\ o >= window[p].end
                        THEN "done" ELSE "read")
  BY DEF RejectRecord, AcceptRecord
<1>3. /\ next[p] \in Int /\ e \in Nat /\ o \in Int /\ o < e /\ next[p] <= o
      /\ window[p].start \in Int /\ window[p].end \in Int
      /\ msgCount \in Nat /\ rd.limit \in Nat
  <2>1. next[p] \in Int /\ e \in Nat
    BY EndType DEF TypeOK
  <2>2. window[p].start \in Int /\ window[p].end \in Int /\ msgCount \in Nat
    BY DEF TypeOK, Offsets
  <2>3. rd.limit \in Nat
    BY ReadDetailsAssumption DEF TypeOK
  <2> HIDE DEF e
  <2>4. QED
    BY <2>1, <2>2, <2>3
<1>4. next'[p] = o + 1 /\ End(p)' = e
  BY <1>1, <1>2 DEF End, TypeOK
<1>5. SentBelow(p, next[p]) \/ PastWindow(p)
  BY <1>1 DEF ProgressOf, Reading, Position
<1>6. \A x \in next[p] .. o - 1 : ~Matching(p, x)
  BY <1>2, NothingBetween
<1> HIDE DEF e
<1>7. next'[p] <= End(p)'
  BY <1>3, <1>4
<1>8. SentBelow(p, next[p]) => SentBelow(p, o)'
  BY <1>1, <1>3, <1>6 DEF SentBelow
<1>9. CASE AcceptRecord(p)
  <2>1. /\ reader'[p] = IF msgCount + 1 >= rd.limit THEN "sendLast" ELSE "send"
        /\ msgCount' = msgCount + 1
    BY <1>9 DEF AcceptRecord, Move, TypeOK
  <2>2. Position(p)' = o
    BY <1>3, <1>4, <2>1 DEF Position, Held
  <2>3. PastWindow(p) => PastWindow(p)'
    BY <1>1, <1>3, <2>2 DEF PastWindow, Position
  <2>4. SentBelow(p, next[p]) => SentBelow(p, Position(p))'
    BY <1>8, <2>2 DEF SentBelow
  <2>5. reader'[p] = "sendLast" => msgCount' >= rd'.limit
    BY <1>1, <2>1
  <2>6. QED
    BY <1>5, <1>7, <2>1, <2>3, <2>4, <2>5 DEF ProgressOf
<1>10. CASE ~AcceptRecord(p)
  <2>1. reader'[p] = IF rd.startPoint = "MostRecent" /\ o >= window[p].end
                     THEN "done" ELSE "read"
    BY <1>2, <1>10 DEF Move, TypeOK
  <2>2. ~Matching(p, o)'
    BY <1>1, <1>2, <1>3, <1>10 DEF Matching
  <2>3. SentBelow(p, next[p]) => SentBelow(p, next[p])'
    BY <1>3, <1>4, <1>8, <2>2 DEF SentBelow
  <2>4. CASE reader'[p] = "read"
    <3>1. Position(p)' = next'[p] /\ Position(p) = next[p]
      BY <1>1, <2>4 DEF Position
    <3>2. PastWindow(p) => PastWindow(p)'
      BY <1>1, <1>3, <1>4, <3>1 DEF PastWindow
    <3>3. SentBelow(p, next[p]) => SentBelow(p, Position(p))'
      BY <2>3, <3>1 DEF SentBelow
    <3>4. QED
      BY <1>5, <1>7, <2>4, <3>2, <3>3 DEF ProgressOf
  <2>5. CASE reader'[p] = "done"
    <3>1. rd.startPoint = "MostRecent" /\ o >= window[p].end
      BY <2>1, <2>5
    <3>2. SentBelow(p, next[p])
      BY <1>5, <3>1 DEF PastWindow
    <3>3. window'[p].end < next'[p]
      BY <1>1, <1>3, <1>4, <3>1
    <3>4. QED
      BY <1>7, <2>3, <2>5, <3>2, <3>3 DEF ProgressOf, Reading
  <2>6. QED
    BY <2>1, <2>4, <2>5
<1>11. QED
  BY <1>9, <1>10

\* The record that is sent was the one held: everything below the next offset
\* is dealt with. Only then may a goroutine that reached the end stop.
LEMMA SendProgress ==
  ASSUME TypeOK, TypeOK', NEW p \in Partitions, ProgressOf(p), SendRecord(p)
  PROVE  ProgressOf(p)'
<1> USE DEF brokerVars, fetchVars, mainVars, partVars, chanVars
<1>1. /\ UNCHANGED <<rd, log, fetch, window, next, msgCount, cancelled>>
      /\ reader[p] \in {"send", "sendLast"}
      /\ reader'[p] = AfterSend(p) /\ sent'[p] = sent[p] \union {Held(p)}
      /\ End(p)' = End(p)
      /\ \A x \in Int : Matching(p, x)' <=> Matching(p, x)
  BY DEF SendRecord, Move, TypeOK, Matching, HasRecord, End
<1>2. /\ next[p] \in Int /\ window[p].start \in Int /\ window[p].end \in Int
      /\ Held(p) = next[p] - 1
  BY DEF TypeOK, Offsets, Held
<1>3. Position(p) = Held(p)
  BY <1>1 DEF Position
<1>4. SentBelow(p, Held(p)) \/ PastWindow(p)
  BY <1>1, <1>3 DEF ProgressOf, Reading
<1>5. SentBelow(p, Held(p)) => SentBelow(p, next[p])'
  BY <1>1, <1>2 DEF SentBelow
<1>6. next'[p] <= End(p)'
  BY <1>1 DEF ProgressOf
<1>7. CASE reader'[p] = "read"
  <2>1. PastWindow(p) => PastWindow(p)'
    BY <1>1, <1>2, <1>3, <1>7 DEF PastWindow, Position
  <2>2. SentBelow(p, next[p])' => SentBelow(p, Position(p))'
    BY <1>7 DEF SentBelow, Position
  <2>3. QED
    BY <1>4, <1>5, <1>6, <1>7, <2>1, <2>2 DEF ProgressOf
<1>8. CASE reader'[p] = "done"
  <2>1. reader[p] = "sendLast" \/ Held(p) = window[p].end
    BY <1>1, <1>8 DEF AfterSend
  <2>2. reader[p] = "sendLast" => msgCount' >= rd'.limit
    BY <1>1 DEF ProgressOf
  <2>3. Held(p) = window[p].end => ~PastWindow(p) /\ window'[p].end < next'[p]
    BY <1>1, <1>2, <1>3 DEF PastWindow
  <2>4. QED
    BY <1>4, <1>5, <1>6, <1>8, <2>1, <2>2, <2>3 DEF ProgressOf, Reading
<1>9. QED
  BY <1>1, <1>7, <1>8 DEF AfterSend

\* A goroutine that fails or sees the cancel has no progress to keep.
LEMMA StopProgress ==
  ASSUME TypeOK, TypeOK', NEW p \in Partitions, ProgressOf(p),
         ConnectError(p) \/ StreamError(p) \/ SendError(p) \/ ObserveCancel(p)
  PROVE  ProgressOf(p)'
<1> USE DEF brokerVars, fetchVars, mainVars, partVars, chanVars
<1>1. /\ UNCHANGED <<log, next>>
      /\ \/ reader'[p] \in {"connectErr", "streamErr", "failed"}
         \/ reader'[p] = "done" /\ cancelled'
  BY DEF ConnectError, StreamError, SendError, ObserveCancel, Move, TypeOK
<1>2. next'[p] <= End(p)'
  BY <1>1 DEF ProgressOf, End
<1>3. QED
  BY <1>1, <1>2 DEF ProgressOf, Reading

\* Every step keeps the progress of every goroutine.
LEMMA NextProgress ==
  TypeOK /\ TypeOK' /\ PhaseInv /\ WindowInv /\ ProgressInv /\ [Next]_readerVars
    => ProgressInv'
<1> SUFFICES ASSUME TypeOK, TypeOK', PhaseInv, WindowInv, ProgressInv,
                    [Next]_readerVars, NEW q \in Partitions
             PROVE  ProgressOf(q)'
  BY DEF ProgressInv
<1> USE DEF brokerVars, fetchVars, mainVars, partVars, chanVars
<1>1. ProgressOf(q) /\ msgCount \in Nat
  BY DEF ProgressInv, TypeOK
<1>2. ASSUME NEW p \in Partitions, PartitionReader(p) PROVE ProgressOf(q)'
  <2>1. CASE q # p
    BY <1>2, <2>1, OthersProgress
  <2>2. CASE q = p
    BY <1>1, <1>2, <2>2, ConnectProgress, DeliveryProgress, SendProgress,
       StopProgress DEF PartitionReader
  <2>3. QED
    BY <2>1, <2>2
<1>3. ASSUME NEW p \in Partitions, Fetcher(p) PROVE ProgressOf(q)'
  <2>1. /\ UNCHANGED <<reader, window, next, sent, msgCount, cancelled>>
        /\ fetch[p] \in {"start", "end"}
        /\ \A x \in Partitions : x # p => fetch'[x] = fetch[x]
    BY <1>3 DEF Fetcher, FetchStart, FetchEnd, FetchError, TypeOK
  <2>2. fetch[q] = "done" => fetch'[q] = "done"
    BY <2>1
  <2>3. msgCount <= msgCount'
    BY <1>1, <2>1
  <2>4. QED
    BY <1>1, <2>1, <2>2, <2>3, ProgressKept
<1>4. CASE StartPartitions
  <2>1. /\ UNCHANGED <<log, next>> /\ fetch'[q] = "done"
        /\ reader'[q] \in {"connect", "off"}
    BY <1>4 DEF StartPartitions, FetchJoined, FetchFailed
  <2>2. next'[q] <= End(q)'
    BY <1>1, <2>1 DEF ProgressOf, End
  <2>3. QED
    BY <2>1, <2>2 DEF ProgressOf, Reading
<1>5. CASE \/ ReportFetchError \/ FindNothing \/ ReportNoRecordsFound
           \/ ReportEmptyTopic \/ AwaitPartitions \/ Shutdown \/ CloseNext
           \/ Environment \/ UNCHANGED readerVars
  <2>1. /\ UNCHANGED <<reader, window, next, sent, msgCount, fetch>>
        /\ cancelled => cancelled'
    BY <1>5 DEF ReportFetchError, FindNothing, ReportNoRecordsFound,
       ReportEmptyTopic, AwaitPartitions, Shutdown, CloseNext, Environment,
       TakeRecord, TakeSignal, Cancel, Produce, readerVars
  <2>2. msgCount <= msgCount'
    BY <1>1, <2>1
  <2>3. QED
    BY <1>1, <2>1, <2>2, ProgressKept
<1>6. QED
  BY <1>2, <1>3, <1>4, <1>5 DEF Next, Goroutines, Main

\* A partition goroutine that returned on its own, neither cancelled nor stopped
\* by the limit, has sent every record of its window that passes the filter.
THEOREM WindowsComplete == Spec => []WindowComplete
<1>1. TypeOK /\ ProgressInv => WindowComplete
  <2> SUFFICES ASSUME TypeOK, ProgressInv, NEW p \in Partitions,
                      reader[p] = "done", ~cancelled, msgCount < rd.limit,
                      NEW o \in window[p].start .. window[p].end,
                      Matching(p, o)
               PROVE  o \in sent[p]
    BY DEF WindowComplete, Matching
  <2>1. /\ window[p].start \in Int /\ window[p].end \in Int /\ next[p] \in Int
        /\ msgCount \in Nat /\ rd.limit \in Nat
    BY ReadDetailsAssumption DEF TypeOK, Offsets
  <2>2. SentBelow(p, next[p]) /\ window[p].end < next[p]
    BY <2>1 DEF ProgressInv, ProgressOf
  <2>3. o \in window[p].start .. next[p] - 1
    BY <2>1, <2>2
  <2>4. QED
    BY <2>2, <2>3 DEF SentBelow
<1>2. QED
  BY InitTypeOK, NextTypeOK, InitPhase, NextPhase, InitWindow, NextWindow,
     InitProgress, NextProgress, <1>1, PTL DEF Spec
=============================================================================
