---------------------------- MODULE RecordReader ----------------------------
(***************************************************************************)
(* SaramaKafkaAdmin.ReadRecords (kadmin/record_reader.go): the goroutines  *)
(* of one read and the four channels they share with whoever awaits them.  *)
(*                                                                         *)
(*   main       doReadRecords, then the goroutine that waits for the       *)
(*              partition goroutines and shuts the channels down           *)
(*   fetchers   one goroutine per partition asking the broker for offsets  *)
(*   partitions one goroutine per partition with data, reading, filtering, *)
(*              counting and sending records                               *)
(*   awaiter    the environment: takes from the channels, may cancel       *)
(*   producers  the environment: append to the partitions meanwhile        *)
(***************************************************************************)
EXTENDS Integers, Sequences, FiniteSets, ReadingOffsets

CONSTANTS
  Partitions,   \* rd.PartitionToRead
  ReadDetails,  \* the requests a read may start with
  Logs,         \* what a partition may hold when the read starts
  Faulty,       \* the partitions whose broker may answer with an error
  MaxOffset     \* bound: producers stop when a log is this long

\* One log entry per offset: a record the filter lets through (or whose
\* payload cannot be decoded, which skips the filter), one it rejects, or an
\* offset never delivered (compacted away, a transaction marker).
Kinds == {"match", "skip", "gap"}

\* low: the oldest offset retained; since: the first offset of the period an
\* instant start point asks for.
Log == [low : Nat, since : Nat, kinds : Seq(Kinds)]

ASSUME PartitionsAssumption == IsFiniteSet(Partitions) /\ Partitions # {}
ASSUME ReadDetailsAssumption ==
         ReadDetails \subseteq [startPoint : StartPoints, limit : Nat \ {0}]
ASSUME LogsAssumption ==
         Logs \subseteq {l \in Log : l.low <= l.since /\ l.since <= Len(l.kinds)}
ASSUME FaultyAssumption == Faulty \subseteq Partitions

VARIABLES
  rd,         \* the request
  log,        \* the broker's partitions
  fetch,      \* where each fetchOffsets goroutine is
  offsets,    \* offsetsByPartition
  main,       \* where doReadRecords, then its closer goroutine, is
  toClose,    \* the channels main still has to close, in order
  reader,     \* where each partition goroutine is
  window,     \* readingOffsets of each partition goroutine
  next,       \* the next offset each partition consumer may deliver
  msgCount,   \* the atomic record counter
  records,    \* channel ConsumerRecord, capacity |Partitions|
  full,       \* which of the one-place channels Err, EmptyTopic,
              \* NoRecordsFound hold a value
  closed,     \* the closed channels
  cancelled,  \* ctx is done
  sent        \* history: the offsets sent per partition

brokerVars == <<rd, log>>
fetchVars  == <<fetch, offsets>>
mainVars   == <<main, toClose>>
partVars   == <<reader, window, next, msgCount, sent>>
chanVars   == <<records, full, closed>>
readerVars == <<brokerVars, fetchVars, mainVars, partVars, chanVars, cancelled>>

Signals  == {"err", "empty", "none"}
Channels == Signals \union {"records"}

\* The order in which shutdown closes the channels, and the order of the
\* path taken when the offsets cannot be fetched.
ShutdownOrder   == <<"records", "err", "empty", "none">>
FetchErrorOrder == <<"records", "err">>

Exited == {"off", "done", "failed"}

-----------------------------------------------------------------------------
(* The broker's answers.                                                   *)

End(p) == Len(log[p].kinds)

HasRecord(p, o) == /\ o \in log[p].low .. End(p) - 1
                   /\ log[p].kinds[o + 1] # "gap"

IsFirst(o, S) == o \in S /\ \A x \in S : o <= x

\* The answer to GetOffset with StartPoint.time(): the oldest offset, or the
\* first record since the instant, -1 when there is none.
IsStartOffset(p, o) ==
  LET hits == {x \in log[p].since .. End(p) - 1 : HasRecord(p, x)}
  IN  IF rd.startPoint # "Since" THEN o = log[p].low
      ELSE IF hits = {} THEN o = NoOffset
      ELSE IsFirst(o, hits)

\* What a partition consumer delivers next.
IsNextRecord(p, o) == IsFirst(o, {x \in next[p] .. End(p) - 1 : HasRecord(p, x)})

Init ==
  /\ rd \in ReadDetails
  /\ log \in [Partitions -> Logs]
  /\ fetch = [p \in Partitions |-> "start"]
  /\ offsets = [p \in Partitions |-> [start |-> 0, end |-> 0]]
  /\ main = "fetching"
  /\ toClose = <<>>
  /\ reader = [p \in Partitions |-> "off"]
  /\ window = [p \in Partitions |-> [start |-> 0, end |-> 0]]
  /\ next = [p \in Partitions |-> 0]
  /\ msgCount = 0
  /\ records = <<>>
  /\ full = {}
  /\ closed = {}
  /\ cancelled = FALSE
  /\ sent = [p \in Partitions |-> {}]

-----------------------------------------------------------------------------
(* fetchOffsets                                                            *)

FetchStart(p) ==
  /\ fetch[p] = "start"
  /\ \E o \in NoOffset .. End(p) :
       /\ IsStartOffset(p, o)
       /\ offsets' = [offsets EXCEPT ![p].start = o]
  /\ fetch' = [fetch EXCEPT ![p] = "end"]
  /\ UNCHANGED <<brokerVars, mainVars, partVars, chanVars, cancelled>>

FetchEnd(p) ==
  /\ fetch[p] = "end"
  /\ offsets' = [offsets EXCEPT ![p].end = End(p)]
  /\ fetch' = [fetch EXCEPT ![p] = "done"]
  /\ UNCHANGED <<brokerVars, mainVars, partVars, chanVars, cancelled>>

FetchError(p) ==
  /\ p \in Faulty
  /\ fetch[p] \in {"start", "end"}
  /\ fetch' = [fetch EXCEPT ![p] = "failed"]
  /\ UNCHANGED <<brokerVars, offsets, mainVars, partVars, chanVars, cancelled>>

-----------------------------------------------------------------------------
(* doReadRecords                                                           *)

FetchJoined == /\ main = "fetching"
               /\ \A p \in Partitions : fetch[p] \in {"done", "failed"}

FetchFailed == \E p \in Partitions : fetch[p] = "failed"

HasData(p) == \/ offsets[p].end # offsets[p].start
              \/ rd.startPoint = "Live"

\* fetchOffsets returned an error: report it and close two channels. The
\* code does not return here.
ReportFetchError ==
  /\ FetchJoined
  /\ FetchFailed
  /\ full' = full \union {"err"}
  /\ main' = "closing"
  /\ toClose' = FetchErrorOrder
  /\ UNCHANGED <<brokerVars, fetchVars, partVars, records, closed, cancelled>>

\* The offsets are there but none of them is in the requested period.
FindNothing ==
  /\ FetchJoined
  /\ ~FetchFailed
  /\ NoRecordsFound(offsets)
  /\ main' = "notFound"
  /\ UNCHANGED <<brokerVars, fetchVars, toClose, partVars, chanVars, cancelled>>

\* A bug: nobody is told.
ReturnSilently ==
  /\ main = "notFound"
  /\ cancelled' = TRUE
  /\ main' = "returned"
  /\ UNCHANGED <<brokerVars, fetchVars, toClose, partVars, chanVars>>

\* cancelFunc(), NoRecordsFound <- true, return. Also reached after a fetch
\* error, where the nil map of offsets holds no record either.
ReportNoRecordsFound ==
  /\ main = "notFound"
  /\ "none" \notin full
  /\ full' = full \union {"none"}
  /\ cancelled' = TRUE
  /\ main' = "returned"
  /\ UNCHANGED <<brokerVars, fetchVars, toClose, partVars, records, closed>>

\* A bug: emptyTopic is never reset.
StartAndReportEmpty ==
  /\ FetchJoined
  /\ ~FetchFailed
  /\ ~NoRecordsFound(offsets)
  /\ reader' = [p \in Partitions |-> IF HasData(p) THEN "connect" ELSE "off"]
  /\ main' = "emptyTopic"
  /\ UNCHANGED <<brokerVars, fetchVars, toClose, window, next, msgCount, sent,
                 chanVars, cancelled>>

\* Starts a goroutine for every partition that has data.
StartPartitions ==
  /\ FetchJoined
  /\ ~FetchFailed
  /\ ~NoRecordsFound(offsets)
  /\ reader' = [p \in Partitions |-> IF HasData(p) THEN "connect" ELSE "off"]
  /\ main' = IF \E p \in Partitions : HasData(p) THEN "waiting" ELSE "emptyTopic"
  /\ UNCHANGED <<brokerVars, fetchVars, toClose, window, next, msgCount, sent,
                 chanVars, cancelled>>

ReportEmptyTopic ==
  /\ main = "emptyTopic"
  /\ "empty" \notin full
  /\ full' = full \union {"empty"}
  /\ main' = "waiting"
  /\ UNCHANGED <<brokerVars, fetchVars, toClose, partVars, records, closed,
                 cancelled>>

\* A bug: the shutdown does not wait for the goroutines.
AwaitNobody ==
  /\ main = "waiting"
  /\ main' = "sleeping"
  /\ UNCHANGED <<brokerVars, fetchVars, toClose, partVars, chanVars, cancelled>>

\* wg.Wait() of the closer goroutine, which then sleeps.
AwaitPartitions ==
  /\ main = "waiting"
  /\ \A p \in Partitions : reader[p] \in Exited
  /\ main' = "sleeping"
  /\ UNCHANGED <<brokerVars, fetchVars, toClose, partVars, chanVars, cancelled>>

\* The sleep is over: shutdown cancels, then closes the channels.
Shutdown ==
  /\ main = "sleeping"
  /\ cancelled' = TRUE
  /\ main' = "closing"
  /\ toClose' = ShutdownOrder
  /\ UNCHANGED <<brokerVars, fetchVars, partVars, chanVars>>

CloseNext ==
  /\ main = "closing"
  /\ toClose # <<>>
  /\ closed' = closed \union {Head(toClose)}
  /\ toClose' = Tail(toClose)
  /\ main' = IF Tail(toClose) # <<>> THEN "closing"
             ELSE IF FetchFailed THEN "notFound"
             ELSE "returned"
  /\ UNCHANGED <<brokerVars, fetchVars, partVars, records, full, cancelled>>

-----------------------------------------------------------------------------
(* A partition goroutine                                                   *)

Move(p, pc) == reader' = [reader EXCEPT ![p] = pc]

\* Where ConsumePartition starts: -1 is sarama.OffsetNewest.
ConsumerStart(p, w) == IF w.start = NoOffset THEN End(p) ELSE w.start

InRange(p, w) == ConsumerStart(p, w) \in log[p].low .. End(p)

ReadingWindow(p) ==
  DetermineReadingOffsets(rd.startPoint, rd.limit, Partitions, offsets[p])

Connect(p) ==
  /\ reader[p] = "connect"
  /\ InRange(p, ReadingWindow(p))
  /\ window' = [window EXCEPT ![p] = ReadingWindow(p)]
  /\ next' = [next EXCEPT ![p] = ConsumerStart(p, ReadingWindow(p))]
  /\ Move(p, "read")
  /\ UNCHANGED <<brokerVars, fetchVars, mainVars, msgCount, sent, chanVars,
                 cancelled>>

ConnectError(p) ==
  /\ reader[p] = "connect"
  /\ p \in Faulty \/ ~InRange(p, ReadingWindow(p))
  /\ Move(p, "connectErr")
  /\ UNCHANGED <<brokerVars, fetchVars, mainVars, window, next, msgCount, sent,
                 chanVars, cancelled>>

\* consumer.Errors() delivers.
StreamError(p) ==
  /\ p \in Faulty
  /\ reader[p] = "read"
  /\ Move(p, "streamErr")
  /\ UNCHANGED <<brokerVars, fetchVars, mainVars, window, next, msgCount, sent,
                 chanVars, cancelled>>

\* startedMsg.Err <- err: waits while the one place is taken. Only a failed
\* ConsumePartition cancels the other goroutines.
SendError(p) ==
  /\ reader[p] \in {"connectErr", "streamErr"}
  /\ "err" \notin full
  /\ full' = full \union {"err"}
  /\ cancelled' = (cancelled \/ reader[p] = "connectErr")
  /\ Move(p, "failed")
  /\ UNCHANGED <<brokerVars, fetchVars, mainVars, window, next, msgCount, sent,
                 records, closed>>

\* Bugs: a rejected record ends a most recent read wherever it is; or never.
RejectWith(p, step) ==
  /\ reader[p] = "read"
  /\ \E o \in next[p] .. End(p) - 1 :
       /\ IsNextRecord(p, o)
       /\ log[p].kinds[o + 1] = "skip"
       /\ next' = [next EXCEPT ![p] = o + 1]
       /\ Move(p, step)
  /\ UNCHANGED <<brokerVars, fetchVars, mainVars, window, msgCount, sent,
                 chanVars, cancelled>>

RejectAndStop(p) == RejectWith(p, IF rd.startPoint = "MostRecent" THEN "done" ELSE "read")
RejectAndContinue(p) == RejectWith(p, "read")

\* A record the filter rejects; MostRecent ends on one at or past the end.
RejectRecord(p) ==
  /\ reader[p] = "read"
  /\ \E o \in next[p] .. End(p) - 1 :
       /\ IsNextRecord(p, o)
       /\ log[p].kinds[o + 1] = "skip"
       /\ next' = [next EXCEPT ![p] = o + 1]
       /\ Move(p, IF rd.startPoint = "MostRecent" /\ o >= window[p].end
                  THEN "done" ELSE "read")
  /\ UNCHANGED <<brokerVars, fetchVars, mainVars, window, msgCount, sent,
                 chanVars, cancelled>>

\* A record to send: msgCount.Add(1) decides whether it is the last one.
AcceptRecord(p) ==
  /\ reader[p] = "read"
  /\ \E o \in next[p] .. End(p) - 1 :
       /\ IsNextRecord(p, o)
       /\ log[p].kinds[o + 1] = "match"
       /\ next' = [next EXCEPT ![p] = o + 1]
  /\ msgCount' = msgCount + 1
  /\ Move(p, IF msgCount + 1 >= rd.limit THEN "sendLast" ELSE "send")
  /\ UNCHANGED <<brokerVars, fetchVars, mainVars, window, sent, chanVars,
                 cancelled>>

\* The offset of the record the goroutine holds.
Held(p) == next[p] - 1

\* A bug: the limit does not end the goroutine.
AfterSendReadOn(p) ==
  IF Held(p) = window[p].end /\ rd.startPoint # "Live" THEN "done" ELSE "read"

AfterSend(p) ==
  IF \/ reader[p] = "sendLast"
     \/ Held(p) = window[p].end /\ rd.startPoint # "Live"
  THEN "done" ELSE "read"

SendRecord(p) ==
  /\ reader[p] \in {"send", "sendLast"}
  /\ Len(records) < Cardinality(Partitions)
  /\ records' = Append(records, [partition |-> p, offset |-> Held(p)])
  /\ sent' = [sent EXCEPT ![p] = @ \union {Held(p)}]
  /\ Move(p, AfterSend(p))
  /\ UNCHANGED <<brokerVars, fetchVars, mainVars, window, next, msgCount, full,
                 closed, cancelled>>

\* A bug: the record is sent without looking at ctx.Done().
ObserveCancelReading(p) ==
  /\ cancelled
  /\ reader[p] = "read"
  /\ Move(p, "done")
  /\ UNCHANGED <<brokerVars, fetchVars, mainVars, window, next, msgCount, sent,
                 chanVars, cancelled>>

\* ctx.Done() in either select.
ObserveCancel(p) ==
  /\ cancelled
  /\ reader[p] \in {"read", "send", "sendLast"}
  /\ Move(p, "done")
  /\ UNCHANGED <<brokerVars, fetchVars, mainVars, window, next, msgCount, sent,
                 chanVars, cancelled>>

-----------------------------------------------------------------------------
(* The environment                                                         *)

TakeRecord ==
  /\ records # <<>>
  /\ records' = Tail(records)
  /\ UNCHANGED <<brokerVars, fetchVars, mainVars, partVars, full, closed,
                 cancelled>>

TakeSignal(c) ==
  /\ c \in full
  /\ full' = full \ {c}
  /\ UNCHANGED <<brokerVars, fetchVars, mainVars, partVars, records, closed,
                 cancelled>>

\* CancelFunc, or the context the read was started with.
Cancel ==
  /\ ~cancelled
  /\ cancelled' = TRUE
  /\ UNCHANGED <<brokerVars, fetchVars, mainVars, partVars, chanVars>>

\* A producer appends a record (or a marker); it is recent, so the period
\* asked for by an instant includes it.
Produce(p, k) ==
  /\ End(p) < MaxOffset
  /\ log' = [log EXCEPT ![p].kinds = Append(@, k)]
  /\ UNCHANGED <<rd, fetchVars, mainVars, partVars, chanVars, cancelled>>

-----------------------------------------------------------------------------
Fetcher(p) == FetchStart(p) \/ FetchEnd(p) \/ FetchError(p)

Main == \/ ReportFetchError \/ FindNothing \/ ReportNoRecordsFound
        \/ StartPartitions \/ ReportEmptyTopic \/ AwaitPartitions
        \/ Shutdown \/ CloseNext

PartitionReader(p) ==
  \/ Connect(p) \/ ConnectError(p) \/ StreamError(p) \/ SendError(p)
  \/ RejectRecord(p) \/ AcceptRecord(p) \/ SendRecord(p) \/ ObserveCancel(p)

Goroutines == Main \/ \E p \in Partitions : Fetcher(p) \/ PartitionReader(p)

Environment == \/ TakeRecord
               \/ \E c \in Signals : TakeSignal(c)
               \/ Cancel
               \/ \E p \in Partitions, k \in Kinds : Produce(p, k)

Next == Goroutines \/ Environment

Spec == Init /\ [][Next]_readerVars

\* The Go scheduler runs every goroutine that can move.
Fairness == /\ WF_readerVars(Main)
            /\ \A p \in Partitions : /\ WF_readerVars(Fetcher(p))
                                     /\ WF_readerVars(PartitionReader(p))

FairSpec == Spec /\ Fairness

\* An awaiter that keeps receiving: assumed only where a property says so.
Drained == /\ WF_readerVars(TakeRecord)
           /\ \A c \in Signals : WF_readerVars(TakeSignal(c))

-----------------------------------------------------------------------------
(* Properties                                                              *)

Fetching == {"start", "end", "done", "failed"}
MainSteps == {"fetching", "closing", "notFound", "emptyTopic", "waiting",
              "sleeping", "returned"}
ReaderSteps == Exited \union {"connect", "read", "send", "sendLast",
                              "connectErr", "streamErr"}
ChannelRecord == [partition : Partitions, offset : Int]

\* Every variable stays in its type: among others, the counter is a natural
\* number and only records of the partitions that are read are in flight.
TypeOK ==
  /\ rd \in ReadDetails
  /\ log \in [Partitions -> Log]
  /\ fetch \in [Partitions -> Fetching]
  /\ offsets \in [Partitions -> Offsets]
  /\ main \in MainSteps
  /\ toClose \in Seq(Channels)
  /\ reader \in [Partitions -> ReaderSteps]
  /\ window \in [Partitions -> Offsets]
  /\ next \in [Partitions -> Int]
  /\ msgCount \in Nat
  /\ records \in Seq(ChannelRecord)
  /\ full \subseteq Signals
  /\ closed \subseteq Channels
  /\ cancelled \in BOOLEAN
  /\ sent \in [Partitions -> SUBSET Int]

\* The partition goroutines share one counter without a lock around the check
\* and the send: together they accept at most |Partitions| - 1 records more
\* than the limit, since each of them stops at its first one past the limit.
CountWithinOverrun == msgCount <= rd.limit + Cardinality(Partitions) - 1

\* No goroutine sends on a closed channel and none is closed twice (both
\* panic in Go): channels are only closed when no partition goroutine is left,
\* and a path never closes, or sends on, what another path has closed.
ChannelDiscipline ==
  /\ closed # {} => \A p \in Partitions : reader[p] \in Exited
  /\ toClose # <<>> => Head(toClose) \notin closed
  /\ main = "notFound" => "none" \notin closed
  /\ main \in {"fetching", "emptyTopic"} => closed = {}

\* A partition goroutine that returned on its own (no cancel, limit not
\* reached) has sent every record of its window that passes the filter.
WindowComplete ==
  \A p \in Partitions :
    reader[p] = "done" /\ ~cancelled /\ msgCount < rd.limit
      => \A o \in window[p].start .. window[p].end :
           HasRecord(p, o) /\ log[p].kinds[o + 1] = "match" => o \in sent[p]

\* A read from the beginning or of the most recent records asks each partition
\* for offsets it has: the window lies between the oldest retained offset and
\* the newest, is at most one record larger than the partition's share of the
\* limit, and the consumer starts in it.
WindowInLog ==
  \A p \in Partitions :
    /\ rd.startPoint \in {"Beginning", "MostRecent"}
    /\ reader[p] \in {"read", "send", "sendLast", "streamErr"}
    => /\ log[p].low <= window[p].start
       /\ window[p].start <= window[p].end + 1
       /\ window[p].end < End(p)
       /\ window[p].end - window[p].start
            <= RecordsPerPartition(rd.limit, Cardinality(Partitions))
       /\ window[p].start <= next[p]

\* After a cancel the read winds down even though nobody takes from its
\* channels any more (the page has been left): no goroutine stays behind.
CancelStops == cancelled ~> main = "returned"

\* The end of every partition can be seen by its goroutine: the log has no
\* undeliverable offset, and a read from the beginning rejects nothing and
\* has at least one record to read in every partition.
EndIsVisible ==
  /\ rd.startPoint \in {"Beginning", "MostRecent"}
  /\ \A p \in Partitions : \A i \in DOMAIN log[p].kinds :
       /\ log[p].kinds[i] # "gap"
       /\ rd.startPoint = "Beginning" => log[p].kinds[i] = "match"
  /\ rd.startPoint = "Beginning" => rd.limit >= Cardinality(Partitions)

\* A bounded read whose end is visible ends by itself when its channels are
\* drained, with no further record produced.
ReadEnds == Drained /\ []EndIsVisible => <>(main = "returned")
=============================================================================
