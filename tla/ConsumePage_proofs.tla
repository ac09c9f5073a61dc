------------------------- MODULE ConsumePage_proofs -------------------------
(***************************************************************************)
(* The consume page is a lawful awaiter: what RecordReader_proofs shows of *)
(* every read holds of the reads this page starts. Two invariants of the   *)
(* page follow from what a row or a verdict passes on its way: the         *)
(* channels, the command's batch, its message.                             *)
(***************************************************************************)
EXTENDS ConsumePage, RecordReader_proofs

CancelType == cancelled \in BOOLEAN

\* A key that cancels does so once.
LEMMA CancelKeys ==
  ASSUME cancelled \in BOOLEAN, cancelled' = TRUE,
         UNCHANGED <<brokerVars, fetchVars, mainVars, partVars, chanVars>>
  PROVE  [Next]_readerVars
<1>1. CASE cancelled
  BY <1>1 DEF readerVars
<1>2. CASE ~cancelled
  BY <1>2 DEF Cancel, Next, Environment
<1>3. QED
  BY <1>1, <1>2

\* Every step of the page, its commands and its keys is a step of the reader,
\* of its environment, or none of its business.
LEMMA PageStepsAreReaderSteps ==
  CancelType /\ [PageNext]_pageVars => [Next]_readerVars
<1> SUFFICES ASSUME CancelType, [PageNext]_pageVars
             PROVE  [Next]_readerVars
  OBVIOUS
<1>1. CASE Goroutines \/ \E p \in Partitions, k \in Kinds : Produce(p, k)
  BY <1>1 DEF Next, Environment
<1>2. CASE AwaitCommand
  <2>1. \/ TakeRecord
        \/ \E c \in Signals : TakeSignal(c)
        \/ UNCHANGED readerVars
    BY <1>2 DEF AwaitCommand, AwaitFirstRecord, AwaitStartBatch, AwaitCollect,
       AwaitCollectClosed, AwaitBatchTimeout, AwaitClosed, AwaitSignal,
       AwaitClosedSignal
  <2>2. QED
    BY <2>1 DEF Next, Environment
<1>3. CASE UiLoop
  BY <1>3 DEF UiLoop, UpdateStarted, UpdateRecords, UpdateVerdict, UpdateEnded,
     UpdateIgnored, DeliverPublished, Deliver
<1>4. CASE KeyEsc \/ KeyF2
  BY <1>4, CancelKeys DEF KeyEsc, KeyF2, CancelType
<1>5. CASE KeyEnter \/ KeyEscDetails \/ UNCHANGED pageVars
  BY <1>5 DEF KeyEnter, KeyEscDetails, pageVars
<1>6. QED
  BY <1>1, <1>2, <1>3, <1>4, <1>5 DEF PageNext, Keys

\* The page with its commands implements the reader's specification, for
\* every set of partitions, request and log.
THEOREM PageImplementsReader == PageSpec => ReaderSpec
<1>1. PageInit => Init /\ CancelType
  BY DEF PageInit, Init, CancelType
<1>2. CancelType /\ [Next]_readerVars => CancelType'
  BY DEF CancelType, Next, Goroutines, Main, Fetcher, PartitionReader, Environment,
     ReportFetchError, FindNothing, ReportNoRecordsFound, StartPartitions,
     ReportEmptyTopic, AwaitPartitions, Shutdown, CloseNext, FetchStart,
     FetchEnd, FetchError, Connect, ConnectError, StreamError, SendError,
     RejectRecord, AcceptRecord, SendRecord, ObserveCancel, TakeRecord,
     TakeSignal, Cancel, Produce, readerVars
<1>3. QED
  BY <1>1, <1>2, PageStepsAreReaderSteps, PTL DEF PageSpec, ReaderSpec, Spec

\* Under the page too no goroutine of a read sends on a closed channel, and a
\* read overruns its limit by less than one record per partition.
THEOREM PageReadsSafely == PageSpec => [](ChannelDiscipline /\ CountWithinOverrun)
<1>1. PageSpec => Spec
  BY PageImplementsReader DEF ReaderSpec
<1>2. QED
  BY <1>1, ChannelsDisciplined, OverrunBounded, PTL

-----------------------------------------------------------------------------
(* The types of the page                                                   *)

Row == ChannelRecord \union {ZeroRecord}

\* The record received next, and what the channel then holds.
LEMMA TakenRecord ==
  ASSUME TypeOK, TakeRecord
  PROVE  /\ Head(records) \in ChannelRecord
         /\ <<Head(records)>> \in Seq(Row)
         /\ records' \in Seq(Row)
         /\ records = <<Head(records)>> \o records'
  BY DEF TypeOK, TakeRecord, Row

\* The commands put rows into the batch and into messages.
LEMMA CommandsKeepTypes ==
  ASSUME TypeOK, PageTypeOK, AwaitCommand PROVE PageTypeOK'
<1> USE DEF PageTypeOK, Return, pageState, Message, NoMessage, Signals
<1>0. <<>> \in Seq(Row)
  OBVIOUS
<1>1. CASE AwaitFirstRecord
  BY <1>1, TakenRecord DEF AwaitFirstRecord, Row
<1>2. CASE AwaitStartBatch
  BY <1>2, TakenRecord DEF AwaitStartBatch, Row
<1>3. CASE AwaitCollect
  <2>1. Append(batch, Head(records)) \in Seq(Row)
    BY <1>3, TakenRecord DEF AwaitCollect, Row
  <2> QED BY <1>3, <2>1 DEF AwaitCollect, Row
<1>4. CASE AwaitCollectClosed
  <2>1. Append(batch, ZeroRecord) \in Seq(Row)
    BY DEF Row
  <2> QED BY <1>4, <2>1 DEF AwaitCollectClosed, Row
<1>5. CASE AwaitBatchTimeout
  BY <1>0, <1>5 DEF AwaitBatchTimeout, Row
<1>6. CASE AwaitClosed
  BY <1>0, <1>6 DEF AwaitClosed, Row
<1>7. ASSUME NEW c \in Signals, AwaitSignal(c) \/ AwaitClosedSignal(c) PROVE PageTypeOK'
  <2>1. /\ inbox'.kind \in Signals \union {"nothing"} /\ inbox'.records = <<>>
        /\ await' = "idle" /\ batch' = batch /\ UNCHANGED pageState
    BY <1>7 DEF AwaitSignal, AwaitClosedSignal
  <2> QED BY <1>0, <2>1 DEF Row
<1> QED
  BY <1>1, <1>2, <1>3, <1>4, <1>5, <1>6, <1>7 DEF AwaitCommand

\* Every step of the page keeps the types; the goroutines leave it alone.
LEMMA PageKeepsTypes == TypeOK /\ PageTypeOK /\ [PageNext]_pageVars => PageTypeOK'
<1> SUFFICES ASSUME TypeOK, PageTypeOK, [PageNext]_pageVars PROVE PageTypeOK'
  OBVIOUS
<1>1. CASE UNCHANGED uiVars
  BY <1>1 DEF uiVars, PageTypeOK
<1>2. CASE UiLoop
  <2>1. NoMessage.kind = "nothing" /\ NoMessage.records \in Seq(Row)
    BY DEF NoMessage, Message
  <2>2. inbox.records \in Seq(Row) /\ shown \in Seq(Row) => shown \o inbox.records \in Seq(Row)
    OBVIOUS
  <2> QED
    BY <1>2, <2>1, <2>2 DEF UiLoop, UpdateStarted, UpdateRecords, UpdateVerdict,
       UpdateEnded, UpdateIgnored, DeliverPublished, Deliver, PageTypeOK, Row
<1>3. CASE Keys
  BY <1>3 DEF Keys, KeyEsc, KeyF2, KeyEnter, KeyEscDetails, PageTypeOK
<1> QED
  BY <1>1, <1>2, <1>3, CommandsKeepTypes DEF PageNext, pageVars, uiVars

\* The page starts with the message that the read has started.
LEMMA InitPageTypes == PageInit => PageTypeOK
<1>1. <<>> \in Seq(ChannelRecord \union {ZeroRecord})
  OBVIOUS
<1>2. PageInit => inbox.kind = "started" /\ inbox.records = <<>>
  BY DEF PageInit, Message
<1> QED BY <1>1, <1>2 DEF PageInit, PageTypeOK

\* The variables of the page keep their types in every reachable state.
THEOREM PageTypeCorrect == PageSpec => []PageTypeOK
<1>1. PageInit => TypeOK /\ PageTypeOK
  BY InitTypeOK, InitPageTypes DEF PageInit
<1>2. TypeOK /\ PageTypeOK /\ [PageNext]_pageVars => TypeOK' /\ PageTypeOK'
  BY PageStepsAreReaderSteps, NextTypeOK, PageKeepsTypes DEF TypeOK, CancelType
<1> QED
  BY <1>1, <1>2, PTL DEF PageSpec

-----------------------------------------------------------------------------
(* The verdicts                                                            *)

Verdicts == {"empty", "none"}

\* What the page has been told, or will be by what is on its way.
Told == (full \union {inbox.kind} \union flagged) \cap Verdicts

\* No partition goroutine has been started.
NoReader == \A p \in Partitions : reader[p] = "off" /\ sent[p] = {}

\* A verdict is told at the end of the one path on which nobody reads; until
\* then none has been.
VerdictInv ==
  /\ main \in {"fetching", "emptyTopic", "notFound"} => NoReader /\ Told = {}
  /\ main = "closing" /\ FetchFailed => NoReader /\ Told = {}
  /\ Told # {} => NoReader
  /\ Told # Verdicts

\* As long as nothing was sent nothing is on its way to the page.
NothingInHand ==
  /\ records = <<>> /\ batch = <<>> /\ shown = <<>> /\ inbox.records = <<>>
  /\ inbox.kind # "records" /\ await \notin {"next", "batch"}
HandInv == (\A p \in Partitions : sent[p] = {}) => NothingInHand

\* A step that tells no verdict, and starts or sends nothing.
LEMMA VerdictKept ==
  ASSUME VerdictInv, UNCHANGED <<main, fetch, reader, sent>>, Told' \subseteq Told
  PROVE  VerdictInv'
<1>1. Told \subseteq Verdicts
  BY DEF Told
<1>2. (NoReader' <=> NoReader) /\ (FetchFailed' <=> FetchFailed)
  BY DEF NoReader, FetchFailed
<1>3. (Told = {} => Told' = {}) /\ Told' # Verdicts
  BY <1>1 DEF VerdictInv
<1> QED BY <1>2, <1>3 DEF VerdictInv

\* A partition goroutine that moves has been started, so nothing was told.
LEMMA PartitionKeepsVerdict ==
  ASSUME TypeOK, PhaseInv, VerdictInv, UNCHANGED uiVars,
         NEW p \in Partitions, PartitionReader(p)
  PROVE  VerdictInv'
<1>1. reader[p] \notin Exited
  BY DEF PartitionReader, Connect, ConnectError, StreamError, SendError,
         RejectRecord, AcceptRecord, SendRecord, ObserveCancel, Exited
<1>2. main = "waiting"
  BY <1>1, WorkWhileWaiting
<1>3. Told = {}
  BY <1>1 DEF VerdictInv, NoReader, Exited
<1>4. main' = main /\ full' \subseteq full \union {"err"}
  BY DEF PartitionReader, Connect, ConnectError, StreamError, SendError,
         RejectRecord, AcceptRecord, SendRecord, ObserveCancel,
         mainVars, chanVars
<1>5. Told' = {}
  BY <1>3, <1>4 DEF Told, Verdicts, uiVars
<1> QED BY <1>2, <1>4, <1>5 DEF VerdictInv, Verdicts

\* The path of doReadRecords decides which verdict is told, and that nobody reads.
LEMMA MainKeepsVerdict ==
  ASSUME TypeOK, PhaseInv, VerdictInv, UNCHANGED uiVars, Main PROVE VerdictInv'
<1> USE DEF fetchVars, mainVars, partVars, chanVars, uiVars, Told, Verdicts
<1>1. CASE ReportFetchError
  BY <1>1 DEF ReportFetchError, FetchJoined, VerdictInv, NoReader
<1>2. CASE FindNothing
  BY <1>2 DEF FindNothing, FetchJoined, VerdictInv, NoReader
<1>3. CASE ReportNoRecordsFound
  BY <1>3 DEF ReportNoRecordsFound, VerdictInv, NoReader
<1>4. CASE StartPartitions
  <2>1. NoReader /\ Told' = {} /\ sent' = sent
    BY <1>4 DEF StartPartitions, FetchJoined, VerdictInv
  <2>2. CASE \E p \in Partitions : HasData(p)
    BY <1>4, <2>1, <2>2 DEF StartPartitions, VerdictInv
  <2>3. CASE ~ \E p \in Partitions : HasData(p)
    BY <1>4, <2>1, <2>3 DEF StartPartitions, VerdictInv, NoReader
  <2> QED BY <2>2, <2>3
<1>5. CASE ReportEmptyTopic
  BY <1>5 DEF ReportEmptyTopic, VerdictInv, NoReader
<1>6. CASE AwaitPartitions
  BY <1>6 DEF AwaitPartitions, VerdictInv, NoReader
<1>7. CASE Shutdown
  BY <1>7 DEF Shutdown, VerdictInv, NoReader, PhaseInv, FetchFailed
<1>8. CASE CloseNext
  BY <1>8 DEF CloseNext, VerdictInv, NoReader, FetchFailed
<1> QED
  BY <1>1, <1>2, <1>3, <1>4, <1>5, <1>6, <1>7, <1>8 DEF Main

\* Fetching offsets, producing, and what the page does tell it nothing new.
LEMMA PageKeepsVerdict ==
  ASSUME TypeOK, PhaseInv, PageTypeOK, VerdictInv, [PageNext]_pageVars
  PROVE  VerdictInv'
<1> USE DEF brokerVars, fetchVars, mainVars, partVars, chanVars, readerVars
<1>1. CASE (\E p \in Partitions : Fetcher(p)) /\ UNCHANGED uiVars
  <2>1. main = "fetching" /\ UNCHANGED <<main, reader, sent, full>>
    BY <1>1 DEF PhaseInv, Fetcher, FetchStart, FetchEnd, FetchError
  <2>2. Told' = Told
    BY <1>1, <2>1 DEF Told, uiVars
  <2> QED BY <2>1, <2>2 DEF VerdictInv, NoReader
<1>2. CASE (\E p \in Partitions, k \in Kinds : Produce(p, k)) /\ UNCHANGED uiVars
  <2>1. UNCHANGED <<main, fetch, reader, sent>> /\ Told' = Told
    BY <1>2 DEF Produce, Told, uiVars
  <2> QED BY <2>1, VerdictKept
<1>3. CASE AwaitCommand
  <2>1. UNCHANGED <<main, fetch, reader, sent>>
    BY <1>3 DEF AwaitCommand, AwaitFirstRecord, AwaitStartBatch, AwaitCollect,
       AwaitCollectClosed, AwaitBatchTimeout, AwaitClosed, AwaitSignal,
       AwaitClosedSignal, TakeRecord, TakeSignal
  <2>2. CASE \E c \in Signals : AwaitSignal(c)
    <3>1. PICK c \in full : full' \subseteq full /\ inbox'.kind = c /\ flagged' = flagged
      BY <2>2 DEF AwaitSignal, TakeSignal, Return, Message, pageState
    <3>2. Told' \subseteq Told
      BY <3>1 DEF Told
    <3> QED BY <2>1, <3>2, VerdictKept
  <2>3. CASE ~ \E c \in Signals : AwaitSignal(c)
    <3>1. /\ full' = full /\ flagged' = flagged
          /\ inbox' = inbox \/ inbox'.kind \in {"records", "ended", "nothing"}
      BY <1>3, <2>3 DEF AwaitCommand, AwaitFirstRecord, AwaitStartBatch, AwaitCollect,
         AwaitCollectClosed, AwaitBatchTimeout, AwaitClosed, AwaitClosedSignal,
         TakeRecord, Return, Message, NoMessage, pageState
    <3>2. Told' \subseteq Told
      BY <3>1 DEF Told, Verdicts
    <3> QED BY <2>1, <3>2, VerdictKept
  <2> QED BY <2>2, <2>3
<1>4. CASE UiLoop
  <2>1. UNCHANGED <<main, fetch, reader, sent, full>>
    BY <1>4 DEF UiLoop, UpdateStarted, UpdateRecords, UpdateVerdict, UpdateEnded,
       UpdateIgnored, DeliverPublished, Deliver
  <2>2. inbox' \in {inbox, NoMessage} /\ flagged' \subseteq flagged \union {inbox.kind}
    BY <1>4 DEF UiLoop, UpdateStarted, UpdateRecords, UpdateVerdict, UpdateEnded,
       UpdateIgnored, DeliverPublished, Deliver
  <2>3. inbox'.kind \in {inbox.kind, "nothing"}
    BY <2>2 DEF NoMessage, Message
  <2>4. Told' \subseteq Told
    BY <2>1, <2>2, <2>3 DEF Told, Verdicts
  <2> QED BY <2>1, <2>4, VerdictKept
<1>5. CASE Keys \/ UNCHANGED pageVars
  <2>1. UNCHANGED <<main, fetch, reader, sent, full, inbox, flagged>>
    BY <1>5 DEF Keys, KeyEsc, KeyF2, KeyEnter, KeyEscDetails, pageVars, uiVars
  <2>2. Told' = Told
    BY <2>1 DEF Told
  <2> QED BY <2>1, <2>2, VerdictKept
<1> QED
  BY <1>1, <1>2, <1>3, <1>4, <1>5, PartitionKeepsVerdict, MainKeepsVerdict
     DEF PageNext, Goroutines

\* Only SendRecord puts a record into the channel.
LEMMA OthersSendNothing ==
  ASSUME Goroutines, ~ \E p \in Partitions : SendRecord(p)
  PROVE  sent' = sent /\ records' = records
<1> USE DEF partVars, chanVars
<1>1. CASE Main
  BY <1>1 DEF Main, ReportFetchError, FindNothing, ReportNoRecordsFound, StartPartitions,
     ReportEmptyTopic, AwaitPartitions, Shutdown, CloseNext
<1>2. CASE \E p \in Partitions : Fetcher(p)
  BY <1>2 DEF Fetcher, FetchStart, FetchEnd, FetchError
<1>3. CASE \E p \in Partitions : PartitionReader(p)
  BY <1>3 DEF PartitionReader, Connect, ConnectError, StreamError, SendError,
     RejectRecord, AcceptRecord, ObserveCancel
<1> QED BY <1>1, <1>2, <1>3 DEF Goroutines

\* Only a record that was sent gets anything into the page's hands.
LEMMA PageKeepsHand ==
  ASSUME TypeOK, HandInv, [PageNext]_pageVars PROVE HandInv'
<1> USE DEF brokerVars, fetchVars, mainVars, partVars, chanVars, readerVars
<1> SUFFICES ASSUME \A p \in Partitions : sent'[p] = {} PROVE NothingInHand'
  BY DEF HandInv
<1>1. CASE Goroutines /\ UNCHANGED uiVars
  <2>1. CASE \E p \in Partitions : SendRecord(p)
    <3>1. PICK p \in Partitions : sent' = [sent EXCEPT ![p] = @ \union {Held(p)}]
      BY <2>1 DEF SendRecord
    <3>2. sent \in [Partitions -> SUBSET Int]
      BY DEF TypeOK
    <3>3. Held(p) \in sent'[p]
      BY <3>1, <3>2
    <3> QED BY <3>3
  <2>2. CASE ~ \E p \in Partitions : SendRecord(p)
    <3>1. sent' = sent /\ records' = records
      BY <1>1, <2>2, OthersSendNothing
    <3> QED BY <1>1, <3>1 DEF HandInv, NothingInHand, uiVars
  <2> QED BY <2>1, <2>2
<1>2. CASE UNCHANGED <<sent, records, uiVars>>
  BY <1>2 DEF HandInv, NothingInHand, uiVars
<1>3. CASE AwaitCommand
  <2>1. sent' = sent
    BY <1>3 DEF AwaitCommand, AwaitFirstRecord, AwaitStartBatch, AwaitCollect,
       AwaitCollectClosed, AwaitBatchTimeout, AwaitClosed, AwaitSignal,
       AwaitClosedSignal, TakeRecord, TakeSignal
  <2>2. NothingInHand
    BY <2>1 DEF HandInv
  <2>3. /\ ~AwaitFirstRecord /\ ~AwaitStartBatch /\ ~AwaitCollect
        /\ ~AwaitCollectClosed /\ ~AwaitBatchTimeout
    BY <2>2 DEF NothingInHand, TakeRecord, AwaitFirstRecord, AwaitStartBatch,
       AwaitCollect, AwaitCollectClosed, AwaitBatchTimeout
  <2>4. /\ inbox'.kind \in Signals \union {"ended", "nothing"} /\ inbox'.records = <<>>
        /\ await' = "idle" /\ UNCHANGED <<records, batch, shown>>
    BY <1>3, <2>3 DEF AwaitCommand, AwaitClosed, AwaitSignal, AwaitClosedSignal,
       TakeSignal, Return, Message, NoMessage, pageState
  <2> QED BY <2>2, <2>4 DEF NothingInHand, Signals
<1>4. CASE UiLoop \/ Keys
  <2>1. sent' = sent /\ records' = records /\ batch' = batch
    BY <1>4 DEF UiLoop, UpdateStarted, UpdateRecords, UpdateVerdict, UpdateEnded,
       UpdateIgnored, DeliverPublished, Deliver, Keys, KeyEsc, KeyF2, KeyEnter,
       KeyEscDetails
  <2>2. NothingInHand
    BY <2>1 DEF HandInv
  <2>3. ~UpdateRecords
    BY <2>2 DEF NothingInHand, UpdateRecords
  <2>4. /\ inbox' = inbox \/ inbox' = NoMessage
        /\ shown' = shown /\ await' \in {await, "first"}
    BY <1>4, <2>3 DEF UiLoop, UpdateStarted, UpdateVerdict, UpdateEnded,
       UpdateIgnored, DeliverPublished, Deliver, Keys, KeyEsc, KeyF2, KeyEnter,
       KeyEscDetails
  <2> QED BY <2>1, <2>2, <2>4 DEF NothingInHand, NoMessage, Message
<1> QED
  BY <1>1, <1>2, <1>3, <1>4 DEF PageNext, Produce, pageVars

\* The page never tells that there is nothing of a read that sends records, and
\* never both that the topic is empty and that no record was found, though the
\* verdicts pass two channels and a command each.
THEOREM VerdictsExclusive == PageSpec => []VerdictExclusive
<1> DEFINE PInv == TypeOK /\ PhaseInv /\ PageTypeOK /\ VerdictInv /\ HandInv
<1>1. PageInit => CancelType /\ PInv
  <2> SUFFICES ASSUME PageInit PROVE CancelType /\ PInv
    OBVIOUS
  <2>1. CancelType /\ TypeOK /\ PhaseInv
    BY InitTypeOK, InitPhase DEF PageInit, Init, CancelType
  <2>2. inbox.kind = "started" /\ inbox.records = <<>>
    BY DEF PageInit, Message
  <2>3. PageTypeOK
    BY InitPageTypes
  <2>4. HandInv
    BY <2>2 DEF PageInit, Init, HandInv, NothingInHand
  <2>5. Told = {} /\ NoReader /\ main = "fetching"
    BY <2>2 DEF PageInit, Init, Told, Verdicts, NoReader
  <2> QED BY <2>1, <2>3, <2>4, <2>5 DEF VerdictInv, Verdicts
<1>2. PInv /\ [PageNext]_pageVars => PInv'
  <2>1. TypeOK => CancelType
    BY DEF TypeOK, CancelType
  <2> QED
    BY <2>1, PageStepsAreReaderSteps, NextTypeOK, NextPhase, PageKeepsTypes,
       PageKeepsVerdict, PageKeepsHand
<1>3. PInv => VerdictExclusive
  <2> SUFFICES ASSUME PInv PROVE VerdictExclusive
    OBVIOUS
  <2>1. flagged \subseteq Told
    BY DEF PageTypeOK, Told, Verdicts
  <2>2. flagged # {} => NoReader /\ shown = <<>>
    BY <2>1 DEF VerdictInv, HandInv, NothingInHand, NoReader
  <2>3. flagged # {"empty", "none"}
    BY <2>1 DEF VerdictInv, Told, Verdicts
  <2> QED BY <2>2, <2>3 DEF VerdictExclusive, NoReader
<1> QED
  BY <1>1, <1>2, <1>3, PTL DEF PageSpec

-----------------------------------------------------------------------------
(* The order of the rows                                                   *)

\* What a row must be to one that comes later.
Before(x, y) ==
  x # ZeroRecord /\ y # ZeroRecord /\ x.partition = y.partition => x.offset < y.offset

Ordered(s)   == \A i, j \in DOMAIN s : i < j => Before(s[i], s[j])
Across(s, t) == \A x \in RangeOf(s), y \in RangeOf(t) : Before(x, y)

\* The rows of s that are records are among those of f.
From(f, s) == \A x \in RangeOf(s) : x # ZeroRecord => x.offset \in f[x.partition]

\* The four places of a row on its way to the page, in the order it leaves them:
\* they hold only what f has, and all in order.
InOrder(f, a, b, c, d) ==
  /\ From(f, a) /\ From(f, b) /\ From(f, c) /\ From(f, d)
  /\ Ordered(a) /\ Ordered(b) /\ Ordered(c) /\ Ordered(d)
  /\ Across(a, b) /\ Across(a, c) /\ Across(a, d)
  /\ Across(b, c) /\ Across(b, d) /\ Across(c, d)

\* The positions of a concatenation.
LEMMA ConcatAt ==
  ASSUME NEW s \in Seq(Row), NEW t \in Seq(Row)
  PROVE  /\ s \o t \in Seq(Row)
         /\ \A i \in DOMAIN s : i \in DOMAIN (s \o t) /\ (s \o t)[i] = s[i]
         /\ \A j \in DOMAIN t : /\ Len(s) + j \in DOMAIN (s \o t)
                                /\ (s \o t)[Len(s) + j] = t[j]
         /\ \A k \in DOMAIN (s \o t) :
              k \in DOMAIN s \/ (k > Len(s) /\ k - Len(s) \in DOMAIN t /\ (s \o t)[k] = t[k - Len(s)])
  OBVIOUS

\* The rows of a concatenation are those of its parts.
LEMMA ConcatRange ==
  ASSUME NEW s \in Seq(Row), NEW t \in Seq(Row)
  PROVE  RangeOf(s \o t) = RangeOf(s) \union RangeOf(t)
<1>1. ASSUME NEW x \in RangeOf(s \o t) PROVE x \in RangeOf(s) \union RangeOf(t)
  BY ConcatAt DEF RangeOf
<1>2. ASSUME NEW x \in RangeOf(s) PROVE x \in RangeOf(s \o t)
  <2>1. PICK i \in DOMAIN s : x = s[i]
    BY DEF RangeOf
  <2>2. i \in DOMAIN (s \o t) /\ (s \o t)[i] = x
    BY <2>1, ConcatAt
  <2> QED BY <2>2 DEF RangeOf
<1>3. ASSUME NEW x \in RangeOf(t) PROVE x \in RangeOf(s \o t)
  <2>1. PICK j \in DOMAIN t : x = t[j]
    BY DEF RangeOf
  <2>2. Len(s) + j \in DOMAIN (s \o t) /\ (s \o t)[Len(s) + j] = x
    BY <2>1, ConcatAt
  <2> QED BY <2>2 DEF RangeOf
<1> QED BY <1>1, <1>2, <1>3

\* What holds of two lists of rows holds of their concatenation.
LEMMA ConcatBoth ==
  ASSUME NEW s \in Seq(Row), NEW t \in Seq(Row), NEW u
  PROVE  /\ Across(s, u) /\ Across(t, u) <=> Across(s \o t, u)
         /\ Across(u, s) /\ Across(u, t) <=> Across(u, s \o t)
         /\ From(u, s) /\ From(u, t) <=> From(u, s \o t)
  BY ConcatRange DEF Across, From

\* A concatenation is ordered if its parts are, and each row of the one comes
\* before each of the other.
LEMMA OrderedBoth ==
  ASSUME NEW s \in Seq(Row), NEW t \in Seq(Row)
  PROVE  Ordered(s) /\ Ordered(t) /\ Across(s, t) <=> Ordered(s \o t)
<1>1. /\ DOMAIN s \subseteq Nat /\ DOMAIN t \subseteq Nat /\ DOMAIN (s \o t) \subseteq Nat
      /\ Len(s) \in Nat /\ DOMAIN s = 1 .. Len(s) /\ \A j \in DOMAIN t : j >= 1
  BY ConcatAt
<1>2. ASSUME Ordered(s), Ordered(t), Across(s, t) PROVE Ordered(s \o t)
  <2> SUFFICES ASSUME NEW i \in DOMAIN (s \o t), NEW j \in DOMAIN (s \o t), i < j
               PROVE  Before((s \o t)[i], (s \o t)[j])
    BY DEF Ordered
  <2>1. CASE i \in DOMAIN s /\ j \in DOMAIN s
    BY <1>2, <2>1, ConcatAt DEF Ordered
  <2>2. CASE i \in DOMAIN s /\ j \notin DOMAIN s
    BY <1>2, <2>2, ConcatAt DEF Across, RangeOf
  <2>3. CASE i \notin DOMAIN s
    <3>1. /\ i - Len(s) \in DOMAIN t /\ (s \o t)[i] = t[i - Len(s)]
          /\ j - Len(s) \in DOMAIN t /\ (s \o t)[j] = t[j - Len(s)]
      BY <1>1, <2>3, ConcatAt
    <3>2. i - Len(s) < j - Len(s)
      BY <1>1
    <3> QED BY <1>2, <3>1, <3>2 DEF Ordered
  <2> QED BY <2>1, <2>2, <2>3
<1>3. ASSUME Ordered(s \o t) PROVE Ordered(s)
  BY <1>1, <1>3, ConcatAt DEF Ordered
<1>4. ASSUME Ordered(s \o t) PROVE Ordered(t)
  <2> SUFFICES ASSUME NEW i \in DOMAIN t, NEW j \in DOMAIN t, i < j PROVE Before(t[i], t[j])
    BY DEF Ordered
  <2>1. Len(s) + i < Len(s) + j
    BY <1>1
  <2> QED BY <1>4, <2>1, ConcatAt DEF Ordered
<1>5. ASSUME Ordered(s \o t) PROVE Across(s, t)
  <2> SUFFICES ASSUME NEW i \in DOMAIN s, NEW j \in DOMAIN t PROVE Before(s[i], t[j])
    BY DEF Across, RangeOf
  <2>1. i < Len(s) + j
    BY <1>1
  <2> QED BY <1>5, <2>1, ConcatAt DEF Ordered
<1> QED BY <1>2, <1>3, <1>4, <1>5

\* Nothing is in order with everything, and a single row with itself.
LEMMA InOrderAlone ==
  ASSUME NEW s, NEW r
  PROVE  /\ Across(<<>>, s) /\ Across(s, <<>>) /\ Ordered(<<>>) /\ Ordered(<<r>>)
         /\ From(s, <<>>)
  BY DEF Across, Ordered, From, RangeOf

\* What the commands and the page do to the four places.
LEMMA RowsMove ==
  ASSUME NEW a \in Seq(Row), NEW b \in Seq(Row), NEW c \in Seq(Row), NEW d \in Seq(Row),
         NEW r \in Row, NEW f
  PROVE  /\ InOrder(f, a, b, c, d) => InOrder(f, a, <<>>, c, d) /\ InOrder(f, a, c, <<>>, d)
                                   /\ InOrder(f, a \o b, <<>>, c, d)
         /\ InOrder(f, a, b, <<>>, <<r>> \o d) => InOrder(f, a, <<r>>, <<>>, d)
         /\ InOrder(f, a, b, c, <<r>> \o d) => InOrder(f, a, b, c \o <<r>>, d)
         /\ InOrder(f, a, b, c, <<>>) => InOrder(f, a, b, c \o <<ZeroRecord>>, <<>>)
         /\ InOrder(f, a, b, c, d) /\ Across(a, <<r>>) /\ Across(b, <<r>>)
              /\ Across(c, <<r>>) /\ Across(d, <<r>>) /\ From(f, <<r>>) => InOrder(f, a, b, c, d \o <<r>>)
<1>1. <<r>> \in Seq(Row) /\ <<ZeroRecord>> \in Seq(Row) /\ <<>> \in Seq(Row)
  BY DEF Row
<1>2. InOrder(f, a, b, c, d) => InOrder(f, a, <<>>, c, d) /\ InOrder(f, a, c, <<>>, d)
  BY InOrderAlone DEF InOrder
<1>3. InOrder(f, a, b, c, d) => InOrder(f, a \o b, <<>>, c, d)
  BY InOrderAlone, ConcatBoth, OrderedBoth DEF InOrder
<1>4. InOrder(f, a, b, <<>>, <<r>> \o d) => InOrder(f, a, <<r>>, <<>>, d)
  BY <1>1, InOrderAlone, ConcatBoth, OrderedBoth DEF InOrder
<1>5. InOrder(f, a, b, c, <<r>> \o d) => InOrder(f, a, b, c \o <<r>>, d)
  BY <1>1, InOrderAlone, ConcatBoth, OrderedBoth DEF InOrder
<1>6. InOrder(f, a, b, c, <<>>) => InOrder(f, a, b, c \o <<ZeroRecord>>, <<>>)
  <2>1. \A s \in {a, b, c} : Across(s, <<ZeroRecord>>)
    BY DEF Across, Before, RangeOf
  <2>2. From(f, <<ZeroRecord>>)
    BY DEF From, RangeOf
  <2> QED BY <1>1, <2>1, <2>2, InOrderAlone, ConcatBoth, OrderedBoth DEF InOrder
<1>7. InOrder(f, a, b, c, d) /\ Across(a, <<r>>) /\ Across(b, <<r>>)
        /\ Across(c, <<r>>) /\ Across(d, <<r>>) /\ From(f, <<r>>) => InOrder(f, a, b, c, d \o <<r>>)
  BY <1>1, InOrderAlone, ConcatBoth, OrderedBoth DEF InOrder
<1> QED BY <1>2, <1>3, <1>4, <1>5, <1>6, <1>7

\* What has been sent of a partition lies below what it reads next.
SentInv ==
  \A p \in Partitions :
    /\ reader[p] \in {"off", "connect", "connectErr"} => sent[p] = {}
    /\ \A o \in sent[p] : o < next[p]
    /\ reader[p] \in {"send", "sendLast"} => \A o \in sent[p] : o < Held(p)

\* At the start nothing has been sent.
LEMMA InitSent == Init => SentInv
  BY DEF Init, SentInv

\* A goroutine sends the record it holds before it reads on.
LEMMA NextSent == TypeOK /\ PhaseInv /\ SentInv /\ [Next]_readerVars => SentInv'
<1> SUFFICES ASSUME TypeOK, PhaseInv, SentInv, [Next]_readerVars PROVE SentInv'
  OBVIOUS
<1> USE DEF brokerVars, fetchVars, mainVars, partVars, chanVars
<1>0. /\ reader \in [Partitions -> ReaderSteps] /\ next \in [Partitions -> Int]
      /\ sent \in [Partitions -> SUBSET Int]
  BY DEF TypeOK
<1>1. CASE UNCHANGED <<reader, next, sent>>
  BY <1>1 DEF SentInv, Held
<1>2. CASE StartPartitions
  <2>1. \A p \in Partitions : reader[p] = "off"
    BY <1>2 DEF StartPartitions, FetchJoined, PhaseInv
  <2>2. \A p \in Partitions : sent'[p] = {} /\ next'[p] = next[p]
    BY <1>2, <2>1 DEF StartPartitions, SentInv
  <2>3. \A p \in Partitions : reader'[p] \notin {"send", "sendLast"}
    BY <1>2 DEF StartPartitions
  <2> QED BY <2>2, <2>3 DEF SentInv
<1>3. ASSUME NEW p \in Partitions, PartitionReader(p) PROVE SentInv'
  <2> SUFFICES ASSUME NEW q \in Partitions
               PROVE  /\ reader'[q] \in {"off", "connect", "connectErr"} => sent'[q] = {}
                      /\ \A o \in sent'[q] : o < next'[q]
                      /\ reader'[q] \in {"send", "sendLast"} => \A o \in sent'[q] : o < next'[q] - 1
    BY DEF SentInv, Held
  <2>1. CASE q # p
    <3>1. reader'[q] = reader[q] /\ next'[q] = next[q] /\ sent'[q] = sent[q]
      BY <1>0, <1>3, <2>1 DEF PartitionReader, Connect, ConnectError, StreamError,
         SendError, RejectRecord, AcceptRecord, SendRecord, ObserveCancel, Move
    <3> QED BY <3>1 DEF SentInv, Held
  <2>2. CASE q = p /\ Connect(p)
    <3>1. sent'[p] = {} /\ reader'[p] = "read"
      BY <1>0, <2>2 DEF Connect, Move, SentInv
    <3> QED BY <2>2, <3>1
  <2>3. CASE q = p /\ (RejectRecord(p) \/ AcceptRecord(p))
    <3>1. PICK o \in next[p] .. End(p) - 1 : next' = [next EXCEPT ![p] = o + 1]
      BY <2>3 DEF RejectRecord, AcceptRecord
    <3>2. o \in Int /\ next[p] \in Int /\ next[p] <= o
      <4>1. next[p] \in Int /\ End(p) \in Int
        BY <1>0, EndType
      <4> QED BY <4>1
    <3>3. sent'[p] = sent[p] /\ next'[p] = o + 1 /\ \A x \in sent[p] : x \in Int /\ x < next[p]
      BY <1>0, <2>3, <3>1 DEF RejectRecord, AcceptRecord, SentInv
    <3>4. reader'[p] \notin {"off", "connect", "connectErr"}
      BY <1>0, <2>3 DEF RejectRecord, AcceptRecord, Move
    <3> QED BY <2>3, <3>2, <3>3, <3>4
  <2>4. CASE q = p /\ SendRecord(p)
    <3>1. /\ sent'[p] = sent[p] \union {next[p] - 1} /\ next'[p] = next[p]
          /\ reader'[p] \in {"done", "read"}
      BY <1>0, <2>4 DEF SendRecord, Move, AfterSend, Held
    <3>2. next[p] \in Int /\ \A o \in sent[p] : o < next[p]
      BY <1>0 DEF SentInv
    <3> QED BY <2>4, <3>1, <3>2
  <2>5. CASE q = p /\ (ConnectError(p) \/ StreamError(p) \/ SendError(p) \/ ObserveCancel(p))
    <3>1. sent'[p] = sent[p] /\ next'[p] = next[p]
      BY <2>5 DEF ConnectError, StreamError, SendError, ObserveCancel
    <3>2. /\ reader'[p] \notin {"off", "connect", "send", "sendLast"}
          /\ reader'[p] = "connectErr" => reader[p] = "connect"
      BY <1>0, <2>5 DEF ConnectError, StreamError, SendError, ObserveCancel, Move
    <3> QED BY <2>5, <3>1, <3>2 DEF SentInv
  <2> QED BY <1>3, <2>1, <2>2, <2>3, <2>4, <2>5 DEF PartitionReader
<1>4. CASE \/ Environment \/ UNCHANGED readerVars
           \/ \E p \in Partitions : Fetcher(p)
           \/ Main /\ ~StartPartitions
  <2>1. UNCHANGED <<reader, next, sent>>
    BY <1>4 DEF Environment, TakeRecord, TakeSignal, Cancel, Produce, readerVars,
       Fetcher, FetchStart, FetchEnd, FetchError, Main, ReportFetchError, FindNothing,
       ReportNoRecordsFound, ReportEmptyTopic, AwaitPartitions, Shutdown, CloseNext
  <2> QED BY <1>1, <2>1
<1> QED BY <1>2, <1>3, <1>4 DEF Next, Goroutines

\* Only the loop has a batch, a command that runs has not answered yet, and all
\* rows are in order.
BatchInv == /\ await # "batch" => batch = <<>>
            /\ await # "idle"  => inbox.kind = "nothing"
OrderInv == InOrder(sent, shown, inbox.records, batch, records)

\* What more is sent takes nothing away.
LEMMA FromGrows ==
  ASSUME NEW s \in Seq(Row), NEW f, NEW g, \A q \in Partitions : f[q] \subseteq g[q], From(f, s)
  PROVE  From(g, s)
<1>1. \A x \in RangeOf(s) : x # ZeroRecord => x.partition \in Partitions
  BY DEF RangeOf, Row, ChannelRecord
<1> QED BY <1>1 DEF From

\* A row that was sent comes before the record its partition's goroutine holds.
LEMMA BelowHeld ==
  ASSUME SentInv, NEW p \in Partitions, reader[p] \in {"send", "sendLast"},
         NEW s, From(sent, s)
  PROVE  Across(s, <<[partition |-> p, offset |-> Held(p)]>>)
<1> SUFFICES ASSUME NEW x \in RangeOf(s), x # ZeroRecord, x.partition = p
             PROVE  x.offset < Held(p)
  BY DEF Across, Before, RangeOf
<1> QED BY DEF From, SentInv

\* A record is sent behind the ones of its partition that were.
LEMMA SendKeepsOrder ==
  ASSUME TypeOK, PageTypeOK, SentInv, OrderInv, UNCHANGED uiVars,
         NEW p \in Partitions, SendRecord(p)
  PROVE  OrderInv'
<1> DEFINE r == [partition |-> p, offset |-> Held(p)]
           rows == inbox.records
<1>1. /\ shown \in Seq(Row) /\ rows \in Seq(Row) /\ batch \in Seq(Row) /\ records \in Seq(Row)
      /\ next[p] \in Int /\ sent \in [Partitions -> SUBSET Int]
  BY DEF PageTypeOK, TypeOK, Row
<1>2. r \in Row
  BY <1>1 DEF Row, ChannelRecord, Held
<1>3. /\ records' = Append(records, r) /\ reader[p] \in {"send", "sendLast"}
      /\ sent' = [sent EXCEPT ![p] = @ \union {r.offset}]
  BY DEF SendRecord
<1>4. records' = records \o <<r>>
  BY <1>1, <1>2, <1>3
<1>5. /\ From(sent, shown) /\ From(sent, rows) /\ From(sent, batch) /\ From(sent, records)
  BY DEF OrderInv, InOrder
<1>6. /\ Across(shown, <<r>>) /\ Across(rows, <<r>>)
      /\ Across(batch, <<r>>) /\ Across(records, <<r>>)
  BY <1>3, <1>5, BelowHeld
<1>7. (\A q \in Partitions : sent[q] \subseteq sent'[q]) /\ r.offset \in sent'[r.partition]
  BY <1>1, <1>3
<1>8. From(sent', <<r>>)
  BY <1>7 DEF From, RangeOf
<1>9. InOrder(sent', shown, rows, batch, records)
  BY <1>1, <1>5, <1>7, FromGrows DEF OrderInv, InOrder
<1> HIDE DEF r
<1>10. InOrder(sent', shown, rows, batch, records')
  BY <1>1, <1>2, <1>4, <1>6, <1>8, <1>9, RowsMove
<1> QED BY <1>10 DEF OrderInv, uiVars

\* The commands hand the rows on in the order they take them.
LEMMA CommandsKeepOrder ==
  ASSUME TypeOK, TypeOK', PageTypeOK, BatchInv, OrderInv, AwaitCommand
  PROVE  OrderInv' /\ BatchInv'
<1> USE DEF partVars, chanVars, readerVars
<1> DEFINE rows == inbox.records
           r    == Head(records)
           rest == Tail(records)
<1>1. /\ shown \in Seq(Row) /\ rows \in Seq(Row) /\ batch \in Seq(Row) /\ records \in Seq(Row)
      /\ <<>> \in Seq(Row)
  BY DEF PageTypeOK, TypeOK, Row
<1>2. InOrder(sent, shown, rows, batch, records)
  BY DEF OrderInv
<1>3. records # <<>> => r \in Row /\ rest \in Seq(Row) /\ records = <<r>> \o rest
  BY <1>1
<1>4. /\ InOrder(sent, shown, <<>>, batch, records)
      /\ InOrder(sent, shown, batch, <<>>, records)
  BY <1>1, <1>2, RowsMove DEF Row
<1>0. AwaitStartBatch \/ AwaitCollect \/ AwaitCollectClosed
         => inbox.kind = "nothing" /\ inbox' = inbox
  BY DEF AwaitStartBatch, AwaitCollect, AwaitCollectClosed, BatchInv
<1>5. CASE AwaitFirstRecord
  <2>1. /\ records # <<>> /\ records' = rest /\ sent' = sent /\ shown' = shown
        /\ inbox'.records = <<r>> /\ batch = <<>> /\ batch' = <<>> /\ await' = "idle"
    BY <1>5 DEF AwaitFirstRecord, TakeRecord, Return, Message, pageState, BatchInv
  <2> HIDE DEF r, rest, rows
  <2>2. InOrder(sent, shown, rows, <<>>, <<r>> \o rest)
    BY <1>2, <1>3, <2>1
  <2>3. InOrder(sent, shown, <<r>>, <<>>, rest)
    BY <1>1, <1>3, <2>1, <2>2, RowsMove
  <2> QED BY <2>1, <2>3 DEF OrderInv, BatchInv
<1>6. CASE AwaitStartBatch
  <2>1. /\ records # <<>> /\ records' = rest /\ sent' = sent /\ shown' = shown
        /\ inbox' = inbox /\ batch = <<>> /\ batch' = <<r>> /\ await' = "batch"
    BY <1>6 DEF AwaitStartBatch, TakeRecord, pageState, BatchInv
  <2> HIDE DEF r, rest
  <2>2. batch' = batch \o <<r>>
    BY <2>1
  <2>3. InOrder(sent, shown, rows, batch, <<r>> \o rest)
    BY <1>2, <1>3, <2>1
  <2>4. InOrder(sent, shown, rows, batch \o <<r>>, rest)
    BY <1>1, <1>3, <2>1, <2>3, RowsMove
  <2> QED BY <1>0, <1>6, <2>1, <2>2, <2>4 DEF OrderInv, BatchInv
<1>7. CASE AwaitCollect
  <2>1. /\ records # <<>> /\ records' = rest /\ sent' = sent /\ shown' = shown
        /\ inbox' = inbox /\ batch' = Append(batch, r) /\ await' = "batch"
    BY <1>7 DEF AwaitCollect, TakeRecord, pageState
  <2> HIDE DEF r, rest
  <2>2. batch' = batch \o <<r>>
    BY <1>1, <1>3, <2>1
  <2>3. InOrder(sent, shown, rows, batch, <<r>> \o rest)
    BY <1>2, <1>3, <2>1
  <2>4. InOrder(sent, shown, rows, batch \o <<r>>, rest)
    BY <1>1, <1>3, <2>1, <2>3, RowsMove
  <2> QED BY <1>0, <1>7, <2>1, <2>2, <2>4 DEF OrderInv, BatchInv
<1>8. CASE AwaitCollectClosed
  <2>1. /\ records = <<>> /\ records' = <<>> /\ sent' = sent /\ shown' = shown
        /\ inbox' = inbox /\ batch' = Append(batch, ZeroRecord) /\ await' = "batch"
    BY <1>8 DEF AwaitCollectClosed, pageState
  <2>2. batch' = batch \o <<ZeroRecord>>
    BY <1>1, <2>1 DEF Row
  <2>3. InOrder(sent, shown, rows, batch \o <<ZeroRecord>>, <<>>)
    BY <1>1, <1>2, <2>1, RowsMove DEF Row
  <2> QED BY <1>0, <1>8, <2>1, <2>2, <2>3 DEF OrderInv, BatchInv
<1>9. CASE AwaitBatchTimeout
  <2>1. /\ UNCHANGED <<records, sent, shown>> /\ inbox'.records = batch
        /\ batch' = <<>> /\ await' = "idle"
    BY <1>9 DEF AwaitBatchTimeout, Return, Message, pageState, chanVars
  <2> QED BY <1>4, <2>1 DEF OrderInv, BatchInv
<1>10. CASE AwaitClosed \/ \E c \in Signals : AwaitSignal(c) \/ AwaitClosedSignal(c)
  <2>1. /\ UNCHANGED <<records, sent, shown, batch>> /\ inbox'.records = <<>>
        /\ await' = "idle" /\ await # "batch"
    BY <1>10 DEF AwaitClosed, AwaitSignal, AwaitClosedSignal, TakeSignal, Awaited,
       Return, Message, NoMessage, pageState, chanVars
  <2> QED BY <1>4, <2>1 DEF OrderInv, BatchInv
<1> QED
  BY <1>5, <1>6, <1>7, <1>8, <1>9, <1>10 DEF AwaitCommand

\* The page appends the rows of a message, or drops them.
LEMMA PageKeepsOrder ==
  ASSUME TypeOK, TypeOK', PageTypeOK, SentInv, BatchInv, OrderInv, [PageNext]_pageVars
  PROVE  OrderInv' /\ BatchInv'
<1> USE DEF partVars, chanVars, readerVars
<1> DEFINE rows == inbox.records
<1>1. /\ shown \in Seq(Row) /\ rows \in Seq(Row) /\ batch \in Seq(Row) /\ records \in Seq(Row)
      /\ ZeroRecord \in Row
  BY DEF PageTypeOK, TypeOK, Row
<1>2. /\ InOrder(sent, shown, rows, batch, records)
      /\ InOrder(sent, shown, <<>>, batch, records)
      /\ InOrder(sent, shown \o rows, <<>>, batch, records)
  BY <1>1, RowsMove DEF OrderInv
<1>3. CASE UNCHANGED <<sent, records, shown, inbox, batch, await>>
  BY <1>3 DEF OrderInv, BatchInv
<1>4. CASE Goroutines /\ UNCHANGED uiVars
  <2>1. CASE \E p \in Partitions : SendRecord(p)
    BY <1>4, <2>1, SendKeepsOrder DEF BatchInv, uiVars
  <2>2. CASE ~ \E p \in Partitions : SendRecord(p)
    <3>1. sent' = sent /\ records' = records
      BY <1>4, <2>2, OthersSendNothing
    <3> QED BY <1>3, <1>4, <3>1 DEF uiVars
  <2> QED BY <2>1, <2>2
<1>5. CASE UiLoop
  <2>1. UNCHANGED <<sent, records, batch>>
    BY <1>5 DEF UiLoop, UpdateStarted, UpdateRecords, UpdateVerdict, UpdateEnded,
       UpdateIgnored, DeliverPublished, Deliver
  <2>2. \/ shown' = shown /\ inbox' \in {inbox, NoMessage}
        \/ shown' = shown \o rows /\ inbox' = NoMessage
    BY <1>5 DEF UiLoop, UpdateStarted, UpdateRecords, UpdateVerdict, UpdateEnded,
       UpdateIgnored, DeliverPublished, Deliver
  <2>3. NoMessage.kind = "nothing" /\ NoMessage.records = <<>>
    BY DEF NoMessage, Message
  <2>4. OrderInv'
    BY <1>2, <2>1, <2>2, <2>3 DEF OrderInv
  <2>5. \/ inbox.kind # "nothing" /\ await' \in {await, "first", "next"} /\ inbox' = NoMessage
        \/ await' = await /\ inbox' \in {inbox, NoMessage}
    BY <1>5, <2>3 DEF UiLoop, UpdateStarted, UpdateRecords, UpdateVerdict, UpdateEnded,
       UpdateIgnored, DeliverPublished, Deliver
  <2> QED BY <2>1, <2>3, <2>4, <2>5 DEF BatchInv
<1>6. CASE Keys \/ UNCHANGED pageVars
  <2>1. UNCHANGED <<sent, records, shown, inbox, batch, await>>
    BY <1>6 DEF Keys, KeyEsc, KeyF2, KeyEnter, KeyEscDetails, pageVars, uiVars
  <2> QED BY <1>3, <2>1
<1>7. CASE (\E p \in Partitions, k \in Kinds : Produce(p, k)) /\ UNCHANGED uiVars
  BY <1>3, <1>7 DEF Produce, uiVars
<1> QED
  BY <1>4, <1>5, <1>6, <1>7, CommandsKeepOrder DEF PageNext

\* The invariant by which rows are in order.
OrderPInv == TypeOK /\ PhaseInv /\ PageTypeOK /\ SentInv /\ BatchInv /\ OrderInv

\* It holds at the start, when there is no row.
LEMMA PageOrderInit == PageInit => OrderPInv
<1> SUFFICES ASSUME PageInit PROVE OrderPInv
  OBVIOUS
<1>1. TypeOK /\ PhaseInv /\ SentInv /\ PageTypeOK
  BY InitTypeOK, InitPhase, InitSent, InitPageTypes DEF PageInit
<1>2. /\ shown = <<>> /\ inbox.records = <<>> /\ batch = <<>> /\ records = <<>>
      /\ await = "idle"
  BY DEF PageInit, Init, Message
<1> QED BY <1>1, <1>2, InOrderAlone DEF OrderPInv, BatchInv, OrderInv, InOrder

\* Every step keeps it.
LEMMA PageOrderNext == OrderPInv /\ [PageNext]_pageVars => OrderPInv'
<1>1. TypeOK => CancelType
  BY DEF TypeOK, CancelType
<1> QED
  BY <1>1, PageStepsAreReaderSteps, NextTypeOK, NextPhase, NextSent, PageKeepsTypes,
     PageKeepsOrder DEF OrderPInv

\* The rows of a partition are shown in the order of its offsets, through the
\* first record, the batches and the channel, though all partitions share these.
THEOREM RowsShownInOrder == PageSpec => []ShownInOrder
<1>1. OrderPInv => ShownInOrder
  <2> SUFFICES ASSUME OrderPInv PROVE ShownInOrder
    OBVIOUS
  <2> DEFINE a == shown
             b == inbox.records
             c == batch
             d == records
             ab == a \o b
             abc == ab \o c
  <2>1. a \in Seq(Row) /\ b \in Seq(Row) /\ c \in Seq(Row) /\ d \in Seq(Row)
    BY DEF OrderPInv, PageTypeOK, TypeOK, Row
  <2>2. InOrder(sent, a, b, c, d)
    BY DEF OrderPInv, OrderInv
  <2> HIDE DEF a, b, c, d
  <2>3. ab \in Seq(Row) /\ Ordered(ab) /\ Across(ab, c) /\ Across(ab, d)
    BY <2>1, <2>2, ConcatAt, OrderedBoth, ConcatBoth DEF InOrder
  <2> HIDE DEF ab
  <2>4. abc \in Seq(Row) /\ Ordered(abc) /\ Across(abc, d)
    BY <2>1, <2>2, <2>3, ConcatAt, OrderedBoth, ConcatBoth DEF InOrder
  <2> HIDE DEF abc
  <2>5. Ordered(abc \o d)
    BY <2>1, <2>2, <2>4, OrderedBoth DEF InOrder
  <2> QED BY <2>5 DEF ShownInOrder, Ordered, Before, abc, ab, a, b, c, d
<1> QED
  BY <1>1, PageOrderInit, PageOrderNext, PTL DEF PageSpec

-----------------------------------------------------------------------------
(* No row is lost                                                          *)

\* Only a message of records brings any.
MessageInv == inbox.kind # "records" => inbox.records = <<>>

\* The rows of a list of none.
LEMMA RangeOfNone == RangeOf(<<>>) = {}
  BY DEF RangeOf

\* The rows of a list of one.
LEMMA RangeOfOne == ASSUME NEW r PROVE RangeOf(<<r>>) = {r}
  BY DEF RangeOf

\* A message carries rows only if it says so.
LEMMA PageKeepsMessages ==
  ASSUME MessageInv, [PageNext]_pageVars PROVE MessageInv'
<1>1. CASE inbox' = inbox
  BY <1>1 DEF MessageInv
<1>2. CASE \E m \in {inbox'} : m.records = <<>> \/ m.kind = "records"
  BY <1>2 DEF MessageInv
<1>3. CASE AwaitCommand
  <2>1. \/ inbox' = inbox
        \/ inbox' = Message("records", <<Head(records)>>)
        \/ inbox' = Message("records", batch)
        \/ \E kind \in Signals \union {"ended", "nothing"} : inbox' = Message(kind, <<>>)
    BY <1>3 DEF AwaitCommand, AwaitFirstRecord, AwaitStartBatch, AwaitCollect,
       AwaitCollectClosed, AwaitBatchTimeout, AwaitClosed, AwaitSignal,
       AwaitClosedSignal, Return, NoMessage, pageState
  <2>2. inbox' = inbox \/ inbox'.records = <<>> \/ inbox'.kind = "records"
    BY <2>1 DEF Message
  <2> QED BY <1>1, <1>2, <2>2
<1>4. CASE UiLoop
  <2>1. inbox' \in {inbox, NoMessage}
    BY <1>4 DEF UiLoop, UpdateStarted, UpdateRecords, UpdateVerdict, UpdateEnded,
       UpdateIgnored, DeliverPublished, Deliver
  <2>2. NoMessage.records = <<>>
    BY DEF NoMessage, Message
  <2> QED BY <1>1, <1>2, <2>1, <2>2
<1>5. CASE Keys \/ UNCHANGED uiVars \/ UNCHANGED pageVars
  BY <1>1, <1>5 DEF Keys, KeyEsc, KeyF2, KeyEnter, KeyEscDetails, uiVars, pageVars
<1> QED BY <1>3, <1>4, <1>5 DEF PageNext

\* What a command takes from one place it puts into another.
LEMMA CommandsKeepRows ==
  ASSUME TypeOK, PageTypeOK, BatchInv, MessageInv, AwaitCommand PROVE InHand \subseteq InHand'
<1> USE DEF chanVars, readerVars, InHand
<1> DEFINE r    == Head(records)
           rest == Tail(records)
<1>1. batch \in Seq(Row) /\ <<ZeroRecord>> \in Seq(Row)
  BY DEF PageTypeOK, Row
<1>2. await # "idle" => RangeOf(inbox.records) = {}
  BY RangeOfNone DEF BatchInv, MessageInv
<1>3. records # <<>> => <<r>> \in Seq(Row) /\ RangeOf(records) = {r} \union RangeOf(rest)
  <2>1. records # <<>> => <<r>> \in Seq(Row) /\ rest \in Seq(Row) /\ records = <<r>> \o rest
    BY DEF TypeOK, Row
  <2> HIDE DEF r, rest
  <2> QED BY <2>1, ConcatRange, RangeOfOne
<1> HIDE DEF r, rest
<1>4. CASE AwaitFirstRecord
  <2>1. /\ records # <<>> /\ records' = rest /\ shown' = shown
        /\ inbox'.records = <<r>> /\ batch' = batch /\ await # "idle"
    BY <1>4 DEF AwaitFirstRecord, TakeRecord, Return, Message, pageState, r, rest
  <2> QED BY <1>2, <1>3, <2>1, RangeOfOne
<1>5. CASE AwaitStartBatch \/ AwaitCollect
  <2>1. /\ records # <<>> /\ records' = rest /\ shown' = shown /\ inbox' = inbox
        /\ batch' = batch \o <<r>>
    <3>1. CASE AwaitStartBatch
      <4>1. batch = <<>> /\ batch' = <<r>>
        BY <3>1 DEF AwaitStartBatch, BatchInv, r
      <4> QED BY <3>1, <4>1 DEF AwaitStartBatch, TakeRecord, pageState, rest
    <3>2. CASE AwaitCollect
      <4>1. batch' = Append(batch, r) /\ records # <<>>
        BY <3>2 DEF AwaitCollect, TakeRecord, r
      <4>2. batch' = batch \o <<r>>
        BY <1>1, <1>3, <4>1
      <4> QED BY <3>2, <4>1, <4>2 DEF AwaitCollect, TakeRecord, pageState, rest
    <3> QED BY <1>5, <3>1, <3>2
  <2>2. RangeOf(batch') = RangeOf(batch) \union {r}
    <3>1. RangeOf(batch \o <<r>>) = RangeOf(batch) \union RangeOf(<<r>>)
      BY <1>1, <1>3, <2>1, ConcatRange
    <3> QED BY <2>1, <3>1, RangeOfOne
  <2> QED BY <1>3, <2>1, <2>2
<1>6. CASE AwaitCollectClosed
  <2>1. UNCHANGED <<records, shown, inbox>> /\ batch' = Append(batch, ZeroRecord)
    BY <1>6 DEF AwaitCollectClosed, pageState
  <2>2. batch' = batch \o <<ZeroRecord>>
    BY <1>1, <2>1 DEF Row
  <2>3. RangeOf(batch) \subseteq RangeOf(batch')
    BY <1>1, <2>2, ConcatRange
  <2> QED BY <2>1, <2>3
<1>7. CASE AwaitBatchTimeout
  <2>1. UNCHANGED <<records, shown>> /\ inbox'.records = batch /\ await # "idle"
    BY <1>7 DEF AwaitBatchTimeout, Return, Message, pageState
  <2> QED BY <1>2, <2>1
<1>8. CASE AwaitClosed \/ \E c \in Signals : AwaitSignal(c) \/ AwaitClosedSignal(c)
  <2>1. UNCHANGED <<records, shown, batch>> /\ await # "idle"
    BY <1>8 DEF AwaitClosed, AwaitSignal, AwaitClosedSignal, TakeSignal, Awaited,
       Return, pageState
  <2> QED BY <1>2, <2>1
<1> QED
  BY <1>4, <1>5, <1>6, <1>7, <1>8 DEF AwaitCommand

\* While the page is displayed a record that was sent stays in the channel, the
\* batch, the message or the rows: no step of a command or of the page loses it.
THEOREM RecordsKept == PageSpec => PageKeepsRecords
<1> DEFINE PInv == OrderPInv /\ MessageInv
<1>1. PageInit => PInv
  <2>1. PageInit => inbox.kind = "started" /\ inbox.records = <<>>
    BY DEF PageInit, Message
  <2> QED BY <2>1, PageOrderInit DEF MessageInv
<1>2. PInv /\ [PageNext]_pageVars => PInv'
  BY PageOrderNext, PageKeepsMessages
<1>3. ASSUME PInv, [PageNext]_pageVars
      PROVE  [view = "records" => InHand \subseteq InHand']_pageVars
  <2> SUFFICES ASSUME view = "records" PROVE InHand \subseteq InHand'
    BY DEF pageVars
  <2> USE DEF chanVars, readerVars, InHand, OrderPInv
  <2>1. /\ shown \in Seq(Row) /\ inbox.records \in Seq(Row) /\ records \in Seq(Row)
    BY <1>3 DEF PageTypeOK, TypeOK, Row
  <2>2. CASE UNCHANGED <<records, shown, inbox, batch>>
    BY <2>2
  <2>3. CASE Goroutines /\ UNCHANGED uiVars
    <3>1. CASE \E p \in Partitions : SendRecord(p)
      <4>1. PICK r \in Row : records' = Append(records, r)
        <5>1. PICK p \in Partitions : SendRecord(p)
          BY <3>1
        <5>2. [partition |-> p, offset |-> Held(p)] \in Row
          <6>1. next[p] \in Int
            BY <1>3 DEF TypeOK
          <6> QED BY <6>1 DEF Held, Row, ChannelRecord
        <5> QED BY <5>1, <5>2 DEF SendRecord
      <4>2. records' = records \o <<r>> /\ <<r>> \in Seq(Row)
        BY <2>1, <4>1
      <4>3. RangeOf(records) \subseteq RangeOf(records')
        BY <2>1, <4>2, ConcatRange
      <4> QED BY <2>3, <4>3 DEF uiVars
    <3>2. CASE ~ \E p \in Partitions : SendRecord(p)
      BY <2>2, <2>3, <3>2, OthersSendNothing DEF uiVars
    <3> QED BY <3>1, <3>2
  <2>4. CASE UpdateRecords
    <3>1. UNCHANGED <<records, batch>> /\ shown' = shown \o inbox.records
      BY <2>4 DEF UpdateRecords, Deliver
    <3>2. RangeOf(shown') = RangeOf(shown) \union RangeOf(inbox.records)
      BY <2>1, <3>1, ConcatRange
    <3> QED BY <3>1, <3>2
  <2>5. CASE UpdateStarted \/ UpdateVerdict \/ UpdateEnded \/ UpdateIgnored
    <3>1. UNCHANGED <<records, batch, shown>> /\ inbox.kind # "records"
      BY <2>5 DEF UpdateStarted, UpdateVerdict, UpdateEnded, UpdateIgnored, Deliver
    <3>2. RangeOf(inbox.records) = {}
      BY <1>3, <3>1, RangeOfNone DEF MessageInv
    <3> QED BY <3>1, <3>2
  <2>6. CASE DeliverPublished \/ Keys \/ UNCHANGED pageVars
    BY <2>2, <2>6 DEF DeliverPublished, Keys, KeyEsc, KeyF2, KeyEnter, KeyEscDetails,
       pageVars, uiVars
  <2>7. CASE (\E p \in Partitions, k \in Kinds : Produce(p, k)) /\ UNCHANGED uiVars
    BY <2>2, <2>7 DEF Produce, uiVars
  <2> QED
    BY <1>3, <2>3, <2>4, <2>5, <2>6, <2>7, CommandsKeepRows DEF PageNext, UiLoop
<1> QED
  BY <1>1, <1>2, <1>3, PTL DEF PageSpec, PageKeepsRecords
=============================================================================
