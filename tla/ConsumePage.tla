---------------------------- MODULE ConsumePage -----------------------------
(***************************************************************************)
(* The page showing the records of one read (ui/pages/consume_page), on    *)
(* top of the goroutines of RecordReader. Between them is a chain of       *)
(* commands: the page starts AwaitRecord, then one AwaitNextRecord per     *)
(* message it receives, each running in a goroutine of its own and handing *)
(* its message back to the UI loop.                                        *)
(***************************************************************************)
EXTENDS RecordReader

CONSTANT MaxBatch  \* bound: the records one AwaitNextRecord call collects

\* What a receive from the closed ConsumerRecord channel yields: the zero
\* value, which the table shows as <null>, partition 0, offset 0.
CONSTANT ZeroRecord
ASSUME ZeroRecordAssumption == ZeroRecord \notin ChannelRecord

VARIABLES
  await,      \* the running command: none, AwaitRecord, AwaitNextRecord, its loop
  batch,      \* the records its loop has collected
  inbox,      \* the message on its way to the UI loop
  published,  \* the ConsumptionEndedMsg that F2 publishes is on its way
  view,       \* the page the topics tab shows: this one, a record's, another
  consuming,  \* Model.consuming
  shown,      \* Model.records
  flagged     \* which of noRecordsAvailable, noRecordsFound are set

uiVars   == <<await, batch, inbox, published, view, consuming, shown, flagged>>
pageVars == <<readerVars, uiVars>>

Message(kind, recs) == [kind |-> kind, records |-> recs]
NoMessage == Message("nothing", <<>>)

PageInit ==
  /\ Init
  /\ await = "idle"
  /\ batch = <<>>
  /\ inbox = Message("started", <<>>)
  /\ published = FALSE
  /\ view = "records"
  /\ consuming = FALSE
  /\ shown = <<>>
  /\ flagged = {}

-----------------------------------------------------------------------------
(* AwaitRecord and AwaitNextRecord                                         *)

pageState == <<published, view, consuming, shown, flagged>>

Return(m) == /\ inbox' = m
             /\ await' = "idle"
             /\ UNCHANGED pageState

\* The first record is handed over at once.
AwaitFirstRecord ==
  /\ await = "first"
  /\ TakeRecord
  /\ Return(Message("records", <<Head(records)>>))
  /\ UNCHANGED batch

\* A bug: the record that starts the loop is not part of its batch.
AwaitStartEmptyBatch ==
  /\ await = "next"
  /\ TakeRecord
  /\ batch' = <<>>
  /\ await' = "batch"
  /\ UNCHANGED <<inbox, pageState>>

\* Any later one starts the loop that collects for 50 ms.
AwaitStartBatch ==
  /\ await = "next"
  /\ TakeRecord
  /\ batch' = <<Head(records)>>
  /\ await' = "batch"
  /\ UNCHANGED <<inbox, pageState>>

AwaitCollect ==
  /\ await = "batch"
  /\ TakeRecord
  /\ batch' = Append(batch, Head(records))
  /\ UNCHANGED <<await, inbox, pageState>>

\* The loop does not look whether the channel has been closed.
AwaitCollectClosed ==
  /\ await = "batch"
  /\ records = <<>> /\ "records" \in closed
  /\ Len(batch) < MaxBatch
  /\ batch' = Append(batch, ZeroRecord)
  /\ UNCHANGED <<await, inbox, pageState, readerVars>>

AwaitBatchTimeout ==
  /\ await = "batch"
  /\ Return(Message("records", batch))
  /\ batch' = <<>>
  /\ UNCHANGED readerVars

AwaitClosed ==
  /\ await \in {"first", "next"}
  /\ records = <<>> /\ "records" \in closed
  /\ Return(Message("ended", <<>>))
  /\ UNCHANGED <<batch, readerVars>>

\* AwaitNextRecord does not listen to NoRecordsFound.
Awaited == CASE await = "first" -> Signals
             [] await = "next"  -> {"err", "empty"}
             [] OTHER           -> {}

AwaitSignal(c) ==
  /\ c \in Awaited
  /\ TakeSignal(c)
  /\ Return(Message(c, <<>>))
  /\ UNCHANGED batch

\* A closed signal channel yields false or nil: the message is nil.
AwaitClosedSignal(c) ==
  /\ c \in Awaited
  /\ c \in closed /\ c \notin full
  /\ Return(NoMessage)
  /\ UNCHANGED <<batch, readerVars>>

-----------------------------------------------------------------------------
(* Model.Update. Any other page ignores the messages of this read.         *)

Deliver == /\ inbox # NoMessage
           /\ inbox' = NoMessage
           /\ UNCHANGED <<readerVars, batch, published, view>>

UpdateStarted ==
  /\ view = "records"
  /\ inbox.kind = "started"
  /\ Deliver
  /\ consuming' = TRUE
  /\ await' = "first"
  /\ UNCHANGED <<shown, flagged>>

\* A bug: the batch is put in front of the records shown.
UpdateRecordsFront ==
  /\ view = "records"
  /\ inbox.kind = "records"
  /\ Deliver
  /\ shown' = inbox.records \o shown
  /\ await' = "next"
  /\ UNCHANGED <<consuming, flagged>>

UpdateRecords ==
  /\ view = "records"
  /\ inbox.kind = "records"
  /\ Deliver
  /\ shown' = shown \o inbox.records
  /\ await' = "next"
  /\ UNCHANGED <<consuming, flagged>>

UpdateVerdict ==
  /\ view = "records"
  /\ inbox.kind \in {"empty", "none"}
  /\ Deliver
  /\ flagged' = flagged \union {inbox.kind}
  /\ consuming' = FALSE
  /\ UNCHANGED <<await, shown>>

UpdateEnded ==
  /\ view = "records"
  /\ inbox.kind = "ended"
  /\ Deliver
  /\ consuming' = FALSE
  /\ UNCHANGED <<await, shown, flagged>>

\* The page has no case for an error.
UpdateIgnored ==
  /\ view # "records" \/ inbox.kind = "err"
  /\ Deliver
  /\ UNCHANGED <<await, consuming, shown, flagged>>

DeliverPublished ==
  /\ published
  /\ published' = FALSE
  /\ consuming' = IF view = "records" THEN FALSE ELSE consuming
  /\ UNCHANGED <<readerVars, await, batch, inbox, view, shown, flagged>>

-----------------------------------------------------------------------------
(* The keys                                                                *)

\* A bug: leaving the page closes the channel the goroutines send on.
KeyEscCloses ==
  /\ view = "records"
  /\ cancelled' = TRUE
  /\ closed' = closed \union {"records"}
  /\ view' = "left"
  /\ UNCHANGED <<brokerVars, fetchVars, mainVars, partVars, records, full,
                 await, batch, inbox, published, consuming, shown, flagged>>

KeyEsc ==
  /\ view = "records"
  /\ cancelled' = TRUE
  /\ view' = "left"
  /\ UNCHANGED <<brokerVars, fetchVars, mainVars, partVars, chanVars,
                 await, batch, inbox, published, consuming, shown, flagged>>

KeyF2 ==
  /\ view = "records"
  /\ cancelled' = TRUE
  /\ consuming' = FALSE
  /\ published' = TRUE
  /\ UNCHANGED <<brokerVars, fetchVars, mainVars, partVars, chanVars,
                 await, batch, inbox, view, shown, flagged>>

\* Opens the selected record; the read is not cancelled.
KeyEnter ==
  /\ view = "records"
  /\ shown # <<>>
  /\ view' = "details"
  /\ consuming' = FALSE
  /\ UNCHANGED <<readerVars, await, batch, inbox, published, shown, flagged>>

\* LoadCachedConsumptionPageMsg: the tab shows this page again as it is.
KeyEscDetails ==
  /\ view = "details"
  /\ view' = "records"
  /\ UNCHANGED <<readerVars, await, batch, inbox, published, consuming, shown,
                 flagged>>

-----------------------------------------------------------------------------
AwaitCommand ==
  \/ AwaitFirstRecord \/ AwaitStartBatch \/ AwaitCollect \/ AwaitCollectClosed
  \/ AwaitBatchTimeout \/ AwaitClosed
  \/ \E c \in Signals : AwaitSignal(c) \/ AwaitClosedSignal(c)

UiLoop == \/ UpdateStarted \/ UpdateRecords \/ UpdateVerdict \/ UpdateEnded
          \/ UpdateIgnored \/ DeliverPublished

Keys == KeyEsc \/ KeyF2 \/ KeyEnter \/ KeyEscDetails

PageNext ==
  \/ Goroutines /\ UNCHANGED uiVars
  \/ (\E p \in Partitions, k \in Kinds : Produce(p, k)) /\ UNCHANGED uiVars
  \/ AwaitCommand
  \/ UiLoop
  \/ Keys

PageSpec == PageInit /\ [][PageNext]_pageVars

\* The Go scheduler runs the goroutines of the read and of the commands, the
\* timer of the batch loop fires, and bubbletea delivers every message.
PageFairSpec ==
  /\ PageSpec
  /\ WF_pageVars(Main /\ UNCHANGED uiVars)
  /\ \A p \in Partitions : /\ WF_pageVars(Fetcher(p) /\ UNCHANGED uiVars)
                           /\ WF_pageVars(PartitionReader(p) /\ UNCHANGED uiVars)
  /\ WF_pageVars(AwaitCommand)
  /\ WF_pageVars(AwaitBatchTimeout)
  /\ WF_pageVars(UiLoop)

-----------------------------------------------------------------------------
(* Properties                                                              *)

PageTypeOK ==
  /\ await \in {"idle", "first", "next", "batch"}
  /\ batch \in Seq(ChannelRecord \union {ZeroRecord})
  /\ inbox.kind \in Signals \union {"nothing", "started", "records", "ended"}
  /\ inbox.records \in Seq(ChannelRecord \union {ZeroRecord})
  /\ published \in BOOLEAN
  /\ view \in {"records", "details", "left"}
  /\ consuming \in BOOLEAN
  /\ shown \in Seq(ChannelRecord \union {ZeroRecord})
  /\ flagged \subseteq {"empty", "none"}

\* Whatever the page and its commands do to the channels is something the
\* reader expects of an awaiter: the page uses the reader as specified, so
\* what holds of every RecordReader behaviour holds under this page.
ReaderSpec == Spec

RangeOf(s) == {s[i] : i \in DOMAIN s}

InHand == RangeOf(shown) \union RangeOf(inbox.records) \union RangeOf(batch)
           \union RangeOf(records)

\* While the page is displayed no record already sent is lost on its way
\* from the channel through the batch and the message to the page.
PageKeepsRecords == [][view = "records" => InHand \subseteq InHand']_pageVars

\* The page never tells "Empty topic" or "No records found" of a read that
\* sends records, nor both of the same read.
VerdictExclusive ==
  /\ flagged # {} => shown = <<>> /\ \A p \in Partitions : sent[p] = {}
  /\ flagged # {"empty", "none"}

\* The rows of one partition are appended in the order of its offsets, over
\* the first record, the batches and the channel.
ShownInOrder ==
  LET all == shown \o inbox.records \o batch \o records
  IN  \A i, j \in DOMAIN all :
        /\ i < j
        /\ all[i] # ZeroRecord /\ all[j] # ZeroRecord
        /\ all[i].partition = all[j].partition
        => all[i].offset < all[j].offset

\* Once the read is cancelled the command that awaits it returns: neither
\* path through doReadRecords leaves it blocked on a channel for ever.
AwaitReturns == cancelled ~> await = "idle"
=============================================================================
