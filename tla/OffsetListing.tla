---------------------------- MODULE OffsetListing ---------------------------
(***************************************************************************)
(* ListOffsets (kadmin/offset_lister.go): the committed offsets of a       *)
(* consumer group, each with the end of its partition and the lag, which   *)
(* one goroutine per partition asks for while the group and the producers  *)
(* go on.                                                                  *)
(***************************************************************************)
EXTENDS ListingParameters

VARIABLES
  end,       \* broker: the next offset of each partition
  committed, \* broker: the group's committed offset
  main,      \* where doListOffsets is
  listed,    \* the partitions of listResult.Blocks
  blocks,    \* their committed offsets when the list was made
  worker,    \* per partition: where its goroutine is
  hwm,       \* per partition: its goroutine's local hwm
  mutex,     \* who holds mu
  seen,      \* per partition: the slice its goroutine appends to
  offsets,   \* topicPartitionOffsets
  failed,    \* history: the listing request has failed
  answer,    \* the message AwaitCompletion returned
  delivered  \* the offsets of that message

brokerVars == <<end, committed>>
listVars   == <<listed, blocks>>
sliceVars  == <<mutex, seen, offsets>>
callVars   == <<failed, answer, delivered>>
vars       == <<brokerVars, main, listVars, worker, hwm, sliceVars, callVars>>

Init ==
  /\ end \in [Partitions -> 0 .. MaxEnd]
  /\ committed \in [Partitions -> 0 .. MaxEnd]
  /\ \A p \in Partitions : committed[p] <= end[p]
  /\ main = "idle"
  /\ listed = {}
  /\ blocks = [p \in Partitions |-> 0]
  /\ worker = [p \in Partitions |-> "off"]
  /\ hwm = [p \in Partitions |-> 0]
  /\ mutex = Nobody
  /\ seen = [p \in Partitions |-> {}]
  /\ offsets = {}
  /\ failed = FALSE
  /\ answer = "none"
  /\ delivered = {}

-----------------------------------------------------------------------------
(* The broker                                                              *)

Produce(p) ==
  /\ end[p] < MaxEnd
  /\ end' = [end EXCEPT ![p] = @ + 1]
  /\ UNCHANGED <<committed, main, listVars, worker, hwm, sliceVars, callVars>>

Commit(p) ==
  /\ committed[p] < end[p]
  /\ committed' = [committed EXCEPT ![p] = @ + 1]
  /\ UNCHANGED <<end, main, listVars, worker, hwm, sliceVars, callVars>>

-----------------------------------------------------------------------------
(* doListOffsets                                                           *)

ListOffsets ==
  /\ main = "idle"
  /\ main' = "listing"
  /\ UNCHANGED <<brokerVars, listVars, worker, hwm, sliceVars, callVars>>

\* ListConsumerGroupOffsets names the partitions with a committed offset; a
\* goroutine per partition starts.
StartWorkers ==
  /\ main = "listing"
  /\ main' = "waiting"
  /\ \E some \in SUBSET Partitions :
       /\ listed' = some
       /\ worker' = [p \in Partitions |-> IF p \in some THEN "asking" ELSE "off"]
  /\ blocks' = committed
  /\ UNCHANGED <<brokerVars, hwm, sliceVars, callVars>>

ListingFails ==
  /\ main = "listing"
  /\ main' = "reportErr"
  /\ failed' = TRUE
  /\ UNCHANGED <<brokerVars, listVars, worker, hwm, sliceVars, answer, delivered>>

Answered(message, result) ==
  /\ answer = "none"
  /\ answer' = message
  /\ delivered' = result

ReportError ==
  /\ main = "reportErr"
  /\ main' = "returned"
  /\ Answered("error", {})
  /\ UNCHANGED <<brokerVars, listVars, worker, hwm, sliceVars, failed>>

AwaitWorkers ==
  /\ main = "waiting"
  /\ \A p \in listed : worker[p] = "done"
  /\ main' = "delivering"
  /\ UNCHANGED <<brokerVars, listVars, worker, hwm, sliceVars, callVars>>

DeliverOffsets ==
  /\ main = "delivering"
  /\ main' = "returned"
  /\ Answered("done", offsets)
  /\ UNCHANGED <<brokerVars, listVars, worker, hwm, sliceVars, failed>>

-----------------------------------------------------------------------------
(* The goroutine of one partition                                          *)

\* GetOffset(t, p, sarama.OffsetNewest)
GetNewest(p) ==
  /\ worker[p] = "asking"
  /\ worker' = [worker EXCEPT ![p] = "locking"]
  /\ hwm' = [hwm EXCEPT ![p] = end[p]]
  /\ UNCHANGED <<brokerVars, main, listVars, sliceVars, callVars>>

\* An error does not fail the listing: hwm and lag become the error value.
GetNewestFails(p) ==
  /\ worker[p] = "asking"
  /\ worker' = [worker EXCEPT ![p] = "locking"]
  /\ hwm' = [hwm EXCEPT ![p] = ErrorValue]
  /\ UNCHANGED <<brokerVars, main, listVars, sliceVars, callVars>>

\* A bug: the slice is appended to without the lock.
ReadUnlocked(p) ==
  /\ worker[p] = "locking"
  /\ seen' = [seen EXCEPT ![p] = offsets]
  /\ worker' = [worker EXCEPT ![p] = "appending"]
  /\ UNCHANGED <<brokerVars, main, listVars, hwm, mutex, offsets, callVars>>

\* mu.Lock() and the reading half of the append.
LockOffsets(p) ==
  /\ worker[p] = "locking"
  /\ mutex = Nobody
  /\ mutex' = p
  /\ seen' = [seen EXCEPT ![p] = offsets]
  /\ worker' = [worker EXCEPT ![p] = "appending"]
  /\ UNCHANGED <<brokerVars, main, listVars, hwm, offsets, callVars>>

TopicPartitionOffset(p) ==
  [partition |-> p, offset |-> blocks[p], hwm |-> hwm[p],
   lag |-> IF hwm[p] = ErrorValue THEN ErrorValue ELSE hwm[p] - blocks[p]]

\* The writing half of the append and mu.Unlock().
AppendOffset(p) ==
  /\ worker[p] = "appending"
  /\ offsets' = seen[p] \union {TopicPartitionOffset(p)}
  /\ mutex' = Nobody
  /\ worker' = [worker EXCEPT ![p] = "done"]
  /\ UNCHANGED <<brokerVars, main, listVars, hwm, seen, callVars>>

-----------------------------------------------------------------------------
Main == StartWorkers \/ ListingFails \/ ReportError \/ AwaitWorkers \/ DeliverOffsets

Worker(p) == \/ GetNewest(p) \/ GetNewestFails(p)
             \/ LockOffsets(p) \/ AppendOffset(p)

Goroutines == Main \/ \E p \in Partitions : Worker(p)

Broker == \E p \in Partitions : Produce(p) \/ Commit(p)

Next == ListOffsets \/ Goroutines \/ Broker

Spec == Init /\ [][Next]_vars

Fairness == WF_vars(Main) /\ \A p \in Partitions : WF_vars(Worker(p))

-----------------------------------------------------------------------------
(* Properties                                                              *)

Offset == [partition : Partitions, offset : Nat,
           hwm : Nat \union {ErrorValue}, lag : Int]

TypeOK ==
  /\ end \in [Partitions -> Nat]
  /\ committed \in [Partitions -> Nat]
  /\ main \in {"idle", "listing", "reportErr", "waiting", "delivering", "returned"}
  /\ listed \subseteq Partitions
  /\ blocks \in [Partitions -> Nat]
  /\ worker \in [Partitions -> {"off", "asking", "locking", "appending", "done"}]
  /\ hwm \in [Partitions -> Nat \union {ErrorValue}]
  /\ mutex \in Partitions \union {Nobody}
  /\ seen \in [Partitions -> SUBSET Offset]
  /\ offsets \subseteq Offset
  /\ failed \in BOOLEAN
  /\ answer \in {"none", "error", "done"}
  /\ delivered \subseteq Offset

\* A listing that is delivered has exactly one entry for every partition the
\* group has committed, and its lag is unknown or counts records there are:
\* it is never negative although the group commits between the two requests,
\* because the end is asked for after the committed offsets.
LagsTruthful ==
  answer = "done" =>
    /\ {o.partition : o \in delivered} = listed
    /\ \A o, q \in delivered : o.partition = q.partition => o = q
    /\ \A o \in delivered :
         o.lag # ErrorValue => 0 <= o.lag /\ o.offset + o.lag <= end[o.partition]

\* The listing implements the contract of a call; an end that could not be
\* read is no failure of the call.
Contract == INSTANCE AdminCall WITH called <- main # "idle"
=============================================================================
