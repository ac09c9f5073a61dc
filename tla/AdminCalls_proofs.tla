-------------------------- MODULE AdminCalls_proofs --------------------------
(***************************************************************************)
(* For every cluster and registry, and whatever the goroutines interleave: *)
(* a listing tells what is there, and every call of an admin client is     *)
(* answered at most once and truthfully.                                   *)
(***************************************************************************)
EXTENDS MCAdminCalls, FiniteSetTheorems, TLAPS

-----------------------------------------------------------------------------
(* The inductive invariant                                                 *)

\* The goroutines of a topic exist exactly for the topics found, and the one
\* that describes the topic only runs while the other awaits it.
RowsOfFound ==
  \A t \in Topics : /\ t \in tFound => tRow[t] # "off"
                    /\ t \notin tFound => tRow[t] = "off" /\ tConfig[t] = "off"
                    /\ tConfig[t] \in {"describing", "sendErr", "sendConfigs"}
                         => tRow[t] = "awaiting"

\* The holder of the mutex is the goroutine that appends, and what it appends
\* to is still what the slice holds.
RowsMutex ==
  /\ \A t \in Topics : tRow[t] = "appending" <=> tMutex = t
  /\ \A t \in Topics : tRow[t] = "appending" => tSeen[t] = tTopics

\* Until an error has been received every finished goroutine has its row.
RowsCollected ==
  tAnswer # "error" => \A t \in Topics : t \in tTopics <=> tRow[t] = "done"

\* A failure that has not been received is still on its way.
TopicsFailure ==
  tFailed /\ tAnswer # "error" =>
    \/ tMain = "reportErr"
    \/ \E t \in tFound : \/ tRow[t] = "awaiting" /\ tConfig[t] = "sendErr"
                         \/ tRow[t] = "reportErr"

\* What each place of doListTopics and each answer implies.
TopicsPhase ==
  /\ tMain \in {"idle", "listing", "reportErr"} => tFound = {}
  /\ tMain \in {"delivering", "returned"} => \A t \in tFound : tRow[t] = "done"
  /\ tMain \in {"idle", "listing"} => ~tFailed /\ tAnswer = "none"
  /\ tMain = "reportErr" => tFailed
  /\ tMain = "returned" => tAnswer # "none"
  /\ \A t \in Topics : tConfig[t] = "sendErr" \/ tRow[t] = "reportErr" => tFailed
  /\ tAnswer = "error" => tFailed
  /\ tAnswer = "done" => tMain = "returned" /\ tDelivered = tFound /\ ~tFailed

TopicsInv ==
  /\ ListTopics!TypeOK /\ RowsOfFound /\ RowsMutex /\ RowsCollected
  /\ TopicsFailure /\ TopicsPhase

LEMMA TopicsInit == ListTopics!Init => TopicsInv
  BY NobodyAssumption
  DEF ListTopics!Init, TopicsInv, ListTopics!TypeOK, RowsOfFound, RowsMutex,
      RowsCollected, TopicsFailure, TopicsPhase

LEMMA TopicsMain ==
  TopicsInv /\ (ListTopics!ListTopics \/ ListTopics!Main) => TopicsInv'
<1> SUFFICES ASSUME TopicsInv, ListTopics!ListTopics \/ ListTopics!Main PROVE TopicsInv'
  OBVIOUS
<1> USE NobodyAssumption DEF TopicsInv, ListTopics!TypeOK, RowsOfFound, RowsMutex,
        RowsCollected, TopicsFailure, TopicsPhase, ListTopics!rowVars,
        ListTopics!callVars, ListTopics!Answered
<1>1. CASE ListTopics!ListTopics
  BY <1>1 DEF ListTopics!ListTopics
<1>2. CASE ListTopics!StartRows
  <2>1. ListTopics!TypeOK'
    BY <1>2 DEF ListTopics!StartRows
  <2>2. PICK some \in SUBSET Topics :
          /\ tFound' = some
          /\ tRow' = [t \in Topics |-> IF t \in some THEN "awaiting" ELSE "off"]
          /\ tConfig' = [t \in Topics |-> IF t \in some THEN "describing" ELSE "off"]
    BY <1>2 DEF ListTopics!StartRows
  <2>3. tTopics = {} /\ tMutex = Nobody
    BY <1>2 DEF ListTopics!StartRows
  <2>4. RowsOfFound' /\ RowsMutex' /\ RowsCollected' /\ TopicsFailure' /\ TopicsPhase'
    BY <1>2, <2>2, <2>3 DEF ListTopics!StartRows
  <2> QED BY <2>1, <2>4
<1>3. CASE ListTopics!ListingFails
  BY <1>3 DEF ListTopics!ListingFails
<1>4. CASE ListTopics!ReportListingError
  BY <1>4 DEF ListTopics!ReportListingError
<1>5. CASE ListTopics!AwaitRows
  BY <1>5 DEF ListTopics!AwaitRows
<1>6. CASE ListTopics!DeliverTopics
  <2>1. tTopics = tFound
    BY <1>6 DEF ListTopics!DeliverTopics
  <2>2. ~tFailed
    BY <1>6 DEF ListTopics!DeliverTopics
  <2> QED BY <1>6, <2>1, <2>2 DEF ListTopics!DeliverTopics
<1> QED BY <1>1, <1>2, <1>3, <1>4, <1>5, <1>6 DEF ListTopics!Main

LEMMA TopicsConfig ==
  ASSUME NEW t \in Topics, TopicsInv, ListTopics!Config(t) PROVE TopicsInv'
<1> USE NobodyAssumption DEF TopicsInv, ListTopics!TypeOK, RowsOfFound, RowsMutex,
        RowsCollected, TopicsFailure, TopicsPhase, ListTopics!rowVars,
        ListTopics!callVars
<1>1. CASE ListTopics!DescribeConfig(t)
  BY <1>1 DEF ListTopics!DescribeConfig
<1>2. CASE ListTopics!DescribeConfigFails(t)
  BY <1>2 DEF ListTopics!DescribeConfigFails
<1> QED BY <1>1, <1>2 DEF ListTopics!Config

LEMMA TopicsRow ==
  ASSUME NEW t \in Topics, TopicsInv, ListTopics!Row(t) PROVE TopicsInv'
<1> USE NobodyAssumption DEF TopicsInv, ListTopics!TypeOK, RowsOfFound, RowsMutex,
        RowsCollected, TopicsFailure, TopicsPhase, ListTopics!callVars,
        ListTopics!Answered
<1>1. CASE ListTopics!ConfigsListed(t)
  BY <1>1 DEF ListTopics!ConfigsListed
<1>2. CASE ListTopics!ConfigListingError(t)
  BY <1>2 DEF ListTopics!ConfigListingError
<1>3. CASE ListTopics!ReportConfigError(t)
  BY <1>3 DEF ListTopics!ReportConfigError
<1>4. CASE ListTopics!LockRows(t)
  BY <1>4 DEF ListTopics!LockRows
<1>5. CASE ListTopics!AppendRow(t)
  BY <1>5 DEF ListTopics!AppendRow
<1> QED BY <1>1, <1>2, <1>3, <1>4, <1>5 DEF ListTopics!Row

LEMMA TopicsStep == TopicsInv /\ [ListTopics!Next]_(ListTopics!vars) => TopicsInv'
<1> SUFFICES ASSUME TopicsInv, [ListTopics!Next]_(ListTopics!vars) PROVE TopicsInv'
  OBVIOUS
<1>1. CASE ListTopics!ListTopics \/ ListTopics!Main
  BY <1>1, TopicsMain
<1>2. CASE \E t \in Topics : ListTopics!Config(t) \/ ListTopics!Row(t)
  BY <1>2, TopicsConfig, TopicsRow
<1>3. CASE UNCHANGED ListTopics!vars
  BY <1>3
  DEF ListTopics!vars, ListTopics!rowVars, ListTopics!callVars, TopicsInv,
      ListTopics!TypeOK, RowsOfFound, RowsMutex, RowsCollected, TopicsFailure,
      TopicsPhase
<1> QED BY <1>1, <1>2, <1>3 DEF ListTopics!Next, ListTopics!Goroutines

LEMMA TopicsInductive == ListTopics!Spec => []TopicsInv
  BY TopicsInit, TopicsStep, PTL DEF ListTopics!Spec

-----------------------------------------------------------------------------
\* What is delivered is all that was found.
LEMMA TopicsComplete == ListTopics!Spec => []ListTopics!ListingComplete
<1>1. TopicsInv => ListTopics!ListingComplete
  BY DEF TopicsInv, TopicsPhase, ListTopics!ListingComplete
<1> QED BY <1>1, TopicsInductive, PTL

\* A step of the listing is a step of the call it implements, or none at all.
LEMMA TopicsCallStep ==
  TopicsInv /\ [ListTopics!Next]_(ListTopics!vars)
    => [ListTopics!Contract!Next]_(ListTopics!Contract!callVars)
<1> SUFFICES ASSUME TopicsInv, [ListTopics!Next]_(ListTopics!vars)
             PROVE [ListTopics!Contract!Next]_(ListTopics!Contract!callVars)
  OBVIOUS
<1> USE DEF TopicsInv, ListTopics!TypeOK, ListTopics!Contract!callVars,
        ListTopics!Contract!Next, ListTopics!Contract!Call,
        ListTopics!Contract!RequestFails, ListTopics!Contract!Answer
<1>1. CASE ListTopics!ListTopics
  BY <1>1 DEF ListTopics!ListTopics, ListTopics!callVars
<1>2. CASE ListTopics!StartRows \/ ListTopics!AwaitRows
  BY <1>2 DEF ListTopics!StartRows, ListTopics!AwaitRows, ListTopics!callVars
<1>3. CASE ListTopics!ListingFails
  BY <1>3 DEF ListTopics!ListingFails, TopicsPhase
<1>4. CASE ListTopics!ReportListingError
  BY <1>4 DEF ListTopics!ReportListingError, ListTopics!Answered, TopicsPhase
<1>5. CASE ListTopics!DeliverTopics
  <2>1. ~tFailed
    BY <1>5
    DEF ListTopics!DeliverTopics, ListTopics!Answered, TopicsFailure, TopicsPhase
  <2> QED BY <1>5, <2>1 DEF ListTopics!DeliverTopics, ListTopics!Answered
<1>6. ASSUME NEW t \in Topics, ListTopics!Config(t)
      PROVE [ListTopics!Contract!Next]_(ListTopics!Contract!callVars)
  <2>1. CASE ListTopics!DescribeConfig(t)
    BY <2>1 DEF ListTopics!DescribeConfig, ListTopics!callVars
  <2>2. CASE ListTopics!DescribeConfigFails(t)
    <3>1. tRow[t] = "awaiting" /\ t \in tFound
      BY <2>2 DEF ListTopics!DescribeConfigFails, RowsOfFound
    <3>2. tMain \notin {"idle", "delivering", "returned"}
      BY <3>1 DEF TopicsPhase
    <3>3. tAnswer # "done" /\ (tAnswer = "error" => tFailed)
      BY <3>2 DEF TopicsPhase
    <3> QED BY <2>2, <3>2, <3>3 DEF ListTopics!DescribeConfigFails
  <2> QED BY <1>6, <2>1, <2>2 DEF ListTopics!Config
<1>7. ASSUME NEW t \in Topics, ListTopics!Row(t)
      PROVE [ListTopics!Contract!Next]_(ListTopics!Contract!callVars)
  <2>1. CASE ListTopics!ReportConfigError(t)
    <3>1. t \in tFound /\ tFailed
      BY <2>1 DEF ListTopics!ReportConfigError, RowsOfFound, TopicsPhase
    <3> QED BY <2>1, <3>1
        DEF ListTopics!ReportConfigError, ListTopics!Answered, TopicsPhase
  <2>2. CASE \/ ListTopics!ConfigsListed(t) \/ ListTopics!ConfigListingError(t)
             \/ ListTopics!LockRows(t) \/ ListTopics!AppendRow(t)
    BY <2>2
    DEF ListTopics!ConfigsListed, ListTopics!ConfigListingError, ListTopics!LockRows,
        ListTopics!AppendRow, ListTopics!callVars
  <2> QED BY <1>7, <2>1, <2>2 DEF ListTopics!Row
<1>8. CASE UNCHANGED ListTopics!vars
  BY <1>8 DEF ListTopics!vars, ListTopics!callVars
<1> QED
  BY <1>1, <1>2, <1>3, <1>4, <1>5, <1>6, <1>7, <1>8
  DEF ListTopics!Next, ListTopics!Goroutines, ListTopics!Main

\* Listing the topics tells its caller an error only if a request failed, and
\* topics only if none did, and answers at most once.
THEOREM TopicListingTruthful == ListTopics!Spec => ListTopics!Contract!Safety
<1>1. ListTopics!Init => ListTopics!Contract!Init
  BY DEF ListTopics!Init, ListTopics!Contract!Init
<1> QED
  BY <1>1, TopicsInductive, TopicsCallStep, PTL
  DEF ListTopics!Spec, ListTopics!Contract!Safety
-----------------------------------------------------------------------------
(* The inductive invariant                                                 *)

\* A goroutine runs exactly for the partitions listed.
WorkersOfListed == \A p \in Partitions : p \in oListed <=> oWorker[p] # "off"

\* The committed offsets listed are in the past of the group, those of the
\* group in the log, and an end asked for is between them and the end now.
OffsetsOrdered ==
  \A p \in Partitions :
    /\ oCommitted[p] <= oEnd[p]
    /\ oWorker[p] # "off" => oBlocks[p] <= oCommitted[p]
    /\ oWorker[p] \in {"locking", "appending", "done"} /\ oHwm[p] # ErrorValue
         => oBlocks[p] <= oHwm[p] /\ oHwm[p] <= oEnd[p]

\* The holder of the mutex is the goroutine that appends, and what it appends
\* to is still what the slice holds.
OffsetsMutex ==
  /\ \A p \in Partitions : oWorker[p] = "appending" <=> oMutex = p
  /\ \A p \in Partitions : oWorker[p] = "appending" => oSeen[p] = oOffsets

\* The entry of every finished goroutine is in the slice, and nothing else.
Entry(p) == ListOffsets!TopicPartitionOffset(p)
EntriesCollected ==
  /\ \A p \in Partitions : oWorker[p] = "done" => Entry(p) \in oOffsets
  /\ \A o \in oOffsets : o.partition \in Partitions /\ oWorker[o.partition] = "done"
                        /\ o = Entry(o.partition)

\* What each place of doListOffsets and each answer implies.
OffsetsPhase ==
  /\ oMain \in {"idle", "listing", "reportErr"} => oListed = {}
  /\ oMain \in {"idle", "listing"} => ~oFailed
  /\ oMain = "reportErr" => oFailed
  /\ oMain \in {"delivering", "returned"} => \A p \in oListed : oWorker[p] = "done"
  /\ oMain \in {"waiting", "delivering"} => ~oFailed
  /\ oMain # "returned" <=> oAnswer = "none"
  /\ oAnswer = "error" => oFailed
  /\ oAnswer = "done" => oDelivered = oOffsets /\ ~oFailed

OffsetsInv == /\ ListOffsets!TypeOK /\ WorkersOfListed /\ OffsetsOrdered /\ OffsetsMutex
              /\ EntriesCollected /\ OffsetsPhase

LEMMA OffsetsInit == ListOffsets!Init => OffsetsInv
<1> SUFFICES ASSUME ListOffsets!Init PROVE OffsetsInv
  OBVIOUS
<1>1. ListOffsets!TypeOK
  <2>1. oEnd \in [Partitions -> Nat] /\ oCommitted \in [Partitions -> Nat]
    BY MaxEndAssumption DEF ListOffsets!Init
  <2>2. oSeen \in [Partitions -> SUBSET ListOffsets!Offset] /\ oOffsets \subseteq ListOffsets!Offset
    BY DEF ListOffsets!Init
  <2> QED BY <2>1, <2>2 DEF ListOffsets!Init, ListOffsets!TypeOK
<1>2. WorkersOfListed /\ OffsetsOrdered /\ OffsetsMutex /\ EntriesCollected /\ OffsetsPhase
  BY NobodyAssumption
  DEF ListOffsets!Init, WorkersOfListed, OffsetsOrdered, OffsetsMutex,
      EntriesCollected, OffsetsPhase
<1> QED BY <1>1, <1>2 DEF OffsetsInv

\* Entries only depend on what their goroutine no longer changes.
LEMMA EntriesStay ==
  ASSUME OffsetsInv, oOffsets' = oOffsets,
         \A p \in Partitions : oWorker[p] = "done" <=> oWorker'[p] = "done",
         \A p \in Partitions : oWorker[p] = "done" =>
            oHwm'[p] = oHwm[p] /\ oBlocks'[p] = oBlocks[p]
  PROVE  EntriesCollected'
<1>1. \A p \in Partitions : oWorker[p] = "done" => Entry(p)' = Entry(p)
  BY DEF Entry, ListOffsets!TopicPartitionOffset
<1> QED BY <1>1 DEF OffsetsInv, EntriesCollected

LEMMA OffsetsBroker ==
  ASSUME NEW p \in Partitions, OffsetsInv, ListOffsets!Produce(p) \/ ListOffsets!Commit(p)
  PROVE OffsetsInv'
<1> USE DEF OffsetsInv, ListOffsets!brokerVars, ListOffsets!listVars,
        ListOffsets!sliceVars, ListOffsets!callVars
<1>1. ListOffsets!TypeOK'
  BY DEF ListOffsets!Produce, ListOffsets!Commit, ListOffsets!TypeOK
<1>2. OffsetsOrdered'
  BY ErrorValueAssumption, MaxEndAssumption
  DEF ListOffsets!Produce, ListOffsets!Commit, ListOffsets!TypeOK, OffsetsOrdered
<1>3. EntriesCollected'
  BY EntriesStay DEF ListOffsets!Produce, ListOffsets!Commit
<1>4. WorkersOfListed' /\ OffsetsMutex' /\ OffsetsPhase'
  BY
  DEF ListOffsets!Produce, ListOffsets!Commit, WorkersOfListed, OffsetsMutex,
      OffsetsPhase
<1> QED BY <1>1, <1>2, <1>3, <1>4

LEMMA OffsetsMain ==
  ASSUME OffsetsInv, ListOffsets!ListOffsets \/ ListOffsets!Main PROVE OffsetsInv'
<1> USE DEF OffsetsInv, ListOffsets!brokerVars, ListOffsets!listVars,
        ListOffsets!sliceVars, ListOffsets!callVars, ListOffsets!Answered
<1>1. CASE ListOffsets!StartWorkers
  <2>1. oListed = {} /\ \A p \in Partitions : oWorker[p] = "off"
    BY <1>1 DEF ListOffsets!StartWorkers, OffsetsPhase, WorkersOfListed
  <2>2. oOffsets = {} /\ oMutex = Nobody
    BY <2>1, NobodyAssumption DEF EntriesCollected, OffsetsMutex, ListOffsets!TypeOK
  <2>3. PICK some \in SUBSET Partitions :
          /\ oListed' = some
          /\ oWorker' = [p \in Partitions |-> IF p \in some THEN "asking" ELSE "off"]
    BY <1>1 DEF ListOffsets!StartWorkers
  <2>4. ListOffsets!TypeOK'
    BY <1>1, <2>3 DEF ListOffsets!StartWorkers, ListOffsets!TypeOK
  <2>5. WorkersOfListed' /\ OffsetsMutex' /\ EntriesCollected' /\ OffsetsPhase'
    BY <1>1, <2>2, <2>3, NobodyAssumption
    DEF ListOffsets!StartWorkers, WorkersOfListed, OffsetsMutex, EntriesCollected,
        OffsetsPhase
  <2>6. OffsetsOrdered'
    BY <1>1, <2>3 DEF ListOffsets!StartWorkers, OffsetsOrdered, ListOffsets!TypeOK
  <2> QED BY <2>4, <2>5, <2>6
<1>2. CASE \/ ListOffsets!ListOffsets \/ ListOffsets!ListingFails
           \/ ListOffsets!ReportError \/ ListOffsets!AwaitWorkers
           \/ ListOffsets!DeliverOffsets
  <2>1. UNCHANGED <<ListOffsets!brokerVars, ListOffsets!listVars, oWorker, oHwm,
                  ListOffsets!sliceVars>>
    BY <1>2
    DEF ListOffsets!ListOffsets, ListOffsets!ListingFails, ListOffsets!ReportError,
        ListOffsets!AwaitWorkers, ListOffsets!DeliverOffsets
  <2>2. ListOffsets!TypeOK'
    BY <1>2
    DEF ListOffsets!ListOffsets, ListOffsets!ListingFails, ListOffsets!ReportError,
        ListOffsets!AwaitWorkers, ListOffsets!DeliverOffsets, ListOffsets!TypeOK
  <2>3. EntriesCollected'
    BY <2>1, EntriesStay
  <2>4. WorkersOfListed' /\ OffsetsMutex' /\ OffsetsOrdered'
    BY <2>1 DEF WorkersOfListed, OffsetsMutex, OffsetsOrdered
  <2>5. OffsetsPhase'
    BY <1>2
    DEF ListOffsets!ListOffsets, ListOffsets!ListingFails, ListOffsets!ReportError,
        ListOffsets!AwaitWorkers, ListOffsets!DeliverOffsets, OffsetsPhase,
        ListOffsets!TypeOK
  <2> QED BY <2>2, <2>3, <2>4, <2>5
<1> QED BY <1>1, <1>2 DEF ListOffsets!Main

LEMMA OffsetsWorker ==
  ASSUME NEW p \in Partitions, OffsetsInv, ListOffsets!Worker(p) PROVE OffsetsInv'
<1> USE DEF OffsetsInv, ListOffsets!brokerVars, ListOffsets!listVars,
        ListOffsets!callVars
<1>1. CASE ListOffsets!GetNewest(p) \/ ListOffsets!GetNewestFails(p)
  <2>1. ListOffsets!TypeOK'
    BY <1>1
    DEF ListOffsets!GetNewest, ListOffsets!GetNewestFails, ListOffsets!TypeOK,
        ListOffsets!sliceVars
  <2>2. OffsetsOrdered'
    BY <1>1, ErrorValueAssumption
    DEF ListOffsets!GetNewest, ListOffsets!GetNewestFails, ListOffsets!TypeOK,
        OffsetsOrdered, WorkersOfListed
  <2>3. EntriesCollected'
    BY <1>1, EntriesStay
    DEF ListOffsets!GetNewest, ListOffsets!GetNewestFails, ListOffsets!TypeOK,
        ListOffsets!sliceVars
  <2>4. WorkersOfListed' /\ OffsetsMutex' /\ OffsetsPhase'
    BY <1>1
    DEF ListOffsets!GetNewest, ListOffsets!GetNewestFails, ListOffsets!TypeOK,
        ListOffsets!sliceVars, WorkersOfListed, OffsetsMutex, OffsetsPhase
  <2> QED BY <2>1, <2>2, <2>3, <2>4
<1>2. CASE ListOffsets!LockOffsets(p)
  <2>1. ListOffsets!TypeOK'
    BY <1>2 DEF ListOffsets!LockOffsets, ListOffsets!TypeOK
  <2>2. OffsetsOrdered'
    BY <1>2 DEF ListOffsets!LockOffsets, ListOffsets!TypeOK, OffsetsOrdered
  <2>3. EntriesCollected'
    BY <1>2, EntriesStay DEF ListOffsets!LockOffsets, ListOffsets!TypeOK
  <2>4. WorkersOfListed' /\ OffsetsMutex' /\ OffsetsPhase'
    BY <1>2, NobodyAssumption
    DEF ListOffsets!LockOffsets, ListOffsets!TypeOK, WorkersOfListed, OffsetsMutex,
        OffsetsPhase
  <2> QED BY <2>1, <2>2, <2>3, <2>4
<1>3. CASE ListOffsets!AppendOffset(p)
  <2>1. oOffsets' = oOffsets \union {Entry(p)} /\ oWorker' = [oWorker EXCEPT ![p] = "done"]
    BY <1>3 DEF ListOffsets!AppendOffset, OffsetsMutex, Entry
  <2>2. \A q \in Partitions : Entry(q)' = Entry(q)
    BY <1>3 DEF ListOffsets!AppendOffset, Entry, ListOffsets!TopicPartitionOffset
  <2>3. Entry(p) \in ListOffsets!Offset /\ Entry(p).partition = p
    BY ErrorValueAssumption
    DEF Entry, ListOffsets!TopicPartitionOffset, ListOffsets!Offset,
        ListOffsets!TypeOK
  <2>4. ListOffsets!TypeOK'
    BY <1>3, <2>1, <2>3 DEF ListOffsets!AppendOffset, ListOffsets!TypeOK
  <2>5. EntriesCollected'
    BY <2>1, <2>2, <2>3 DEF EntriesCollected, ListOffsets!TypeOK
  <2>6. OffsetsOrdered'
    BY <1>3 DEF ListOffsets!AppendOffset, ListOffsets!TypeOK, OffsetsOrdered
  <2>7. WorkersOfListed' /\ OffsetsMutex'
    BY <1>3, NobodyAssumption
    DEF ListOffsets!AppendOffset, ListOffsets!TypeOK, WorkersOfListed, OffsetsMutex
  <2>8. OffsetsPhase'
    BY <1>3
    DEF ListOffsets!AppendOffset, ListOffsets!TypeOK, OffsetsPhase, WorkersOfListed
  <2> QED BY <2>4, <2>5, <2>6, <2>7, <2>8
<1> QED BY <1>1, <1>2, <1>3 DEF ListOffsets!Worker

LEMMA OffsetsStep == OffsetsInv /\ [ListOffsets!Next]_(ListOffsets!vars) => OffsetsInv'
<1> SUFFICES ASSUME OffsetsInv, [ListOffsets!Next]_(ListOffsets!vars) PROVE OffsetsInv'
  OBVIOUS
<1>1. CASE UNCHANGED ListOffsets!vars
  <2>1. EntriesCollected'
    BY <1>1, EntriesStay
    DEF ListOffsets!vars, ListOffsets!listVars, ListOffsets!sliceVars
  <2>2. ListOffsets!TypeOK' /\ WorkersOfListed' /\ OffsetsOrdered' /\ OffsetsMutex' /\ OffsetsPhase'
    BY <1>1
    DEF ListOffsets!vars, ListOffsets!brokerVars, ListOffsets!listVars,
        ListOffsets!sliceVars, ListOffsets!callVars, OffsetsInv, ListOffsets!TypeOK,
        WorkersOfListed, OffsetsOrdered, OffsetsMutex, OffsetsPhase
  <2> QED BY <2>1, <2>2 DEF OffsetsInv
<1> QED
  BY <1>1, OffsetsBroker, OffsetsMain, OffsetsWorker
  DEF ListOffsets!Next, ListOffsets!Goroutines, ListOffsets!Broker

LEMMA OffsetsInductive == ListOffsets!Spec => []OffsetsInv
  BY OffsetsInit, OffsetsStep, PTL DEF ListOffsets!Spec

-----------------------------------------------------------------------------
\* The lags count records there are.
LEMMA GroupLags == ListOffsets!Spec => []ListOffsets!LagsTruthful
<1>1. ASSUME OffsetsInv PROVE ListOffsets!LagsTruthful
  <2> SUFFICES ASSUME oAnswer = "done"
               PROVE  /\ {o.partition : o \in oOffsets} = oListed
                      /\ \A o, q \in oOffsets : o.partition = q.partition => o = q
                      /\ \A o \in oOffsets : o.lag # ErrorValue =>
                           0 <= o.lag /\ o.offset + o.lag <= oEnd[o.partition]
    BY <1>1 DEF ListOffsets!LagsTruthful, OffsetsInv, OffsetsPhase
  <2>1. oMain = "returned" /\ \A p \in oListed : oWorker[p] = "done"
    BY <1>1 DEF OffsetsInv, OffsetsPhase
  <2>2. \A o \in oOffsets : o.partition \in oListed
    BY <1>1 DEF OffsetsInv, EntriesCollected, WorkersOfListed
  <2>3. \A p \in oListed : Entry(p) \in oOffsets /\ Entry(p).partition = p
    BY <1>1, <2>1
    DEF OffsetsInv, ListOffsets!TypeOK, EntriesCollected, Entry,
        ListOffsets!TopicPartitionOffset
  <2>4. \A o, q \in oOffsets : o.partition = q.partition => o = q
    BY <1>1 DEF OffsetsInv, EntriesCollected
  <2>5. ASSUME NEW o \in oOffsets, o.lag # ErrorValue
        PROVE  0 <= o.lag /\ o.offset + o.lag <= oEnd[o.partition]
    <3> DEFINE p == o.partition
    <3>1. p \in Partitions /\ oWorker[p] = "done" /\ o = Entry(p)
      BY <1>1 DEF OffsetsInv, EntriesCollected
    <3>2. oHwm[p] # ErrorValue /\ o.lag = oHwm[p] - oBlocks[p] /\ o.offset = oBlocks[p]
      BY <2>5, <3>1 DEF Entry, ListOffsets!TopicPartitionOffset
    <3>3. oBlocks[p] <= oHwm[p] /\ oHwm[p] <= oEnd[p]
      BY <1>1, <3>1, <3>2 DEF OffsetsInv, OffsetsOrdered
    <3>4. oBlocks[p] \in Nat /\ oHwm[p] \in Nat /\ oEnd[p] \in Nat
      BY <1>1, <3>1, <3>2 DEF OffsetsInv, ListOffsets!TypeOK
    <3> QED BY <3>2, <3>3, <3>4
  <2> QED BY <2>2, <2>3, <2>4, <2>5
<1> QED BY <1>1, OffsetsInductive, PTL

\* Listing offsets tells its caller an error only if the listing request
\* failed, offsets only if it did not, and answers at most once.
THEOREM OffsetListingTruthful == ListOffsets!Spec => ListOffsets!Contract!Safety
<1>1. ListOffsets!Init => ListOffsets!Contract!Init
  BY DEF ListOffsets!Init, ListOffsets!Contract!Init
<1>2. ASSUME OffsetsInv, [ListOffsets!Next]_(ListOffsets!vars)
      PROVE [ListOffsets!Contract!Next]_(ListOffsets!Contract!callVars)
  <2> USE <1>2 DEF OffsetsInv, ListOffsets!TypeOK, OffsetsPhase,
          ListOffsets!Contract!callVars, ListOffsets!Contract!Next,
          ListOffsets!Contract!Call, ListOffsets!Contract!RequestFails,
          ListOffsets!Contract!Answer
  <2>1. CASE \/ ListOffsets!ListOffsets \/ ListOffsets!StartWorkers
             \/ ListOffsets!ListingFails \/ ListOffsets!AwaitWorkers
    BY <2>1
    DEF ListOffsets!ListOffsets, ListOffsets!StartWorkers, ListOffsets!ListingFails,
        ListOffsets!AwaitWorkers, ListOffsets!callVars
  <2>2. CASE ListOffsets!ReportError \/ ListOffsets!DeliverOffsets
    BY <2>2
    DEF ListOffsets!ReportError, ListOffsets!DeliverOffsets, ListOffsets!Answered
  <2>3. ASSUME NEW p \in Partitions,
               ListOffsets!Worker(p) \/ ListOffsets!Produce(p) \/ ListOffsets!Commit(p)
        PROVE  UNCHANGED ListOffsets!Contract!callVars
    BY <2>3
    DEF ListOffsets!Worker, ListOffsets!GetNewest, ListOffsets!GetNewestFails,
        ListOffsets!LockOffsets, ListOffsets!AppendOffset, ListOffsets!Produce,
        ListOffsets!Commit, ListOffsets!callVars
  <2>4. CASE UNCHANGED ListOffsets!vars
    BY <2>4 DEF ListOffsets!vars, ListOffsets!callVars
  <2> QED BY <2>1, <2>2, <2>3, <2>4
      DEF ListOffsets!Next, ListOffsets!Goroutines, ListOffsets!Main,
          ListOffsets!Broker
<1> QED
  BY <1>1, <1>2, OffsetsInductive, PTL DEF ListOffsets!Spec, ListOffsets!Contract!Safety
-----------------------------------------------------------------------------
(* The inductive invariant                                                 *)

BeforeTasks == {"idle", "listing", "gettingActive"}
AfterTasks  == {"delivering", "returned"}

\* Before the tasks start there is none; then a subject has the task for its
\* compatibility if it was found, and the one for its versions if it is shown
\* as active.
TasksOfNames ==
  /\ sMain \in BeforeTasks => \A s \in Subjects : sVersions[s] = "off" /\ sCompat[s] = "off"
  /\ sMain \notin BeforeTasks =>
       \A s \in Subjects : /\ sCompat[s] = "off" <=> s \notin sNames
                           /\ sVersions[s] = "off" <=> s \notin sNames \/ ListSubjects!IsDeleted(s, sActive)

\* A subject that is softly deleted was deleted by somebody, and so were those
\* found that are not active any more, or were not when the others were listed.
DeletionsKnown ==
  /\ \A s \in Subjects : sRegistry[s] = "soft" => s \in sEverDeleted
  /\ sMain = "gettingActive" =>
       \A s \in sNames : sRegistry[s] # "active" => s \in sEverDeleted
  /\ sActiveRead => /\ sMain \notin BeforeTasks
                    /\ \A s \in sNames : ListSubjects!IsDeleted(s, sActive) => s \in sEverDeleted

\* A failure that has not been received is still on its way.
Pending(s) == sVersions[s] = "reportErr" \/ sCompat[s] = "reportErr"
SubjectsFailure ==
  /\ sFailed /\ sAnswer # "error" =>
       sMain = "reportErr" \/ sErrs > 0 \/ \E s \in Subjects : Pending(s)
  /\ sErrs > 0 \/ sMain = "reportErr" \/ (\E s \in Subjects : Pending(s)) => sFailed

\* What each place of doListSubject and each answer implies.
SubjectsPhase ==
  /\ sMain \in {"idle", "listing"} => sNames = {}
  /\ sMain \in BeforeTasks => ~sFailed /\ sErrs = 0
  /\ sMain \in AfterTasks \cup {"reportErr"} => \A s \in Subjects : ListSubjects!Idle(s)
  /\ sMain = "delivering" => sErrs = 0
  /\ sMain # "returned" <=> sAnswer = "none"
  /\ sAnswer = "error" => sFailed
  /\ sAnswer = "done" => ~sFailed /\ sDelivered = {ListSubjects!Subject(s) : s \in sNames}

SubjectsInv ==
  /\ ListSubjects!TypeOK /\ TasksOfNames /\ DeletionsKnown
  /\ SubjectsFailure /\ SubjectsPhase

\* The invariant holds before the listing begins.
LEMMA SubjectsInit == ListSubjects!Init => SubjectsInv
<1> SUFFICES ASSUME ListSubjects!Init PROVE SubjectsInv
  OBVIOUS
<1>1. ListSubjects!TypeOK
  BY DEF ListSubjects!Init, ListSubjects!TypeOK, ListSubjects!TaskSteps
<1>2. TasksOfNames /\ DeletionsKnown
  BY DEF ListSubjects!Init, TasksOfNames, DeletionsKnown, BeforeTasks
<1>3. SubjectsFailure /\ SubjectsPhase
  BY
  DEF ListSubjects!Init, SubjectsFailure, SubjectsPhase, Pending, BeforeTasks,
      AfterTasks
<1> QED BY <1>1, <1>2, <1>3 DEF SubjectsInv

\* Other users of the registry only add to what was once deleted.
LEMMA SubjectsOthers ==
  ASSUME NEW s \in Subjects, SubjectsInv, ListSubjects!Register(s) \/ ListSubjects!Delete(s)
  PROVE SubjectsInv'
<1> USE DEF SubjectsInv, ListSubjects!TypeOK, TasksOfNames, DeletionsKnown,
        SubjectsFailure, SubjectsPhase, ListSubjects!TaskSteps, Pending, BeforeTasks,
        AfterTasks, ListSubjects!Idle, ListSubjects!Subject, ListSubjects!IsDeleted,
        ListSubjects!listVars, ListSubjects!taskVars, ListSubjects!callVars
<1>1. CASE ListSubjects!Register(s)
  BY <1>1 DEF ListSubjects!Register
<1>2. CASE ListSubjects!Delete(s)
  BY <1>2 DEF ListSubjects!Delete
<1> QED BY <1>1, <1>2

\* Starting the two tasks of each subject found keeps the invariant.
LEMMA SubjectsStart ==
  SubjectsInv /\ (ListSubjects!GetActive \/ ListSubjects!GetActiveFails) => SubjectsInv'
<1> SUFFICES ASSUME SubjectsInv, ListSubjects!GetActive \/ ListSubjects!GetActiveFails
             PROVE SubjectsInv'
  OBVIOUS
<1> USE DEF SubjectsInv, ListSubjects!TypeOK, ListSubjects!TaskSteps, BeforeTasks,
        AfterTasks, ListSubjects!registryVars, ListSubjects!callVars
<1>1. PICK act \in SUBSET Subjects :
        /\ ListSubjects!StartTasks(act)
        /\ sActiveRead' => \A s \in Subjects : s \notin act => sRegistry[s] # "active"
  <2>1. CASE ListSubjects!GetActive
    <3>1. /\ ListSubjects!Active \in SUBSET Subjects
          /\ \A s \in Subjects : s \notin ListSubjects!Active => sRegistry[s] # "active"
      BY DEF ListSubjects!Active
    <3> QED BY <2>1, <3>1 DEF ListSubjects!GetActive
  <2>2. CASE ListSubjects!GetActiveFails
    <3>1. ~sActiveRead
      BY <2>2 DEF ListSubjects!GetActiveFails, ListSubjects!StartTasks, DeletionsKnown
    <3> QED BY <2>2, <3>1 DEF ListSubjects!GetActiveFails
  <2> QED BY <2>1, <2>2
<1>2. sActiveRead' \in BOOLEAN
  BY DEF ListSubjects!GetActive, ListSubjects!GetActiveFails
<1>3. ListSubjects!TypeOK'
  BY <1>1, <1>2 DEF ListSubjects!StartTasks
<1>4. TasksOfNames'
  BY <1>1 DEF ListSubjects!StartTasks, TasksOfNames, ListSubjects!IsDeleted
<1>5. DeletionsKnown'
  BY <1>1 DEF ListSubjects!StartTasks, DeletionsKnown, ListSubjects!IsDeleted
<1>6. SubjectsFailure' /\ SubjectsPhase'
  BY <1>1
  DEF ListSubjects!StartTasks, SubjectsFailure, SubjectsPhase, Pending,
      ListSubjects!Idle
<1> QED BY <1>3, <1>4, <1>5, <1>6

\* What a listing shows of a subject has its type.
LEMMA SubjectShown ==
  ASSUME NEW s \in Subjects
  PROVE ListSubjects!Subject(s) \in [name : Subjects, deleted : BOOLEAN, hasVersions : BOOLEAN]
  BY DEF ListSubjects!Subject, ListSubjects!IsDeleted

\* The goroutine that lists, waits and answers keeps the invariant.
LEMMA SubjectsMain ==
  SubjectsInv /\ (ListSubjects!ListSubjects \/ ListSubjects!Main) => SubjectsInv'
<1> SUFFICES ASSUME SubjectsInv, ListSubjects!ListSubjects \/ ListSubjects!Main
             PROVE SubjectsInv'
  OBVIOUS
<1> USE DEF SubjectsInv, ListSubjects!TypeOK, TasksOfNames, DeletionsKnown,
        SubjectsFailure, SubjectsPhase, ListSubjects!TaskSteps, Pending, BeforeTasks,
        AfterTasks, ListSubjects!Idle, ListSubjects!Subject, ListSubjects!IsDeleted,
        ListSubjects!registryVars, ListSubjects!listVars, ListSubjects!taskVars,
        ListSubjects!callVars, ListSubjects!Answered
<1>1. CASE ListSubjects!ListSubjects
  BY <1>1 DEF ListSubjects!ListSubjects
<1>2. CASE ListSubjects!GetAll
  BY <1>2 DEF ListSubjects!GetAll, ListSubjects!Stored
<1>3. CASE ListSubjects!GetAllFails
  BY <1>3 DEF ListSubjects!GetAllFails
<1>4. CASE ListSubjects!GetActive \/ ListSubjects!GetActiveFails
  BY <1>4, SubjectsStart
<1>5. CASE ListSubjects!AwaitTasks
  BY <1>5 DEF ListSubjects!AwaitTasks
<1>6. CASE ListSubjects!ReportError
  BY <1>6 DEF ListSubjects!ReportError
<1>7. CASE ListSubjects!DeliverSubjects
  <2>1. ~sFailed
    BY <1>7 DEF ListSubjects!DeliverSubjects
  <2>2. sDelivered' = {ListSubjects!Subject(s) : s \in sNames}
    BY <1>7 DEF ListSubjects!DeliverSubjects
  <2>3. sDelivered' \subseteq [name : Subjects, deleted : BOOLEAN, hasVersions : BOOLEAN]
    <3>1. sNames \subseteq Subjects
      OBVIOUS
    <3> HIDE DEF ListSubjects!Subject, SubjectsInv
    <3> QED BY <2>2, <3>1, SubjectShown
  <2>4. ListSubjects!TypeOK'
    BY <1>7, <2>3 DEF ListSubjects!DeliverSubjects
  <2>5. TasksOfNames' /\ DeletionsKnown' /\ SubjectsFailure'
    BY <1>7, <2>1 DEF ListSubjects!DeliverSubjects
  <2>6. SubjectsPhase'
    BY <1>7, <2>1, <2>2 DEF ListSubjects!DeliverSubjects
  <2> QED BY <2>4, <2>5, <2>6
<1> QED BY <1>1, <1>2, <1>3, <1>4, <1>5, <1>6, <1>7 DEF ListSubjects!Main

\* A goroutine that asks for a subject's versions keeps the invariant.
LEMMA SubjectsVersions ==
  ASSUME NEW s \in Subjects, SubjectsInv, ListSubjects!VersionsOf(s) PROVE SubjectsInv'
<1> USE DEF SubjectsInv, ListSubjects!TypeOK, TasksOfNames, DeletionsKnown,
        SubjectsFailure, SubjectsPhase, ListSubjects!TaskSteps, Pending, BeforeTasks,
        AfterTasks, ListSubjects!Idle, ListSubjects!IsDeleted,
        ListSubjects!registryVars, ListSubjects!listVars, ListSubjects!callVars
<1>1. CASE ListSubjects!GetVersions(s)
  BY <1>1 DEF ListSubjects!GetVersions
<1>2. CASE ListSubjects!GetVersionsFails(s)
  BY <1>2 DEF ListSubjects!GetVersionsFails
<1>3. CASE ListSubjects!ReportVersionsError(s)
  BY <1>3 DEF ListSubjects!ReportVersionsError
<1> QED BY <1>1, <1>2, <1>3 DEF ListSubjects!VersionsOf

\* A goroutine that asks for a subject's compatibility keeps the invariant.
LEMMA SubjectsCompatibility ==
  ASSUME NEW s \in Subjects, SubjectsInv, ListSubjects!CompatibilityOf(s)
  PROVE SubjectsInv'
<1> USE DEF SubjectsInv, ListSubjects!TypeOK, TasksOfNames, DeletionsKnown,
        SubjectsFailure, SubjectsPhase, ListSubjects!TaskSteps, Pending, BeforeTasks,
        AfterTasks, ListSubjects!Idle, ListSubjects!IsDeleted,
        ListSubjects!registryVars, ListSubjects!listVars, ListSubjects!callVars
<1>1. CASE ListSubjects!GetCompatibility(s)
  BY <1>1 DEF ListSubjects!GetCompatibility
<1>2. CASE ListSubjects!GetCompatibilityFails(s)
  BY <1>2 DEF ListSubjects!GetCompatibilityFails
<1>3. CASE ListSubjects!ReportCompatibilityError(s)
  BY <1>3 DEF ListSubjects!ReportCompatibilityError
<1> QED BY <1>1, <1>2, <1>3 DEF ListSubjects!CompatibilityOf

\* Every step keeps the invariant.
LEMMA SubjectsStep ==
  SubjectsInv /\ [ListSubjects!Next]_(ListSubjects!vars) => SubjectsInv'
<1> SUFFICES ASSUME SubjectsInv, [ListSubjects!Next]_(ListSubjects!vars)
             PROVE SubjectsInv'
  OBVIOUS
<1>1. CASE ListSubjects!ListSubjects \/ ListSubjects!Main
  BY <1>1, SubjectsMain
<1>2. CASE \E s \in Subjects : ListSubjects!VersionsOf(s) \/ ListSubjects!CompatibilityOf(s)
  BY <1>2, SubjectsVersions, SubjectsCompatibility
<1>3. CASE ListSubjects!OtherUsers
  BY <1>3, SubjectsOthers DEF ListSubjects!OtherUsers
<1>4. CASE UNCHANGED ListSubjects!vars
  BY <1>4
  DEF ListSubjects!vars, ListSubjects!registryVars, ListSubjects!listVars,
      ListSubjects!taskVars, ListSubjects!callVars, SubjectsInv, ListSubjects!TypeOK,
      TasksOfNames, DeletionsKnown, SubjectsFailure, SubjectsPhase, Pending,
      ListSubjects!Idle, ListSubjects!Subject
<1> QED BY <1>1, <1>2, <1>3, <1>4 DEF ListSubjects!Next, ListSubjects!Goroutines

\* The invariant holds always.
LEMMA SubjectsInductive == ListSubjects!Spec => []SubjectsInv
  BY SubjectsInit, SubjectsStep, PTL DEF ListSubjects!Spec

-----------------------------------------------------------------------------
\* What is told of the subjects is so.
LEMMA SubjectsTold == ListSubjects!Spec => []ListSubjects!SubjectsTruthful
<1>1. SubjectsInv => ListSubjects!SubjectsTruthful
  <2> SUFFICES ASSUME SubjectsInv, sAnswer = "done"
               PROVE ListSubjects!SubjectsTruthful!2
    BY DEF ListSubjects!SubjectsTruthful
  <2>1. /\ sMain = "returned" /\ sDelivered = {ListSubjects!Subject(s) : s \in sNames}
        /\ sNames \subseteq Subjects
    BY DEF SubjectsInv, SubjectsPhase, ListSubjects!TypeOK
  <2>2. {s.name : s \in sDelivered} = sNames
    <3>1. \A s : ListSubjects!Subject(s).name = s
      BY DEF ListSubjects!Subject
    <3> QED BY <2>1, <3>1
  <2>3. \A s \in sNames : (sVersions[s] = "done") = ~ListSubjects!IsDeleted(s, sActive)
    BY <2>1
    DEF SubjectsInv, TasksOfNames, SubjectsPhase, ListSubjects!Idle, BeforeTasks,
        AfterTasks
  <2>4. \A s \in sDelivered : s.hasVersions = ~s.deleted
    BY <2>1, <2>3 DEF ListSubjects!Subject
  <2>5. sActiveRead => \A s \in sDelivered : s.deleted => s.name \in sEverDeleted
    BY <2>1 DEF SubjectsInv, DeletionsKnown, ListSubjects!Subject
  <2> QED BY <2>2, <2>4, <2>5
<1> QED BY <1>1, SubjectsInductive, PTL
-----------------------------------------------------------------------------

\* A step of the listing is a step of the call it implements, or none at all.
LEMMA SubjectsCallStep ==
  SubjectsInv /\ [ListSubjects!Next]_(ListSubjects!vars)
    => [ListSubjects!Contract!Next]_(ListSubjects!Contract!callVars)
<1> SUFFICES ASSUME SubjectsInv, [ListSubjects!Next]_(ListSubjects!vars)
             PROVE [ListSubjects!Contract!Next]_(ListSubjects!Contract!callVars)
  OBVIOUS
<1> USE DEF SubjectsInv, ListSubjects!TypeOK, ListSubjects!Contract!callVars,
        ListSubjects!Contract!Next, ListSubjects!Contract!Call,
        ListSubjects!Contract!RequestFails, ListSubjects!Contract!Answer
<1>1. CASE ListSubjects!ListSubjects
  BY <1>1 DEF ListSubjects!ListSubjects, ListSubjects!callVars
<1>2. CASE \/ ListSubjects!GetAll \/ ListSubjects!GetActive
           \/ ListSubjects!GetActiveFails \/ ListSubjects!AwaitTasks
  BY <1>2
  DEF ListSubjects!GetAll, ListSubjects!GetActive, ListSubjects!GetActiveFails,
      ListSubjects!StartTasks, ListSubjects!AwaitTasks, ListSubjects!callVars
<1>3. CASE ListSubjects!GetAllFails
  BY <1>3 DEF ListSubjects!GetAllFails, SubjectsPhase
<1>4. CASE ListSubjects!ReportError
  BY <1>4 DEF ListSubjects!ReportError, ListSubjects!Answered, SubjectsFailure
<1>5. CASE ListSubjects!DeliverSubjects
  <2>1. ~sFailed
    BY <1>5
    DEF ListSubjects!DeliverSubjects, ListSubjects!Answered, SubjectsFailure,
        SubjectsPhase, Pending, ListSubjects!Idle, AfterTasks
  <2> QED BY <1>5, <2>1 DEF ListSubjects!DeliverSubjects, ListSubjects!Answered
<1>6. ASSUME NEW s \in Subjects, ListSubjects!VersionsOf(s) \/ ListSubjects!CompatibilityOf(s)
      PROVE [ListSubjects!Contract!Next]_(ListSubjects!Contract!callVars)
  <2>1. CASE ListSubjects!GetVersionsFails(s) \/ ListSubjects!GetCompatibilityFails(s)
    <3>1. ~ListSubjects!Idle(s)
      BY <2>1
      DEF ListSubjects!GetVersionsFails, ListSubjects!GetCompatibilityFails,
          ListSubjects!Idle
    <3>2. sMain \notin {"idle", "returned"}
      BY <3>1
      DEF TasksOfNames, SubjectsPhase, ListSubjects!Idle, BeforeTasks, AfterTasks
    <3> QED BY <2>1, <3>2
        DEF ListSubjects!GetVersionsFails, ListSubjects!GetCompatibilityFails,
            SubjectsPhase
  <2>2. CASE UNCHANGED ListSubjects!callVars /\ sMain' = sMain
    BY <2>2 DEF ListSubjects!callVars
  <2> QED
    BY <1>6, <2>1, <2>2
    DEF ListSubjects!VersionsOf, ListSubjects!CompatibilityOf,
        ListSubjects!GetVersions, ListSubjects!GetCompatibility,
        ListSubjects!ReportVersionsError, ListSubjects!ReportCompatibilityError
<1>7. CASE ListSubjects!OtherUsers
  BY <1>7
  DEF ListSubjects!OtherUsers, ListSubjects!Register, ListSubjects!Delete,
      ListSubjects!callVars
<1>8. CASE UNCHANGED ListSubjects!vars
  BY <1>8 DEF ListSubjects!vars, ListSubjects!callVars
<1> QED
  BY <1>1, <1>2, <1>3, <1>4, <1>5, <1>6, <1>7, <1>8
  DEF ListSubjects!Next, ListSubjects!Goroutines, ListSubjects!Main

\* Listing the subjects tells its caller an error only if a request it does not
\* ignore failed, and subjects only if none did, and answers at most once.
THEOREM SubjectListingAnswers == ListSubjects!Spec => ListSubjects!Contract!Safety
<1>1. ListSubjects!Init => ListSubjects!Contract!Init
  BY DEF ListSubjects!Init, ListSubjects!Contract!Init
<1> QED
  BY <1>1, SubjectsInductive, SubjectsCallStep, PTL
  DEF ListSubjects!Spec, ListSubjects!Contract!Safety

-----------------------------------------------------------------------------
(* The capacity of errs                                                    *)

\* The errors in the channel are at most the tasks that have ended.
Ended(task) == {s \in Subjects : task[s] = "done"}
ErrsCounted == sErrs <= Cardinality(Ended(sVersions)) + Cardinality(Ended(sCompat))
CountedInv == SubjectsInv /\ ErrsCounted

\* The tasks that have ended can be counted.
LEMMA EndedFinite ==
  ASSUME NEW task PROVE IsFiniteSet(Ended(task)) /\ Cardinality(Ended(task)) \in Nat
  BY SubjectsAssumption, FS_Subset, FS_CardinalityType DEF Ended

\* A task that ends is one more that has.
LEMMA OneMoreEnded ==
  ASSUME NEW task \in [Subjects -> ListSubjects!TaskSteps],
         NEW s \in Subjects, task[s] # "done"
  PROVE Cardinality(Ended([task EXCEPT ![s] = "done"])) = Cardinality(Ended(task)) + 1
<1>1. Ended([task EXCEPT ![s] = "done"]) = Ended(task) \cup {s} /\ s \notin Ended(task)
  BY DEF Ended
<1> QED BY <1>1, EndedFinite, FS_AddElement

\* A task that goes on to report has not ended.
LEMMA SameEnded ==
  ASSUME NEW task \in [Subjects -> ListSubjects!TaskSteps],
         NEW s \in Subjects, task[s] # "done"
  PROVE Ended([task EXCEPT ![s] = "reportErr"]) = Ended(task)
  BY DEF Ended

\* Every step keeps the errors counted by the tasks that have ended.
LEMMA CountedStep ==
  CountedInv /\ [ListSubjects!Next]_(ListSubjects!vars) => CountedInv'
<1> SUFFICES ASSUME CountedInv, [ListSubjects!Next]_(ListSubjects!vars)
             PROVE ErrsCounted'
  BY SubjectsStep DEF CountedInv
<1> USE DEF CountedInv, ErrsCounted, SubjectsInv, ListSubjects!TypeOK
<1>0. /\ sErrs \in Nat
      /\ Cardinality(Ended(sVersions)) \in Nat /\ Cardinality(Ended(sCompat)) \in Nat
      /\ Cardinality(Ended(sVersions')) \in Nat /\ Cardinality(Ended(sCompat')) \in Nat
  BY EndedFinite
<1>1. CASE ListSubjects!GetActive \/ ListSubjects!GetActiveFails
  <2>1. sErrs' = 0
    BY <1>1
    DEF ListSubjects!GetActive, ListSubjects!GetActiveFails, ListSubjects!StartTasks,
        SubjectsPhase, BeforeTasks
  <2> QED BY <2>1, <1>0
<1>2. CASE UNCHANGED ListSubjects!taskVars
  BY <1>2 DEF ListSubjects!taskVars
<1>3. ASSUME NEW s \in Subjects, ListSubjects!VersionsOf(s) PROVE ErrsCounted'
  <2>0. sVersions \in [Subjects -> ListSubjects!TaskSteps]
    OBVIOUS
  <2>1. CASE ListSubjects!GetVersions(s)
    <3>1. /\ sVersions' = [sVersions EXCEPT ![s] = "done"]
          /\ sCompat' = sCompat /\ sErrs' = sErrs
      BY <2>1 DEF ListSubjects!GetVersions
    <3>2. sVersions[s] # "done"
      BY <2>1 DEF ListSubjects!GetVersions
    <3>3. Cardinality(Ended(sVersions')) = Cardinality(Ended(sVersions)) + 1
      BY <3>1, <3>2, <2>0, OneMoreEnded
    <3> QED BY <3>1, <3>3, <1>0
  <2>2. CASE ListSubjects!GetVersionsFails(s)
    <3>1. /\ sVersions' = [sVersions EXCEPT ![s] = "reportErr"]
          /\ sCompat' = sCompat /\ sErrs' = sErrs
      BY <2>2 DEF ListSubjects!GetVersionsFails
    <3>2. sVersions[s] # "done"
      BY <2>2 DEF ListSubjects!GetVersionsFails
    <3>3. Ended(sVersions') = Ended(sVersions)
      BY <3>1, <3>2, <2>0, SameEnded
    <3> QED BY <3>1, <3>3, <1>0
  <2>3. CASE ListSubjects!ReportVersionsError(s)
    <3>1. /\ sVersions' = [sVersions EXCEPT ![s] = "done"]
          /\ sCompat' = sCompat /\ sErrs' = sErrs + 1
      BY <2>3 DEF ListSubjects!ReportVersionsError
    <3>2. sVersions[s] # "done"
      BY <2>3 DEF ListSubjects!ReportVersionsError
    <3>3. Cardinality(Ended(sVersions')) = Cardinality(Ended(sVersions)) + 1
      BY <3>1, <3>2, <2>0, OneMoreEnded
    <3> QED BY <3>1, <3>3, <1>0
  <2> QED BY <1>3, <2>1, <2>2, <2>3 DEF ListSubjects!VersionsOf
<1>4. ASSUME NEW s \in Subjects, ListSubjects!CompatibilityOf(s) PROVE ErrsCounted'
  <2>0. sCompat \in [Subjects -> ListSubjects!TaskSteps]
    OBVIOUS
  <2>1. CASE ListSubjects!GetCompatibility(s)
    <3>1. /\ sCompat' = [sCompat EXCEPT ![s] = "done"]
          /\ sVersions' = sVersions /\ sErrs' = sErrs
      BY <2>1 DEF ListSubjects!GetCompatibility
    <3>2. sCompat[s] # "done"
      BY <2>1 DEF ListSubjects!GetCompatibility
    <3>3. Cardinality(Ended(sCompat')) = Cardinality(Ended(sCompat)) + 1
      BY <3>1, <3>2, <2>0, OneMoreEnded
    <3> QED BY <3>1, <3>3, <1>0
  <2>2. CASE ListSubjects!GetCompatibilityFails(s)
    <3>1. /\ sCompat' = [sCompat EXCEPT ![s] = "reportErr"]
          /\ sVersions' = sVersions /\ sErrs' = sErrs
      BY <2>2 DEF ListSubjects!GetCompatibilityFails
    <3>2. sCompat[s] # "done"
      BY <2>2 DEF ListSubjects!GetCompatibilityFails
    <3>3. Ended(sCompat') = Ended(sCompat)
      BY <3>1, <3>2, <2>0, SameEnded
    <3> QED BY <3>1, <3>3, <1>0
  <2>3. CASE ListSubjects!ReportCompatibilityError(s)
    <3>1. /\ sCompat' = [sCompat EXCEPT ![s] = "done"]
          /\ sVersions' = sVersions /\ sErrs' = sErrs + 1
      BY <2>3 DEF ListSubjects!ReportCompatibilityError
    <3>2. sCompat[s] # "done"
      BY <2>3 DEF ListSubjects!ReportCompatibilityError
    <3>3. Cardinality(Ended(sCompat')) = Cardinality(Ended(sCompat)) + 1
      BY <3>1, <3>2, <2>0, OneMoreEnded
    <3> QED BY <3>1, <3>3, <1>0
  <2> QED BY <1>4, <2>1, <2>2, <2>3 DEF ListSubjects!CompatibilityOf
<1>5. CASE \/ \/ ListSubjects!ListSubjects \/ ListSubjects!GetAll
           \/ ListSubjects!GetAllFails \/ ListSubjects!AwaitTasks
          \/ ListSubjects!ReportError \/ ListSubjects!DeliverSubjects
          \/ ListSubjects!OtherUsers \/ UNCHANGED ListSubjects!vars
  BY <1>2, <1>5
  DEF ListSubjects!ListSubjects, ListSubjects!GetAll, ListSubjects!GetAllFails,
      ListSubjects!AwaitTasks, ListSubjects!ReportError,
      ListSubjects!DeliverSubjects, ListSubjects!OtherUsers, ListSubjects!Register,
      ListSubjects!Delete, ListSubjects!vars
<1> QED BY <1>1, <1>3, <1>4, <1>5
    DEF ListSubjects!Next, ListSubjects!Goroutines, ListSubjects!Main

\* A task that has not ended leaves room for its error.
LEMMA RoomForError ==
  ASSUME CountedInv, NEW s \in Subjects, Pending(s)
  PROVE sErrs < ListSubjects!ErrsCapacity
<1> DEFINE V == Ended(sVersions)
           C == Ended(sCompat)
<1>1. sMain \notin BeforeTasks /\ sNames \in SUBSET Subjects
  BY DEF CountedInv, SubjectsInv, ListSubjects!TypeOK, TasksOfNames, Pending
<1>2. V \subseteq sNames /\ C \subseteq sNames /\ s \in sNames
  BY <1>1 DEF CountedInv, SubjectsInv, TasksOfNames, Ended, Pending
<1>3. V # sNames \/ C # sNames
  BY <1>2 DEF Ended, Pending
<1>4. IsFiniteSet(sNames)
  BY <1>1, SubjectsAssumption, FS_Subset
<1>5. /\ Cardinality(V) <= Cardinality(sNames) /\ Cardinality(C) <= Cardinality(sNames)
      /\ Cardinality(V) # Cardinality(sNames) \/ Cardinality(C) # Cardinality(sNames)
  BY <1>2, <1>3, <1>4, FS_Subset
<1>6. /\ Cardinality(V) \in Nat /\ Cardinality(C) \in Nat
      /\ Cardinality(sNames) \in Nat
  BY <1>4, EndedFinite, FS_CardinalityType
<1>7. sErrs \in Nat /\ sErrs <= Cardinality(V) + Cardinality(C)
  BY DEF CountedInv, SubjectsInv, ListSubjects!TypeOK, ErrsCounted
<1>8. ListSubjects!Cardinality(sNames) = Cardinality(sNames)
  BY Zenon DEF Cardinality, ListSubjects!Cardinality
<1> HIDE DEF V, C
<1> QED BY <1>5, <1>6, <1>7, <1>8 DEF ListSubjects!ErrsCapacity

\* The buffer of errs, two for each subject found, is large enough: no goroutine
\* waits to report an error, though nobody receives before all have ended
\* (subject_lister.go).
ErrorsFit == \A s \in Subjects : Pending(s) => sErrs < ListSubjects!ErrsCapacity
THEOREM ErrorsNeverBlock == ListSubjects!Spec => []ErrorsFit
<1>1. ListSubjects!Init => CountedInv
  BY SubjectsInit, EndedFinite DEF ListSubjects!Init, CountedInv, ErrsCounted
<1>2. CountedInv => ErrorsFit
  BY RoomForError DEF ErrorsFit
<1> QED BY <1>1, <1>2, CountedStep, PTL DEF ListSubjects!Spec

-----------------------------------------------------------------------------
(* The calls of one goroutine.                                             *)

\* What a program of steps keeps to: until it has reported, it asks and then
\* reports what became of that; after that it asks for nothing more.
Reports(step, message) == step.do = "send" /\ step.message = message
Ends(prog, next) == next = 0 \/ (next \in DOMAIN prog /\ prog[next].do # "request")
StepTruthful(prog, i) ==
  \/ /\ prog[i].do = "request"
     /\ prog[i].ok \in DOMAIN prog /\ prog[i].err \in DOMAIN prog
     /\ Reports(prog[prog[i].err], "error")
     /\ prog[prog[i].ok].do = "request" \/ Reports(prog[prog[i].ok], "done")
  \/ /\ prog[i].do = "close"
     /\ Ends(prog, prog[i].ok) /\ Ends(prog, prog[i].err)
  \/ /\ prog[i].do = "send"
     /\ prog[i].message \in {"error", "done"} /\ Ends(prog, prog[i].ok)
Truthful(prog) ==
  /\ 1 \in DOMAIN prog /\ prog[1].do = "request"
  /\ 0 \notin DOMAIN prog
  /\ \A i \in DOMAIN prog : StepTruthful(prog, i)

\* A step that asks, closes or reports as it should.
LEMMA AskingTruthful ==
  ASSUME NEW prog, NEW i, NEW j \in DOMAIN prog, NEW k \in DOMAIN prog,
         prog[i].do = "request", prog[i].ok = j, prog[i].err = k,
         Reports(prog[k], "error"), prog[j].do = "request" \/ Reports(prog[j], "done")
  PROVE  StepTruthful(prog, i)
  BY DEF StepTruthful

LEMMA ClosingTruthful ==
  ASSUME NEW prog, NEW i, NEW j, NEW k, prog[i].do = "close",
         prog[i].ok = j, prog[i].err = k, Ends(prog, j), Ends(prog, k)
  PROVE  StepTruthful(prog, i)
  BY DEF StepTruthful

LEMMA ReportingTruthful ==
  ASSUME NEW prog, NEW i, NEW j, prog[i].do = "send", prog[i].ok = j,
         prog[i].message \in {"error", "done"}, Ends(prog, j)
  PROVE  StepTruthful(prog, i)
  BY DEF StepTruthful

\* The four programs of the clients do.
LEMMA ProgramsTruthful ==
  /\ Truthful(Single!OneRequest) /\ Truthful(Single!CreateTopic)
  /\ Truthful(Single!ListCGroups) /\ Truthful(Single!ExecReq)
<1> USE DEF Single!Request, Single!Send, Single!Close, Single!Return
<1>1. Truthful(Single!OneRequest)
  <2> DEFINE prog == Single!OneRequest
  <2>1. DOMAIN prog = 1 .. 3
    BY DEF Single!OneRequest
  <2>2. /\ prog[1].do = "request" /\ prog[1].ok = 3 /\ prog[1].err = 2
        /\ prog[2].do = "send" /\ prog[2].message = "error" /\ prog[2].ok = 0
        /\ prog[3].do = "send" /\ prog[3].message = "done" /\ prog[3].ok = 0
    BY DEF Single!OneRequest
  <2> HIDE DEF prog
  <2> USE DEF Reports, Ends
  <2>3. StepTruthful(prog, 1)
    BY <2>1, <2>2, AskingTruthful
  <2>4. StepTruthful(prog, 2)
    BY <2>1, <2>2, ReportingTruthful
  <2>5. StepTruthful(prog, 3)
    BY <2>1, <2>2, ReportingTruthful
  <2>6. ASSUME NEW i \in DOMAIN prog PROVE StepTruthful(prog, i)
    <3>1. i = 1 \/ i = 2 \/ i = 3
      BY <2>1
    <3> QED BY <3>1, <2>3, <2>4, <2>5
  <2>7. 1 \in DOMAIN prog /\ 0 \notin DOMAIN prog
    BY <2>1
  <2> QED BY <2>2, <2>6, <2>7 DEF Truthful, prog
<1>2. Truthful(Single!CreateTopic)
  <2> DEFINE prog == Single!CreateTopic
  <2>1. DOMAIN prog = 1 .. 3
    BY DEF Single!CreateTopic
  <2>2. /\ prog[1].do = "request" /\ prog[1].ok = 3 /\ prog[1].err = 2
        /\ prog[2].do = "send" /\ prog[2].message = "error" /\ prog[2].ok = 3
        /\ prog[3].do = "send" /\ prog[3].message = "done" /\ prog[3].ok = 0
    BY DEF Single!CreateTopic
  <2> HIDE DEF prog
  <2> USE DEF Reports, Ends
  <2>3. StepTruthful(prog, 1)
    BY <2>1, <2>2, AskingTruthful
  <2>4. StepTruthful(prog, 2)
    BY <2>1, <2>2, ReportingTruthful
  <2>5. StepTruthful(prog, 3)
    BY <2>1, <2>2, ReportingTruthful
  <2>6. ASSUME NEW i \in DOMAIN prog PROVE StepTruthful(prog, i)
    <3>1. i = 1 \/ i = 2 \/ i = 3
      BY <2>1
    <3> QED BY <3>1, <2>3, <2>4, <2>5
  <2>7. 1 \in DOMAIN prog /\ 0 \notin DOMAIN prog
    BY <2>1
  <2> QED BY <2>2, <2>6, <2>7 DEF Truthful, prog
<1>3. Truthful(Single!ListCGroups)
  <2> DEFINE prog == Single!ListCGroups
  <2>1. DOMAIN prog = 1 .. 4
    BY DEF Single!ListCGroups
  <2>2. /\ prog[1].do = "request" /\ prog[1].ok = 2 /\ prog[1].err = 3
        /\ prog[2].do = "request" /\ prog[2].ok = 4 /\ prog[2].err = 3
        /\ prog[3].do = "send" /\ prog[3].message = "error" /\ prog[3].ok = 0
        /\ prog[4].do = "send" /\ prog[4].message = "done" /\ prog[4].ok = 0
    BY DEF Single!ListCGroups
  <2> HIDE DEF prog
  <2> USE DEF Reports, Ends
  <2>3. StepTruthful(prog, 1)
    BY <2>1, <2>2, AskingTruthful
  <2>4. StepTruthful(prog, 2)
    BY <2>1, <2>2, AskingTruthful
  <2>5. StepTruthful(prog, 3)
    BY <2>1, <2>2, ReportingTruthful
  <2>6. StepTruthful(prog, 4)
    BY <2>1, <2>2, ReportingTruthful
  <2>7. ASSUME NEW i \in DOMAIN prog PROVE StepTruthful(prog, i)
    <3>1. i = 1 \/ i = 2 \/ i = 3 \/ i = 4
      BY <2>1
    <3> QED BY <3>1, <2>3, <2>4, <2>5, <2>6
  <2>8. 1 \in DOMAIN prog /\ 0 \notin DOMAIN prog
    BY <2>1
  <2> QED BY <2>2, <2>7, <2>8 DEF Truthful, prog
<1>4. Truthful(Single!ExecReq)
  <2> DEFINE prog == Single!ExecReq
  <2>1. DOMAIN prog = 1 .. 6
    BY DEF Single!ExecReq
  <2>2. /\ prog[1].do = "request" /\ prog[1].ok = 2 /\ prog[1].err = 5
        /\ prog[2].do = "request" /\ prog[2].ok = 3 /\ prog[2].err = 6
        /\ prog[3].do = "send" /\ prog[3].message = "done" /\ prog[3].ok = 4
        /\ prog[4].do = "close" /\ prog[4].ok = 0 /\ prog[4].err = 5
        /\ prog[5].do = "send" /\ prog[5].message = "error" /\ prog[5].ok = 0
        /\ prog[6].do = "send" /\ prog[6].message = "error" /\ prog[6].ok = 4
    BY DEF Single!ExecReq
  <2> HIDE DEF prog
  <2> USE DEF Reports, Ends
  <2>3. StepTruthful(prog, 1)
    BY <2>1, <2>2, AskingTruthful
  <2>4. StepTruthful(prog, 2)
    BY <2>1, <2>2, AskingTruthful
  <2>5. StepTruthful(prog, 3)
    BY <2>1, <2>2, ReportingTruthful
  <2>6. StepTruthful(prog, 4)
    BY <2>1, <2>2, ClosingTruthful
  <2>7. StepTruthful(prog, 5)
    BY <2>1, <2>2, ReportingTruthful
  <2>8. StepTruthful(prog, 6)
    BY <2>1, <2>2, ReportingTruthful
  <2>9. ASSUME NEW i \in DOMAIN prog PROVE StepTruthful(prog, i)
    <3>1. i = 1 \/ i = 2 \/ i = 3 \/ i = 4 \/ i = 5 \/ i = 6
      BY <2>1
    <3> QED BY <3>1, <2>3, <2>4, <2>5, <2>6, <2>7, <2>8
  <2>10. 1 \in DOMAIN prog /\ 0 \notin DOMAIN prog
    BY <2>1
  <2> QED BY <2>2, <2>9, <2>10 DEF Truthful, prog
<1> QED BY <1>1, <1>2, <1>3, <1>4

LEMMA OperationsTruthful ==
  ASSUME NEW o \in Single!Operations PROVE Truthful(Single!Program[o])
<1>1. Single!Program[o] \in {Single!OneRequest, Single!CreateTopic, Single!ListCGroups,
                             Single!ExecReq}
  BY
  DEF Single!Operations, Single!Program, Single!DeleteTopic, Single!CreateTopic,
      Single!DeleteCGroup, Single!PublishRecord, Single!CheckConnectivity,
      Single!GetClusterConfig, Single!GetBrokerConfig, Single!DeleteSubject,
      Single!DeleteSchema, Single!CreateSchema, Single!GetLatestSchema,
      Single!GetSchemaById, Single!ListGlobalCompatibility, Single!CheckSrConnection,
      Single!ListConnectors, Single!PauseConnector, Single!ResumeConnector,
      Single!DeleteConnector, Single!ListVersion, Single!CheckKcConnection
<1> QED BY <1>1, ProgramsTruthful

\* What the goroutine has reported first, though a relay may not have passed
\* it on yet.
Told == IF cOp \in Single!Relayed THEN cRelay ELSE cAnswer
Verdict == IF cFailed THEN "error" ELSE "done"

\* Before its report a goroutine asks, or is about to tell the truth; after it,
\* it asks for nothing more; and what is passed on is what was reported.
SingleInv ==
  /\ cOp = "none" => cRelay = "none" /\ cAnswer = "none" /\ ~cFailed
  /\ cOp # "none" => cOp \in Single!Operations
  /\ cOp # "none" /\ Told = "none" =>
       /\ cPc \in DOMAIN Single!Program[cOp] /\ cPc # 0
       /\ \/ Single!Step.do = "request" /\ ~cFailed
          \/ Reports(Single!Step, Verdict)
  /\ cOp # "none" /\ Told # "none" =>
       /\ cPc = 0 \/ (cPc \in DOMAIN Single!Program[cOp] /\ Single!Step.do # "request")
       /\ Told = Verdict
  /\ cAnswer # "none" => cOp # "none" /\ cAnswer = Told
  /\ cRelay # "none" => cOp \in Single!Relayed
  /\ cFailed \in BOOLEAN

SingleCallStep == [Single!Contract!Next]_(Single!Contract!callVars)

LEMMA SingleInit == Single!Init => SingleInv /\ Single!Contract!Init
  BY DEF Single!Init, SingleInv, Told, Verdict, Single!Contract!Init

LEMMA SingleStep == SingleInv /\ [Single!Next]_(Single!vars) => SingleInv' /\ SingleCallStep
<1> SUFFICES ASSUME SingleInv, [Single!Next]_(Single!vars) PROVE SingleInv' /\ SingleCallStep
  OBVIOUS
<1> USE DEF SingleCallStep, Single!Contract!Next, Single!Contract!callVars,
        Single!Contract!Call, Single!Contract!RequestFails, Single!Contract!Answer
<1>0. "none" \notin Single!Operations
  BY DEF Single!Operations, Single!Program
<1>1. ASSUME NEW o \in Single!Operations, Single!Call(o) PROVE SingleInv' /\ SingleCallStep
  <2> DEFINE prog == Single!Program[o]
  <2>1. Truthful(prog)
    BY OperationsTruthful
  <2>2. 1 \in DOMAIN prog /\ prog[1].do = "request"
    BY <2>1 DEF Truthful
  <2> QED BY <1>0, <1>1, <2>2 DEF Single!Call, SingleInv, Told, Verdict, Single!Step
<1>2. ASSUME cOp \in Single!Operations, cPc \in DOMAIN Single!Program[cOp]
      PROVE  StepTruthful(Single!Program[cOp], cPc) /\ 0 \notin DOMAIN Single!Program[cOp]
  BY <1>2, OperationsTruthful DEF Truthful
<1> DEFINE prog == Single!Program[cOp]
<1>3. CASE Single!RequestSucceeds
  <2>1. /\ cOp \in Single!Operations /\ Told = "none" /\ ~cFailed
        /\ cPc \in DOMAIN prog /\ prog[cPc].do = "request" /\ cPc' = prog[cPc].ok
    BY <1>3
    DEF Single!RequestSucceeds, Single!AtStep, Single!Step, Single!Return, SingleInv,
        Reports
  <2>2. /\ cPc' \in DOMAIN prog /\ cPc' # 0
        /\ prog[cPc'].do = "request" \/ Reports(prog[cPc'], "done")
    BY <1>2, <2>1 DEF StepTruthful
  <2>3. /\ cOp' = cOp /\ cRelay' = cRelay /\ cFailed' = cFailed /\ cAnswer' = cAnswer
    BY <1>3 DEF Single!RequestSucceeds
  <2>4. Told' = Told /\ Verdict' = "done" /\ Single!Step' = prog[cPc']
    BY <2>1, <2>3 DEF Told, Verdict, Single!Step
  <2> QED BY <2>1, <2>2, <2>3, <2>4 DEF SingleInv
<1>4. CASE Single!RequestFails
  <2>1. /\ cOp \in Single!Operations /\ Told = "none"
        /\ cPc \in DOMAIN prog /\ prog[cPc].do = "request" /\ cPc' = prog[cPc].err
    BY <1>4
    DEF Single!RequestFails, Single!AtStep, Single!Step, Single!Return, SingleInv,
        Reports
  <2>2. cPc' \in DOMAIN prog /\ cPc' # 0 /\ Reports(prog[cPc'], "error")
    BY <1>2, <2>1 DEF StepTruthful
  <2>3. /\ cOp' = cOp /\ cRelay' = cRelay /\ cFailed' = TRUE /\ cAnswer' = cAnswer
    BY <1>4 DEF Single!RequestFails
  <2>4. Told' = Told /\ Verdict' = "error" /\ Single!Step' = prog[cPc']
    BY <2>1, <2>3 DEF Told, Verdict, Single!Step
  <2>5. cOp # "none" /\ cAnswer = "none"
    BY <1>0, <2>1 DEF SingleInv
  <2> QED BY <2>1, <2>2, <2>3, <2>4, <2>5 DEF SingleInv
<1>5. CASE Single!CloseBody
  <2>1. /\ cOp \in Single!Operations /\ Told # "none" /\ cOp # "none"
        /\ cPc \in DOMAIN prog /\ prog[cPc].do = "close"
        /\ cPc' \in {prog[cPc].ok, prog[cPc].err}
    BY <1>5
    DEF Single!CloseBody, Single!AtStep, Single!Step, Single!Return, SingleInv,
        Reports
  <2>2. Ends(prog, cPc')
    BY <1>2, <2>1 DEF StepTruthful
  <2>3. /\ cOp' = cOp /\ cRelay' = cRelay /\ cFailed' = cFailed /\ cAnswer' = cAnswer
    BY <1>5 DEF Single!CloseBody
  <2>4. Told' = Told /\ Verdict' = Verdict /\ Single!Step' = prog[cPc']
    BY <2>1, <2>3 DEF Told, Verdict, Single!Step
  <2> QED BY <2>1, <2>2, <2>3, <2>4 DEF SingleInv, Ends
<1>6. CASE Single!Report
  <2>1. /\ cOp \in Single!Operations /\ cOp # "none" /\ cPc \in DOMAIN prog
        /\ prog[cPc].do = "send" /\ cPc' = prog[cPc].ok /\ cOp' = cOp /\ cFailed' = cFailed
    BY <1>6 DEF Single!Report, Single!AtStep, Single!Step, Single!Return, SingleInv
  <2>2. Ends(prog, cPc')
    BY <1>2, <2>1 DEF StepTruthful
  <2>3. Told = "none"
    BY <1>6 DEF Single!Report, Told
  <2>4. prog[cPc].message = Verdict
    BY <2>1, <2>3 DEF SingleInv, Single!Step, Reports
  <2>5. Verdict' = Verdict /\ Verdict # "none" /\ Single!Step' = prog[cPc']
    BY <2>1 DEF Verdict, Single!Step
  <2>6. /\ cOp \in Single!Relayed => cRelay' = Verdict /\ cAnswer' = cAnswer
        /\ cOp \notin Single!Relayed => cAnswer' = Verdict /\ cRelay' = cRelay
    BY <1>6, <2>4 DEF Single!Report, Single!Step
  <2>7. Told' = Verdict /\ cAnswer = "none"
    BY <2>1, <2>3, <2>6 DEF Told, SingleInv
  <2>8. SingleInv'
    BY <2>1, <2>2, <2>5, <2>6, <2>7 DEF SingleInv, Ends
  <2>9. SingleCallStep
    BY <2>1, <2>6, <2>7 DEF Verdict
  <2> QED BY <2>8, <2>9
<1>7. CASE Single!PassOn
  <2>1. /\ cRelay # "none" /\ cAnswer = "none" /\ cAnswer' = cRelay
        /\ cOp' = cOp /\ cPc' = cPc /\ cRelay' = cRelay /\ cFailed' = cFailed
    BY <1>7 DEF Single!PassOn
  <2>2. cOp \in Single!Relayed /\ cOp # "none" /\ Told = cRelay /\ Told' = cRelay
    BY <2>1 DEF SingleInv, Told
  <2>3. Verdict' = Verdict /\ Single!Step' = Single!Step /\ Told = Verdict
    BY <2>1, <2>2 DEF Verdict, Single!Step, SingleInv
  <2>4. SingleInv'
    BY <2>1, <2>2, <2>3 DEF SingleInv
  <2>5. SingleCallStep
    BY <2>1, <2>2, <2>3 DEF Verdict
  <2> QED BY <2>4, <2>5
<1>8. CASE UNCHANGED Single!vars
  BY <1>8 DEF Single!vars, SingleInv, Told, Verdict, Single!Step
<1> QED
  BY <1>1, <1>3, <1>4, <1>5, <1>6, <1>7, <1>8 DEF Single!Next, Single!Goroutine

\* A call of one goroutine tells its caller an error only if a request failed,
\* and its result only if none did, and answers at most once, whatever its
\* goroutine goes on to report (CreateTopic does not return after the error).
THEOREM SingleCallTruthful == Single!Spec => Single!Contract!Safety
<1> QED
  BY SingleInit, SingleStep, PTL DEF Single!Spec, SingleCallStep, Single!Contract!Safety

-----------------------------------------------------------------------------
(* The calls together.                                                     *)

\* A call leaves the state of the others alone, so the clients as a whole are
\* each of the calls.
THEOREM CallsCompose ==
  MCSpec => Single!Spec /\ ListTopics!Spec /\ ListOffsets!Spec /\ ListSubjects!Spec
<1> USE DEF Next, CallSingle, CallTopics, CallOffsets, CallSubjects, SingleRuns,
        TopicsRuns, OffsetsRuns, SubjectsRuns
<1>1. [Next]_allVars => [Single!Next]_(Single!vars)
  BY DEF Single!Next, Single!vars, allVars, cVars
<1>2. [Next]_allVars => [ListTopics!Next]_(ListTopics!vars)
  BY
  DEF ListTopics!Next, ListTopics!vars, ListTopics!rowVars, ListTopics!callVars,
      allVars, tVars
<1>3. [Next]_allVars => [ListOffsets!Next]_(ListOffsets!vars)
  BY
  DEF ListOffsets!Next, ListOffsets!vars, ListOffsets!brokerVars,
      ListOffsets!listVars, ListOffsets!sliceVars, ListOffsets!callVars, allVars,
      oVars
<1>4. [Next]_allVars => [ListSubjects!Next]_(ListSubjects!vars)
  BY
  DEF ListSubjects!Next, ListSubjects!vars, ListSubjects!registryVars,
      ListSubjects!listVars, ListSubjects!taskVars, ListSubjects!callVars, allVars,
      sVars
<1>5. Init => Single!Init /\ ListTopics!Init /\ ListOffsets!Init /\ ListSubjects!Init
  BY DEF Init
<1> QED
  BY <1>1, <1>2, <1>3, <1>4, <1>5, PTL
  DEF MCSpec, Single!Spec, ListTopics!Spec, ListOffsets!Spec, ListSubjects!Spec

\* A delivered listing of topics has a row for every topic found, whatever
\* the goroutines of doListTopics interleave, and none when a request failed.
THEOREM TopicListingComplete == MCSpec => []ListingComplete
  BY CallsCompose, TopicsComplete, PTL DEF ListingComplete

\* A listing of a group's offsets has one entry per partition, and every lag
\* in it is unknown or counts records there are, although the group commits
\* and producers append while the goroutines ask for the ends.
THEOREM GroupLagsTruthful == MCSpec => []LagsTruthful
  BY CallsCompose, GroupLags, PTL DEF LagsTruthful

\* A delivered listing has every subject found, with versions exactly if it is
\* not shown as deleted; and one that is has been deleted by somebody, unless
\* the error of listing the active ones was ignored (doListSubject).
THEOREM SubjectListingTruthful == MCSpec => []SubjectsTruthful
  BY CallsCompose, SubjectsTold, PTL DEF SubjectsTruthful
=============================================================================
