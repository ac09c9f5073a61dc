---------------------------- MODULE MCAdminCalls ----------------------------
(***************************************************************************)
(* One call of an admin client, of any kind: the calls share nothing but   *)
(* the connection, so one is made at a time.                               *)
(***************************************************************************)
EXTENDS ListingParameters

CONSTANTS a, b

MCPair  == {a, b}
MCErrorValue == -9

VARIABLES cOp, cPc, cRelay, cFailed, cAnswer
VARIABLES tMain, tFound, tRow, tConfig, tMutex, tSeen, tTopics, tFailed, tAnswer, tDelivered
VARIABLES oEnd, oCommitted, oMain, oListed, oBlocks, oWorker, oHwm, oMutex, oSeen,
          oOffsets, oFailed, oAnswer, oDelivered
VARIABLES sRegistry, sEverDeleted, sMain, sNames, sActive, sActiveRead, sVersions,
          sCompat, sErrs, sFailed, sAnswer, sDelivered

Single == INSTANCE AdminCalls
            WITH op <- cOp, pc <- cPc, relay <- cRelay, failed <- cFailed, answer <- cAnswer

ListTopics == INSTANCE TopicListing
            WITH main <- tMain, found <- tFound, row <- tRow,
                 config <- tConfig, mutex <- tMutex, seen <- tSeen, topics <- tTopics,
                 failed <- tFailed, answer <- tAnswer, delivered <- tDelivered

ListOffsets == INSTANCE OffsetListing
            WITH end <- oEnd, committed <- oCommitted, main <- oMain, listed <- oListed,
                 blocks <- oBlocks, worker <- oWorker, hwm <- oHwm, mutex <- oMutex,
                 seen <- oSeen, offsets <- oOffsets, failed <- oFailed,
                 answer <- oAnswer, delivered <- oDelivered

ListSubjects == INSTANCE SubjectListing
            WITH registry <- sRegistry, everDeleted <- sEverDeleted,
                 main <- sMain, names <- sNames, active <- sActive,
                 activeRead <- sActiveRead, versions <- sVersions, compat <- sCompat,
                 errs <- sErrs, failed <- sFailed, answer <- sAnswer,
                 delivered <- sDelivered

cVars == <<cOp, cPc, cRelay, cFailed, cAnswer>>
tVars == <<tMain, tFound, tRow, tConfig, tMutex, tSeen, tTopics, tFailed, tAnswer, tDelivered>>
oVars == <<oEnd, oCommitted, oMain, oListed, oBlocks, oWorker, oHwm, oMutex, oSeen,
           oOffsets, oFailed, oAnswer, oDelivered>>
sVars == <<sRegistry, sEverDeleted, sMain, sNames, sActive, sActiveRead, sVersions,
           sCompat, sErrs, sFailed, sAnswer, sDelivered>>
allVars == <<cVars, tVars, oVars, sVars>>

\* The other side of the calls that are not made stands still: at the start
\* either the broker or the registry varies, and it moves during its call only.
Init == /\ Single!Init /\ ListTopics!Init /\ ListOffsets!Init /\ ListSubjects!Init
        /\ \/ \A p \in Partitions : oEnd[p] = 0
           \/ \A s \in Subjects : sRegistry[s] = "none"

NothingCalled == cOp = "none" /\ tMain = "idle" /\ oMain = "idle" /\ sMain = "idle"

CallSingle == NothingCalled /\ (\E o \in Single!Operations : Single!Call(o)) /\ UNCHANGED <<tVars, oVars, sVars>>
CallTopics == NothingCalled /\ ListTopics!ListTopics /\ UNCHANGED <<cVars, oVars, sVars>>
CallOffsets == NothingCalled /\ ListOffsets!ListOffsets /\ UNCHANGED <<cVars, tVars, sVars>>
CallSubjects == NothingCalled /\ ListSubjects!ListSubjects /\ UNCHANGED <<cVars, tVars, oVars>>

SingleRuns   == (Single!Goroutine \/ Single!PassOn) /\ UNCHANGED <<tVars, oVars, sVars>>
TopicsRuns   == ListTopics!Goroutines /\ UNCHANGED <<cVars, oVars, sVars>>
OffsetsRuns  == /\ ListOffsets!Goroutines \/ (oMain \notin {"idle", "returned"} /\ ListOffsets!Broker)
                /\ UNCHANGED <<cVars, tVars, sVars>>
SubjectsRuns == /\ ListSubjects!Goroutines \/ (sMain \notin {"idle", "returned"} /\ ListSubjects!OtherUsers)
                /\ UNCHANGED <<cVars, tVars, oVars>>

Next == \/ CallSingle \/ CallTopics \/ CallOffsets \/ CallSubjects
        \/ SingleRuns \/ TopicsRuns \/ OffsetsRuns \/ SubjectsRuns

MCSpec == /\ Init /\ [][Next]_allVars
          /\ Single!Fairness /\ ListTopics!Fairness
          /\ ListOffsets!Fairness /\ ListSubjects!Fairness

\* A listing of topics that is delivered is complete (see TopicListing).
ListingComplete == ListTopics!ListingComplete

\* The lags of a group are those of its committed offsets (see OffsetListing).
LagsTruthful == ListOffsets!LagsTruthful

\* The subjects are told apart by whether they are deleted (see SubjectListing).
SubjectsTruthful == ListSubjects!SubjectsTruthful

\* Every call, of whatever kind, is answered once and truthfully.
CallContract == /\ Single!Contract!Spec /\ ListTopics!Contract!Spec
                /\ ListOffsets!Contract!Spec /\ ListSubjects!Contract!Spec
=============================================================================
