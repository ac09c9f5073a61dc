---------------------------- MODULE TopicListing ----------------------------
(***************************************************************************)
(* ListTopics (kadmin/topic_lister.go): a goroutine lists the topics, one  *)
(* more goroutine per topic asks for its configuration by a call of its    *)
(* own and appends a row, and the rows are handed to the awaiting command. *)
(* All channels are unbuffered: a send and its receive are one step.       *)
(***************************************************************************)
EXTENDS ListingParameters

VARIABLES
  main,     \* where doListTopics is
  found,    \* the topics of listResult
  row,      \* per topic: where its goroutine is
  config,   \* per topic: where doListConfigs is
  mutex,    \* who holds mu
  seen,     \* per topic: the slice its goroutine appends to
  topics,   \* the rows collected
  failed,   \* history: a request the listing depends on has failed
  answer,   \* the message AwaitTopicListCompletion returned
  delivered \* the rows of that message

callVars == <<failed, answer, delivered>>
rowVars  == <<row, mutex, seen, topics>>
vars     == <<main, found, config, rowVars, callVars>>

Init ==
  /\ main = "idle"
  /\ found = {}
  /\ row = [t \in Topics |-> "off"]
  /\ config = [t \in Topics |-> "off"]
  /\ mutex = Nobody
  /\ seen = [t \in Topics |-> {}]
  /\ topics = {}
  /\ failed = FALSE
  /\ answer = "none"
  /\ delivered = {}

-----------------------------------------------------------------------------
(* doListTopics                                                            *)

ListTopics ==
  /\ main = "idle"
  /\ main' = "listing"
  /\ UNCHANGED <<found, config, rowVars, callVars>>

\* The list arrives; a goroutine per topic starts and calls ListConfigs.
StartRows ==
  /\ main = "listing"
  /\ main' = "waiting"
  /\ \E some \in SUBSET Topics :
       /\ found' = some
       /\ row' = [t \in Topics |-> IF t \in some THEN "awaiting" ELSE "off"]
       /\ config' = [t \in Topics |-> IF t \in some THEN "describing" ELSE "off"]
  /\ UNCHANGED <<mutex, seen, topics, callVars>>

ListingFails ==
  /\ main = "listing"
  /\ main' = "reportErr"
  /\ failed' = TRUE
  /\ UNCHANGED <<found, config, rowVars, answer, delivered>>

\* The awaiting command receives one value and no more.
Answered(message, rows) ==
  /\ answer = "none"
  /\ answer' = message
  /\ delivered' = rows

ReportListingError ==
  /\ main = "reportErr"
  /\ main' = "returned"
  /\ Answered("error", {})
  /\ UNCHANGED <<found, config, rowVars, failed>>

\* A bug: the result is delivered without waiting for the goroutines.
SkipWait ==
  /\ main = "waiting"
  /\ main' = "delivering"
  /\ UNCHANGED <<found, config, rowVars, callVars>>

AwaitRows ==
  /\ main = "waiting"
  /\ \A t \in found : row[t] = "done"
  /\ main' = "delivering"
  /\ UNCHANGED <<found, config, rowVars, callVars>>

DeliverTopics ==
  /\ main = "delivering"
  /\ main' = "returned"
  /\ Answered("done", topics)
  /\ UNCHANGED <<found, config, rowVars, failed>>

-----------------------------------------------------------------------------
(* doListConfigs of one topic                                              *)

DescribeConfig(t) ==
  /\ config[t] = "describing"
  /\ config' = [config EXCEPT ![t] = "sendConfigs"]
  /\ UNCHANGED <<main, found, rowVars, callVars>>

DescribeConfigFails(t) ==
  /\ config[t] = "describing"
  /\ config' = [config EXCEPT ![t] = "sendErr"]
  /\ failed' = TRUE
  /\ UNCHANGED <<main, found, rowVars, answer, delivered>>

-----------------------------------------------------------------------------
(* The goroutine of one topic                                              *)

\* AwaitCompletion of the configuration call.
ConfigsListed(t) ==
  /\ row[t] = "awaiting" /\ config[t] = "sendConfigs"
  /\ config' = [config EXCEPT ![t] = "returned"]
  /\ row' = [row EXCEPT ![t] = "locking"]
  /\ UNCHANGED <<main, found, mutex, seen, topics, callVars>>

ConfigListingError(t) ==
  /\ row[t] = "awaiting" /\ config[t] = "sendErr"
  /\ config' = [config EXCEPT ![t] = "returned"]
  /\ row' = [row EXCEPT ![t] = "reportErr"]
  /\ UNCHANGED <<main, found, mutex, seen, topics, callVars>>

\* Blocks for ever, as does AwaitRows, when another error has been received.
ReportConfigError(t) ==
  /\ row[t] = "reportErr"
  /\ row' = [row EXCEPT ![t] = "done"]
  /\ Answered("error", {})
  /\ UNCHANGED <<main, found, config, mutex, seen, topics, failed>>

\* mu.Lock() and the reading half of the append.
LockRows(t) ==
  /\ row[t] = "locking"
  /\ mutex = Nobody
  /\ mutex' = t
  /\ seen' = [seen EXCEPT ![t] = topics]
  /\ row' = [row EXCEPT ![t] = "appending"]
  /\ UNCHANGED <<main, found, config, topics, callVars>>

\* The writing half of the append and mu.Unlock().
AppendRow(t) ==
  /\ row[t] = "appending"
  /\ topics' = seen[t] \union {t}
  /\ mutex' = Nobody
  /\ row' = [row EXCEPT ![t] = "done"]
  /\ UNCHANGED <<main, found, config, seen, callVars>>

-----------------------------------------------------------------------------
Main == StartRows \/ ListingFails \/ ReportListingError \/ AwaitRows \/ DeliverTopics

Config(t) == DescribeConfig(t) \/ DescribeConfigFails(t)

Row(t) == \/ ConfigsListed(t) \/ ConfigListingError(t) \/ ReportConfigError(t)
          \/ LockRows(t) \/ AppendRow(t)

Goroutines == Main \/ \E t \in Topics : Config(t) \/ Row(t)

Next == ListTopics \/ Goroutines

Spec == Init /\ [][Next]_vars

\* The Go scheduler runs every goroutine that can move, and sarama's requests
\* return (they have timeouts).
Fairness == /\ WF_vars(Main)
            /\ \A t \in Topics : WF_vars(Config(t)) /\ WF_vars(Row(t))

-----------------------------------------------------------------------------
(* Properties                                                              *)

TypeOK ==
  /\ main \in {"idle", "listing", "reportErr", "waiting", "delivering", "returned"}
  /\ found \subseteq Topics
  /\ row \in [Topics -> {"off", "awaiting", "reportErr", "locking", "appending", "done"}]
  /\ config \in [Topics -> {"off", "describing", "sendErr", "sendConfigs", "returned"}]
  /\ mutex \in Topics \union {Nobody}
  /\ seen \in [Topics -> SUBSET Topics]
  /\ topics \subseteq Topics
  /\ failed \in BOOLEAN
  /\ answer \in {"none", "error", "done"}
  /\ delivered \subseteq Topics

\* A page that is told the topics is told all of them: no row is lost to
\* another goroutine's append or to an early delivery, and a list with a topic
\* whose configuration could not be read is never delivered.
ListingComplete == answer = "done" => delivered = found /\ ~failed

\* The listing implements the contract of a call.
Contract == INSTANCE AdminCall WITH called <- main # "idle"
=============================================================================
