# A verification development of ktea

ktea is a terminal client for Kafka, its schema registry and Kafka Connect,
written in Go on the bubbletea framework. This directory holds TLA+ modules that
model its concurrent and stateful core, TLC configurations that check them on
small instances, and theorems checked by TLAPS that hold for every instance.
Everything is translated from the Go sources under `src/`; `PROJECT.json` maps
each definition to the lines it stands for.

How to run: `tlc -config MCRecordReader.cfg MCRecordReader.tla` for a run,
`tlapm RecordReader_proofs.tla` for the proofs of a module.

## 1. The system

ktea is one UI loop plus short-lived goroutines. bubbletea calls `Update` of the
root model with one message at a time; `Update` changes the model and returns
commands (`tea.Cmd`), functions bubbletea runs in goroutines of their own and
whose result it delivers as the next message. An operation on Kafka follows one
pattern: a command starts a goroutine and returns a *started* message holding
channels; the page that sees the started message returns an *await* command that
selects on those channels and hands back the result. So what may go wrong sits
in three places: in the goroutines and channels behind a started message, in the
chain of await commands, and in which page is there when the message arrives.

| component | state | operations | interacts with | hard behaviour |
|---|---|---|---|---|
| record reader (`kadmin/record_reader.go`) | offsets per partition, the atomic record counter, four channels, a cancellable context | `ReadRecords`, `fetchOffsets`, one goroutine per partition, closer goroutine, `shutdown` | broker; consume page through `AwaitRecord`/`AwaitNextRecord` | interleaved counting and sending, shutdown order, cancel at any time, offsets that move or hold nothing deliverable, partial failure |
| consume page (`ui/pages/consume_page`) | rows, "consuming", "empty topic", "no records found" flags; the running await command | messages of the read, esc, F2, enter | reader, topics tab, record details page | a batch loop against closing channels, messages for a page that is not shown |
| topics tab (`ui/tabs/topics_tab` and the topic, configs, publish, creation, form and details pages) | active page, cached consume page, the list of topics and its rows | page loads, routing of messages | all topic operations | messages of a read that was left reaching a later page |
| topic lister, creator, deleter, config lister and updater, publisher (`kadmin`) | a goroutine and one result and one error channel per call | list, create, delete, update, publish | broker, the pages | fan-out with unbuffered channels read once, double sends after a missing `return`, shared producer configuration |
| consumer groups (`kadmin/cgroup_*`, `offset_lister.go`, their pages) | as above | list, delete, list offsets | broker, pages | as above |
| schema registry admin (`sradmin`) | as above, fan-out per subject and version | list subjects, versions, delete, create, check | registry, pages | partial failure of the fan-out |
| schema registry pages (`subjects_page`, `schema_details_page`, `create_schema_page`, `sr_tab`) | the subjects and the tab they are shown on, two prompts; the versions of a subject and the one chosen; a form | list, delete softly and for good, choose and delete versions, register | registry admin, root model | a decision taken from the tab shown at the wrong moment, answers to a page that was left |
| Kafka Connect admin and page (`kcadmin`, `kcon_page`) | connectors, the connector whose state is changing, a deadline | pause, resume, delete, poll for the state | Connect's REST interface | poll against deadline, state never cleared |
| cluster configuration (`config`) | the clusters, which one is active; a file | register, switch, delete, flush | clusters page, file system | names that collide, crash while the file is rewritten |
| clusters page, form and switching (`cmd/ktea/main.go`, `clusters_tab`, `clusters_page`, `upsert_cluster_page.go`, `upsert_kcon.go`) | the tabs, the running connection check, the rows and the cursor, the values of the form and what it last drew | check, switch, delete, register, rename, add and delete Connect clusters, recreate tabs, route messages | every tab, configuration | answers for another page or cluster, a check nobody awaits, a form that remembers too much |
| command bars and notifier (`ui/components/cmdbar`, `notifier`) | the active bar, a flag or state per bar, the notification shown, its timer | search, sort, delete, notify, auto-hide | every table page | timers of earlier notifications |
| client construction, deserialization, layout, generator | none of its own | - | - | - |

What makes each correct:

- *Record reader.* No send on a closed channel, no channel closed twice; the
  offsets asked for exist; records of a partition arrive in order and none is
  missing from the window; the limit bounds the read; a cancelled read leaves no
  goroutine behind; a bounded read ends.
- *Consume page.* It uses the channels only as a receiver; a record that was
  sent reaches the page; "Empty topic" and "No records found" are told only of a
  read without records; no await command stays blocked after a cancel.
- *Topics tab.* A message reaches the page whose request it answers.
- *Result channels.* Each goroutine terminates, whoever listens, and each call
  yields exactly one result.
- *Kafka Connect page.* The connector reported is the one that was changed; after
  success, failure or timeout the page accepts the next command.
- *Configuration.* Names are unique, one cluster at most is active, the file
  holds a configuration that was valid at some time.
- *Switching.* What is switched to, or registered, is what was checked; after a
  switch the tabs work with the active cluster.
- *Forms.* A form asks for what its values call for; registering a cluster loses
  none of its Connect clusters.
- *Registry.* What is deleted, and how, is what was confirmed; what is shown
  follows what was deleted.
- *Bars.* Exactly one bar has the focus and a notification stays its time.

`PROJECT.json` lists under `hazards` each place where one of these is at stake.

## 2. Modules

```
ReadingOffsets            offset arithmetic (pure)              MCReadingOffsets, RecordReader_proofs
  RecordReader            one read: goroutines, channels        MCRecordReader, RecordReader_proofs
    ConsumePage           await commands, page and keys         MCConsumePage, ConsumePage_proofs

AdminCall                 abstract: one call, one true answer
  AdminCalls              the calls of one goroutine            \
  TopicListing            topics with a fan-out per topic        | MCAdminCalls,
  OffsetListing           lags with a fan-out per partition      | AdminCalls_proofs
  SubjectListing          subjects with two tasks per subject   /
  (ListingParameters: the constants of the three)

ClusterStore              abstract: a map with an active entry
ClusterList               what Config's methods do to the list
  ClusterConfig           the list of clusters and its file     MCClusterConfig, ClusterConfig_proofs

ConnectorPage             page, tab and requests of Connect     MCConnectorPage

CommandBars               the bars above a table (operators)    CommandBars_proofs
  TopicsPage              the topics page with its bars         MCTopicsPage, TopicsPage_proofs
  ConnectForm             the Connect tab of a cluster's form   (operators)
    ClusterForm           the form; extends ClusterList too     (operators)
      ClustersTab         clusters tab and root model           MCClustersTab, MCClusterNames.cfg,
                                                                  ClustersTab_proofs
  SubjectsPage            the subjects page                     (operators)
    SchemaPages           versions of a subject, new schema     (operators)
      RegistryTab         registry tab, requests, root model    MCRegistryTab, RegistryTab_proofs
```

### ReadingOffsets

`determineReadingOffsets` and its helpers, operator by operator. The float
division of the limit by the number of partitions is `\div`. `Today`,
`Yesterday` and `Last7Days` differ only in the instant that is asked of the
broker, so `"Since"` stands for all three.

### RecordReader

One read from `ReadRecords` until the goroutines are gone.

| variable | code |
|---|---|
| `rd` | `ReadDetails`: start point and limit |
| `log` | what the broker holds: oldest offset, first offset of the period, a kind per offset (passes the filter, is rejected, is never delivered) |
| `fetch`, `offsets` | the goroutines of `fetchOffsets` and the map they fill under the mutex |
| `main`, `toClose` | the program counter of `doReadRecords` and of its closer goroutine, the channels still to close |
| `reader`, `window`, `next` | each partition goroutine's program counter, its `readingOffsets`, the position of its consumer |
| `msgCount` | the `atomic.Int64` |
| `records`, `full`, `closed` | the buffered `ConsumerRecord` channel; which of the one-place channels `Err`, `EmptyTopic`, `NoRecordsFound` hold a value; what has been closed |
| `cancelled` | `ctx.Done()` |
| `sent` | history: the offsets sent |

Each action is one step between two points at which another goroutine can be
seen: the two `GetOffset` calls of a fetcher, the check on the fetched offsets,
each close of `shutdown`, and for a partition goroutine connecting, receiving
and counting a record, and sending it (where the `select` with `ctx.Done()` may
choose either way). The count (`msgCount.Add(1)`) and the send are separate
steps, since other goroutines count in between. A blocked send is an action that
is not enabled. The environment appends to partitions at any time, takes from the
channels or not, and cancels.

Two paths of `doReadRecords` deserve notice. After an error of `fetchOffsets`
the code reports it, closes `ConsumerRecord` and `Err`, and does not return: the
nil map counts as "no records found", so it goes on to cancel and to send on
`NoRecordsFound` (actions `ReportFetchError`, `CloseNext`,
`ReportNoRecordsFound`). And with nothing to read (`ReportEmptyTopic`) the closer
goroutine still runs.

### ConsumePage

`ConsumePage` extends `RecordReader` with the awaiter: `await` is the command
that runs (`AwaitRecord`, `AwaitNextRecord`, or the latter's 50 ms loop with its
`batch`), `inbox` the message it has returned, and `view`, `consuming`, `shown`,
`flagged` the page. There is one command at a time, since each message starts at
most one. `view` is what the topics tab shows: messages go to the active page
only, so while a record's details are shown a message of the read is dropped
(`UpdateIgnored`). The 50 ms are left out: the loop may end at any moment, hence
also before or after any number of records. A receive from a closed channel in
the loop yields `ZeroRecord`.

The page replaces the reader's free environment: `TakeRecord`, `TakeSignal` and
`Cancel` occur only as part of its actions.

### AdminCall, AdminCalls and the listings

`AdminCall` states what every call of `kadmin`, `sradmin` and `kcadmin` promises
the page: it is answered once, with an error only if a request the call depends
on has failed, with its result only if none has.

`AdminCalls` holds the calls that are one goroutine. Each is a short program
(`Request`, `Send`, `Close`, one definition per operation) run by one set of
actions; a send on an unbuffered channel is possible only while the await
command receives, which it does once. `Relayed` calls (the connection check of
Connect) pass an answer on from a second goroutine.

The three listings that fan out have modules of their own, with one program
counter per goroutine. The mutex is a variable, and an `append` is two steps
(`seen` is the slice that was read), so that a missing lock would lose rows.
`OffsetListing` lets the group commit and producers append while the ends are
asked for; `SubjectListing` lets other users register and delete subjects.

### ClusterStore, ClusterList and ClusterConfig

`ClusterList` has the methods of `Config` as operators on the list. `ClusterConfig` keeps `clusters` (the slice), `file`, `phase` (the truncation and
the write are steps of their own) and `answer` (what the operation returned). An
operation is one action up to `flush`; `Truncate` and `Write` follow; `Stop` may
occur at any instant and `Start` reads the file again. `ClusterStore` is the
abstract store: a map from names to settings with an active entry and a saved
copy that is replaced by way of an empty one. `ClusterConfig!StoreSpec` is the
refinement.

### ConnectorPage

The page of one Connect cluster, the tab around it and the routing of the root
model. `call[k]` is a request under way with its chain of messages (starting,
awaiting, the loop that lists until a state is reached, answered);
`page`/`active`/`focused` say which page is there when a message arrives;
`shown`, `loading`, `spinner`, `changing`, `deadline` are the fields of the
pages. The page that hears a message is the one that is active then, and the
connector it acts on the one that is selected then, as in the code.

### CommandBars and TopicsPage

The four bars of `TableCmdsBar` are one record; each `Update` method is an
operator that returns the next record, whether the bar stays active, whether the
message was consumed, and the commands (`Outcome`). A page's notification
handlers are a record from message types to what they do to the notifier. So the
bars can be used by each page that has a table; `TopicsPage` is the first.

`TopicsPage` keeps the fields of the page (`topics`, `state`, `showInternal`,
`rows`, `tcb`), where the user is (`onPage`, `onTab`), the requests in the order
made (`issued`: the started message is on its way; `awaited`: the result is), the
spinner's tick, the 5 s timers and the hide messages. Every handler that ends in
the common part of `Update` goes through `Bar`: bars first, rows after. `Started`
in particular is where a message that does not reach the page ends its request:
nobody awaits the result.

Left out of the bars: the columns and directions of the sort bar and the order of
the rows (rows are a set), the texts, and how a key edits the search term (a key
message says what the input holds afterwards). A page change requested by a
message (`PublishMsg`) is one step with the key that requests it.

### ConnectForm, ClusterForm and ClustersTab

`ConnectForm` and `ClusterForm` are the page on which a cluster is edited, as
operators on a record: `FormUpdate(clusters, form, message, row)` gives the next
record and the commands. Both forms (`c`, `sr`) write into one set of `values`, as
both huh forms bind to one struct; `own` is the answers a form has that are not
the shared values' (a form made anew by ctrl+r on another tab), `fields` what it
asks for. Which fields those are depends on the choices the page remembers (`sasl`,
`tls`, `ver`), and `After...` say when a form is made anew.

`ClustersTab` puts the form and the clusters page under the root model.

| variable | code |
|---|---|
| `clusters` | `Config.Clusters`; it changes when the command that asks for it runs |
| `page` | `clusters_tab.Model.active`: the list with its bars, rows and cursor, or the form |
| `tabs` | the tabs offered, the one marked (`bar`), the one last acted on, the one that gets the messages (`ctrl`), whether esc goes back |
| `locked`, `connErr` | `switchingCluster`, `startupConnErr` |
| `client` | the cluster whose client the topics tab has |
| `jobs` | commands issued and not yet run, checks issued or awaited, messages under way |
| `timer` | a page was left before its notification was hidden |
| `crashed` | the program panicked |

`Handle` is the root model's `Update`: its switch (`RootSwitch`), the tab bar
(`FollowBar`), the tab shown. `BootstrapUI` may fail to reach the cluster.
The commands of the page run in goroutines of their own, after the `Update` that
returned them: `Run` puts them into `jobs`, and `CommandRuns` is where one reads what it
acts on. The command of a confirmed deletion and that of a switch read the row
under the cursor then (`clusters_page.go:64-79`, `:154-160`), that of a registration
the form's values; `held` is what a command finds on a page that has been left
meanwhile. `SwitchCluster` returns a pointer into the list (`config.go:262`), so that its
message carries a position too, and `PointedTo` is what is there when it is handled.
`alone` is history: nothing has come in between that may change what a command or a
check is about.
`CheckStarts` delivers the started message to whatever is shown: only a page that
returns an await command has `awaits` set, else nobody awaits the answer. A panic
is part of the code's behaviour and ends the behaviour here too (`Crash`).

### SubjectsPage, SchemaPages and RegistryTab

The same shape for the registry's tab. `SubjectsPage` puts a second prompt (F4,
for good) over the bars of `CommandBars`; `SchemaPages` has the versions of a
subject (`schemas`, the chips, the label chosen, the schema drawn, the spinner and
prompt of its own bar) and the form that registers a schema. `RegistryTab` adds
the registry itself (`registry`: live versions and the soft mark of each subject),
the requests under way (`jobs`, with how far they are and how the registry took
them), which page is shown and whether the tab has the focus, and `Routed`, the
messages `main.go` hands to this tab though another has the focus. A deletion is
`issued` until its command runs, which is when it is decided whether it is for good
(`Permanent`). `stray` and `by` are history.

## 3. Runs

| run | shows | bounds |
|---|---|---|
| `reading_offsets` | the window equals a reference set of offsets | ends up to 9, limits up to 8, up to 4 partitions: a share of 0, 1, the whole partition and less of it all occur |
| `reader` | overrun, channel discipline, completeness, windows | below |
| `reader_live` | a cancelled read winds down although nobody takes from its channels; a bounded read whose last offsets can be delivered ends when drained | one failing partition |
| `consume_page` | the page implements the reader's specification, loses and reorders nothing, tells verdicts only of an empty read; after a cancel the await command returns | batches of 2, one producer step |
| `cluster_config` | unique names, one active cluster at most, the file follows, refinement of the store | three names, two sets of details, one Connect cluster; a missing, a written and a hand written file |
| `admin_calls` | every call is answered once and truthfully; listings are complete | two topics, partitions, subjects; one more record per partition |
| `connectors` | waits end; a page does not load for ever | two connectors, two requests at a time, three in all, two pages |
| `topics_page` | the open bar has the keys, rows follow the list, a deletion was confirmed, when the page may be stuck or show a stale notification | one topic, an internal one; a term that matches it and one that does not; two requests, one notification timer |
| `clusters_tab` | what was checked is used; what was confirmed is deleted; tabs work with the active cluster; forms ask for what they need; waits, Connect clusters | eleven users, below |
| `registry_tab` | one prompt at a time, deletions as confirmed, lists and versions follow deletions, when a page waits | seven users, below |
| `reader_limit`, `cluster_names` | the code disagrees with a test or a validation (section 5) | smallest instance that shows it |

*Bounds of the reader.* Two partitions are the least at which goroutines
interleave, the `Err` channel can be full and a limit is shared; no guard speaks
of more than two goroutines at once except the sum of counts, which is proved for
any number. Logs have up to three offsets, so every kind is met as first, middle
and last record of a window, and the oldest retained offset may be above zero.
`MaxOffset` bounds producers: a log shorter than it grows while it is read.
`Faulty` limits which partition's broker calls may fail (one of the two, so that
failure and progress interleave). `MaxBatch` bounds the zero records one batch
takes from a closed channel. The requests contain limits below, at and
above the number of partitions.

*Bounds elsewhere.* Two goroutines of a fan-out are enough to lose a row to the
other or to report two errors; the theorems cover any number. In `admin_calls`
one call is made at a time because the calls share only the connection. Three
names let a cluster be renamed to a free name and to a used one. In
`connectors` two requests overlap, and a third comes after one of them; two pages
let an answer arrive at the page opened later. In `topics_page` an internal topic
is shown or not by F4 and by the search, and enter on an empty table is met after
either; a second topic multiplies the states without a new kind of step, and what
it could break (a prompt that deletes another topic than it names) is proved for
any set of topics (`DeletionsConfirmed`).

*Users as bounds.* The forms and the pages of the registry take some thirty kinds
of input; all of them at once are out of TLC's reach, and most do not interact.
`MCClustersTab` and `MCRegistryTab` therefore check a set of users: each starts
from a configuration or registry, presses a subset of the keys in any order and
any number of times, and has a bound on the requests under way. The subsets are
chosen along the hazards: who switches while moving between tabs, deletes twice,
deletes while a check makes the cluster the active one, opens a form during a check,
chooses transports back and forth, creates the first cluster, renames, adds and
removes Connect clusters, leaves the tab during their registration, searches; who
deletes on both tabs of the subjects, leaves during a listing, goes from subject to
subject, chooses versions, deletes versions and leaves the tab, registers. Messages, answers, failures, timers and frames come to
every user in every order. Together they fire every action; the runs have about
376 000 and 246 000 states. Two clusters suffice for a selection that moves away
from what was checked, and three names for a rename to a free and to a used one;
two subjects and two versions for an answer that meets another subject's page.

`CHECK_DEADLOCK FALSE` is set where the modelled program ends: a read that is
over, a call that is answered, the bounded number of requests and visits, a user
who has nothing left to press, a panic.

*Fairness.* `RecordReader!Fairness` gives weak fairness to each goroutine (the Go
scheduler runs what can run; a `select` with a ready case does not block).
`Drained` adds it for the awaiter; it is a premise of `ReadEnds`, which assumes a
page that keeps receiving, and not of `CancelStops`. `PageFairSpec` adds the page's commands, the timer of the batch
loop (without it, a closed channel would be received from for ever) and
bubbletea's delivery of messages. The admin calls assume that goroutines run and
that requests return (sarama and the HTTP clients have timeouts), `ConnectorPage`
in addition that messages are delivered, the loop goes on and the deadline
passes. No fairness is given to the user, to producers, to other users of a
server, or to errors. Fairness does not say which case a Go `select` chooses, so
nothing depends on it. `cluster_config`, `topics_page`, `clusters_tab` and
`registry_tab` check safety only: what a page waits for is lost in the code once a
message meets another page, so that the question is which steps lose it
(`WaitsOnlyIfLeft`, `WaitsOnlyIfMissed`, `StuckOnlyIfLeft`).

*Properties with exceptions.* Some action properties say that a step breaks a
relation only under a named condition. The conditions are what the code does, each
is listed under Observed, and the mutants show that the code breaks the relation
in further cases when a guard is dropped.

*Liveness has its preconditions in the formula.* `ReadEnds` assumes
`EndIsVisible`: no undeliverable offset, nothing rejected by a filter in a read
from the beginning, and a limit of at least one per partition. Without these a
read does wait for ever, see section 5. `CancelStops` is checked with one failing
partition: with two, the second goroutine blocks on `Err`, which holds one error,
when nobody receives. `ListingsSettle` excludes deletions, after whose failure
the page does stay in its loading state.

## 4. Theorems

| module | theorem | states |
|---|---|---|
| `RecordReader_proofs` | `WindowsAreReference` | the window asked for is the reference one, whatever limit, partitions and offsets |
| | `TypeCorrect` | types of a read |
| | `ChannelsDisciplined` | no send on a closed channel, no double close |
| | `OverrunBounded` | at most `Cardinality(Partitions) - 1` records past the limit |
| | `WindowsInLog` | bounded reads ask only for offsets there are |
| | `WindowsComplete` | a goroutine that returned by itself has sent every matching record of its window |
| `ConsumePage_proofs` | `PageImplementsReader` | `PageSpec => Spec` |
| | `PageReadsSafely` | channel discipline and overrun bound under the page |
| | `PageTypeCorrect`, `VerdictsExclusive` | types; no verdict besides records, never both verdicts |
| | `RowsShownInOrder`, `RecordsKept` | the order of a partition's rows; no record is lost between channel and rows |
| `ClusterConfig_proofs` | `ConfigTypeCorrect`, `NamesStayUnique`, `OneStaysActive`, `FileFollows` | types; unique names; one active cluster; between operations the file is what the program shows |
| | `ConfigImplementsStore` | `Spec => StoreSpec`: the configuration implements the store |
| `AdminCalls_proofs` | `TopicListingComplete`, `TopicListingTruthful` | a delivered listing has every topic; the listing implements `AdminCall` (safety) |
| | `GroupLagsTruthful`, `OffsetListingTruthful` | the lags; the listing implements `AdminCall` (safety) |
| | `SubjectListingTruthful`, `SubjectListingAnswers` | who is shown as deleted; the listing implements `AdminCall` (safety) |
| | `ErrorsNeverBlock` | the buffer of the error channel, two places a subject, is never full when a goroutine reports |
| | `SingleCallTruthful` | the calls of one goroutine implement `AdminCall` (safety), whatever they report after their answer |
| | `CallsCompose` | so do all calls together, as the run checks them |
| `TopicsPage_proofs` | `TypeCorrect`, `ActiveBarsOpen`, `RowsAlwaysFollow` | types; the invariants `ActiveBarIsOpen` and `RowsFollow` |
| | `DeletionsConfirmed` | only a confirmed deletion is requested, of the topic the prompt names |
| | `StuckOnlyByMissing`, `StaleOnlyByMissing` | the page spins without a request, a notification stays, only by a message missed while the page was not shown |
| `RegistryTab_proofs` | `Invariant` | types and relations of the tab, its pages, the registry and the requests |
| | `PromptsApart` | one prompt at a time (`OnePrompt`) |
| | `DeletionsAreAsked` | what is deleted, and whether for good, is what was asked (`PermanentIsAsked`) |
| | `ListIsTruthful` | the list does not come to show a deleted subject as active, but by an older listing or after it was left (`ListFollows`) |
| `ClustersTab_proofs` | `Invariant`, `TypesKept` | types and relations of the configuration, the page, the tabs and the messages under way |
| | `FieldsInStep` | a form asks for what its values call for, in whatever order they were chosen (`FieldsFollow`) |
| | `OnlyThePromptedGo` | the command of a confirmed deletion, which reads the cursor only when it runs, deletes what the prompt named and not the active cluster, unless something came in between (`DeletedIsPrompted`) |
| | `WaitsOnlyByLeaving` | nobody waits without a check, as long as the tab is not left (`WaitsOnlyIfLeft`) |

They hold for every value of the constants that satisfies the modules'
assumptions, which are: a finite non-empty set of partitions, positive limits (the
form offers 50 to 5000), logs whose oldest offset is at most the first of the
period and that at most the end, a zero record told apart from a real one; values
that stand for "nobody", "no name", "no item" or "no offset" outside the sets they
complete; finitely many subjects of a registry; for the topics page, finitely many topics and an empty term that
every topic matches. `RegistryTab` and `ClustersTab` assume of their users
(`SessionsAssumption`) only that each starts from a configuration or registry of
the right types and presses what there is to press (`Pressable`): keys, edits of
fields with values the fields take, messages no page knows. An edit of a select
field has a value that is one of its options, since huh has no way to undo a
choice (`upsert_cluster_page.go:581-600`). `NoSubjectAssumption` tells the empty
row of a table apart from the name of a subject.

Arguments:

- *Channels.* `ChannelDiscipline` is not inductive: that a goroutine has exited
  when a channel is closed needs to be known of every phase of `main`.
  `PhaseInv` says of each phase what it implies (before `StartPartitions` all
  goroutines are off; from `sleeping` on all have exited; `toClose` and `closed`
  together are a suffix and prefix of the two orders).
- *Overrun.* The counter passes the limit only by goroutines that then stop.
  `CountInv` bounds `msgCount` by `limit - 1` plus the number of goroutines that
  have taken their last record (`Stopped`) whenever it exceeds it. Each
  `AcceptRecord` past the limit adds its goroutine to `Stopped`, and no goroutine
  ever leaves that set.
- *Windows.* `OffsetsInv` relates what a fetcher stored to the log (which only
  grows), `WindowInv` the window to the stored offsets; the rest is arithmetic in
  lemmas about `ReadingOffsets`.
- *Completeness.* `ProgressInv` follows a goroutine: every matching record of its
  window below its `Position` has been sent, the record in hand not counted; or its
  consumer started at the newest offset and is past the window, where only a
  cancel or the limit ends it. The consumer delivers in order (`NothingBetween`),
  and producers only append (`RecordsStay`).
- *Page.* Each action of the page is an action of the reader or leaves the
  reader's variables unchanged. A verdict is told only on the paths of
  `doReadRecords` on which no goroutine was started, and nothing is in hand before
  something is sent (`VerdictInv`, `HandInv`). The order of the rows is that of
  the four places a record passes (rows, message, batch, channel) taken together,
  with everything sent below what its goroutine reads next (`OrderInv`,
  `SentInv`); that no record is lost needs that the message is handled before the
  next command runs (`MessageInv`, `BatchInv`).
- *Configuration.* Each operation on the list maps a well-formed list (typed,
  distinct names, one active at most) to a well-formed one, by a lemma each, of
  which deletion is the long one: positions move. With that, the invariant says
  of the file in each phase that it is well formed, empty, or the list.
- *Listings.* The invariants say who exists and who holds the mutex
  (`RowsOfFound`, `MutexHeld`: what the holder read is still what the slice
  holds), that finished goroutines have their entry, and that a failure is still
  on its way until it was received (`FailurePending`); without the latter a
  listing could be delivered after a failed request.
- *Store.* The refinement maps the list to a function from names to settings. A
  lemma for each operation of `ClusterList` says what it does to that function and
  to the active entry, given a well-formed list; a deletion hands the mark on to the
  first of the rest, which the abstract step leaves open.
- *Error channel.* Each goroutine reports at most once and then has ended, so that
  the channel holds no more errors than goroutines have ended (`ErrsCounted`); one
  that still has to report leaves a place.
- *Bars.* One lemma for each `Update` operator says what it returns; from these
  `TableUpdateKeeps` (typed bars, active bar open) and `TableUpdateConfirmed` (a
  deletion among the commands comes from the open, affirmed prompt) follow, and
  `BarKeeps` carries them to every handler of the page at once. That appending a
  deletion is told apart from every other change of the requests is
  `NotAppended`. The steps of the page then need no look into the bars.

- *Notifier.* Each message the page hears, handed through the bars more than once,
  leaves the notifier as if it had been handed to it alone (`NoteAfter`), and a
  message that puts up a notification that is to hide itself starts a timer. So a
  message either ends the spinner, or starts it with its request under way, or
  leaves notification, requests and timers as they are. That is no invariant: the
  pages that missed a message are in any state, and the two theorems say of each
  single step that it does not make it worse.
- *Calls of one goroutine.* A call is a program of a few instructions.
  `Truthful` says of a program and a place in it that no second answer and no
  answer against the requests so far can still be sent to who receives once; every
  definition of a program satisfies it at its beginning, and every instruction
  keeps it. `CallsCompose` then has one kind of call move while the others
  stutter.
- *Registry.* `Inv` adds to the types (`StateOK`) that the prompt that deletes for
  good and the bars below it never have the keys together (`Quiet`), that a request
  made by the page of versions or the form, and still awaited by it, finds
  that page shown (`OfPage`), and that the page of versions is of a subject or of the
  empty row (`HasSubject`). One lemma for each operator, from `TcbUpdate` up to
  `Handle`, says what an `Update` returns and which commands; the command a prompt
  returns names the subject it shows. Each action is one `Handle` and a change of
  `jobs`.
- *Clusters.* `WorldOK` says of the record of all variables: the types; that the
  bar with the keys is open and the cursor on a row; that the tab shown is the one
  marked; that a command that has still to read a page finds one of the kind that
  asked for it. What the action properties compare, the state before and after an
  `Update`, is a relation: the list stays, the prompt names the row under the cursor
  as long as the rows do not change, the form is in step, nobody comes to wait.
  It is proved of each operator that makes part of an `Update` (form, list, page,
  bootstrapping, tab bar, root) and carried through to `Handle`; the actions add
  that the message came from, or goes to, `jobs`. For the deletion `Duty` says of
  each such command that is still `alone` that the list is shown with its rows those
  of the configuration, that the prompt or a spinner keeps the cursor where it is,
  and that the row there is the cluster it was confirmed for and not the active one;
  every step either keeps that or ends `alone`. `WaitsOnlyIfLeft` needs the
  most: that the page that hears a started message returns the command that awaits
  the answer, and that the page that hears the answer waits no more.
- *Folds.* An `Update` runs its commands one after the other, with a fold over
  their sequence. The induction theorems of the library take an operator as
  parameter, which the installed provers cannot instantiate, but induction over the
  length of one given fold is within reach: were there a shortest sequence of
  which the claim fails, it would have a longest proper prefix of which it holds
  (`NatLessThanWellFounded`, `WFMin`). `FoldLeft` is unfolded that way for the
  commands (`AllRun`), for `Among` and for the loops over a form's clusters.

What the proofs found. The arms of the `CASE` in `RegistryTab!Answer` overlapped, which TLC
resolves by their order; they are exclusive now. `ClustersTab!CheckStarts` marked
the check by its place in `jobs` after `Handle`, which may put another message before it;
the check is taken out first and put back as awaited. `TypeOK` of the form failed
for an edit that takes back the option chosen in a select, which no key does: the
assumption `SessionsAssumption` now says so. `ClientFollows` excused two
clusters of one name, but not what may be left of it: one of them renamed, with
both active.

Only model-checked: liveness and `ENABLED` (out of the prover's reach), with them
`ConnectorPage` and the liveness half of `AdminCall`; of the registry
`WaitsOnlyIfMissed`, `RemovedIsShown` and `VersionsFollow`, of the clusters
`CheckedIsUsed`, `ConnectKept` and `ClientFollows`: they relate a step to the
request that caused it, and the invariants proved so far do not say enough of
`jobs` for that.

## 5. Findings

1. *More records than the limit* (`reader_limit`). A partition goroutine only
   stops once it has counted a record at or past the limit itself.
   `OverrunBounded` says how far this goes.
   `src/kadmin/record_reader_test.go` expects exactly the limit.
2. *Two clusters of one name* (`cluster_names`). The form refuses a name in use
   (`upsert_cluster_page.go:550`), but only its own tab asks. `registerCluster` takes
   the values as they are when any check succeeds: a used name typed on F4 and not
   accepted is registered by the check of the registry on F5, or by one that was
   begun on the clusters page before the form was opened.

### Observed

How the code is, without a run that claims otherwise.

- Reading. After a failure to fetch the offsets "No records found" may be shown.
  The batch loop receives zero values from the closed channel and counts them as
  rows. The details page drops the message of the pending await command, and the
  page then never learns more of that read. A read of the most recent records of
  one partition asks for one more than its limit, and stops at the limit, so the
  newest record is not sent. A partition without a record in the period has start
  -1, which enters the arithmetic as an offset, so that older records are read; and a
  filtered read of the most recent ones never ends if the newest offset is not
  deliverable. After a close the await may choose a nil message and
  the page goes on showing "consuming".
- Calls. Creating and deleting a topic go on after an error to report success;
  since the answer is received once, the goroutine stays. After an error the
  goroutines of a topic listing stay as well, and `wg.Wait` with them. A failing
  request for the active subjects is ignored: every subject is then shown as
  deleted. An error closing a response body is sent after the success. A body of
  a response that is not a success is not closed, and the cache of schemas is
  never filled.
- Connect. The connector waited for is the one selected when the started message
  arrives. "Other connector already in progress" is never cleared after a
  timeout, an error or a missed message, and two quick presses both pass it. The
  deadline survives a success, so a later wait may time out at once. A failed
  deletion leaves the page loading, so F5 is refused. F5 between the confirmation
  of a deletion and its end drops the connectors, and if the deletion ends before
  the listing its handler dereferences nil. Messages of a page that was left, perhaps of another Connect
  cluster, are heard by the next one. "P", "R" and F5 typed in the search bar act
  on the page.
- Bars and topics page. After a confirmed deletion the prompt's flag stays set,
  so the next F2 only clears it. A tick that arrives after its spinner has ended
  makes the notifier the active bar over an opened prompt. Coming back to a
  loaded page closes the notifier though a deletion still runs; coming back after
  a failed listing spins until F5. A started message that arrives while another
  page is shown is not awaited, nor is a deletion's on another tab. F2 and F3
  hide the search bar but its term goes on filtering. "L" typed in the search
  opens the live consume page. The timer of an earlier notification hides a later
  one. After F5 the rows shown are those of the dropped list.
- Configuration. A rename answers with the cluster under its old name; what is
  submitted next on the F5 or F6 tab adds a cluster of that name
  (`config.go:188`).
- Cluster's form. A registry submitted without URL dereferences nil
  (`upsert_cluster_page.go:445`, `srclient_sradmin.go:86`). ctrl+r on F5 or F6 gives
  the cluster's form values of its own, so that F4 later registers a blank name. The
  two forms share what they remember of transport and verification: the field for
  the CA may be missing, or asked for without need. srOk that arrives on another
  tab of ktea leaves the form loading.
- Connect clusters. The values entered stay after registration, so the next one
  lists the cluster twice, and deleting it then may panic. Deleting the only
  one, just registered, goes back to a completed form, which registers it again with
  the next message. ctrl+e during a registration, or F2 on an empty table, panics.
  Deletion on F6 after a rename does nothing.
- Clusters page. enter and ctrl+e on an empty table panic. What a key confirms is
  read later, when its command runs. F2, Delete! and enter on `tst`, then esc and the
  cursor on `prd`, the active cluster, before the command runs: `prd` is deleted, which
  the validation of the prompt was to refuse (`clusters_page.go:156`, `:169`). The same
  with the answer of a check of `tst` in between, which makes `tst` the active one, or
  with a second enter, which the prompt takes as long as it is open: until the message
  of the deletion comes, for ever if another tab gets it. A registration that
  is answered while the prompt is open changes the rows under it, so that it names
  another row than the one under the cursor, which is what is deleted. The command of
  a switch reads the cursor late as well. The
  answer of a check acts on the page shown when it arrives, and a timer hides the
  spinner of a later page.
- Switching. If the started message of a check meets another tab nobody awaits the
  answer, and the tabs stay locked. If the new cluster is out of reach
  the configuration has switched already, and the topics tab of before is shown under
  a bar that offers the clusters only. A listing of topics made for the cluster before
  (`main.go:117`) is shown as the new one's. The message of a switch points into the list,
  so that a deletion before it is handled makes it name another cluster, with whose
  settings the tabs are then made; and if that one has a registry and the active
  one has none, `main.go:275` dereferences nil. A failed check of the cluster that is
  answered on F5 shows the cluster's form under the registry's tab.
- Subjects. enter panics when the tab or the search shows none of the subjects
  loaded (`subjects_page.go:135`). After a failed listing or deletion ctrl+n and
  enter do nothing until F5. A subject deleted softly is missing from the tab of
  the deleted ones until then. Changing the tab before the command of a
  confirmed deletion runs makes it one for good, or the reverse; confirming twice
  before that requests it twice. F4 and tab take the keys from a spinner
  until its next frame.
- Versions of a subject. enter, F2 and c panic before the versions are listed, for
  a deleted subject, and within five seconds after the last version was deleted. A
  failed deletion spins until esc. Versions of another subject that come late are
  shown, and a deletion then names a version of the wrong subject; a late deletion of
  another subject's version is taken for this one's. The answer of a deletion that
  comes while the tab is left is not handed on (`main.go:125-137`): the version stays
  in the list, and the spinner with it. The delayed return leaves
  whatever page is shown by then. c both copies and answers the prompt. Versions
  that could not be fetched are listed nevertheless.
- New schema. If the started message is missed the page stays creating and esc is
  refused.

## 6. Not modelled

- Inside the reader: deletion by retention during the read; sarama closing a
  consumer's channel by itself; an error of `NewConsumerFromClient`; the length
  of the two delays (they end at any time); the content of records,
  deserialization and headers.
- Inside the consume page: the search, sort and notifier bars.
- Configuration: two operations at once (each runs in a command of its own, but
  the pages wait for the answer), and a torn write (a crash of the machine rather
  than the program). `ClusterConfig` assumes that the form refuses a used name,
  and `cluster_names` shows how that is by-passed.
- Calls: several at once; the partitioner that concurrent publications set in the
  shared producer configuration; truncation of a log between the two requests of
  an offset listing.
- Clusters tab: colours, hosts, credentials and paths, of which a form that was
  completed has what it asks for; loading the configuration and its retry;
  a command that reads the page or the list while an `Update` writes it, and the copy
  of the list that an `append` makes when it outgrows its array, after which a pointer
  from before shows the old one; ctrl+c, help and resizing. Of the other tabs, only
  the cluster they work with: no listings.
- Connect: `waitForConnectorState` checks, sets and dereferences the deadline of its
  page without synchronisation (`kcon_page.go:214-220`), so that of two loops one may
  clear it between the check and the use of the other, which panics; `CheckDeadline` is
  one step.
- Registry's tab: that a page is not drawn while its tab is not shown (`Drawn` is part
  of every message, so that what `View` leaves behind is there earlier); other users of the registry while the pages are shown
  (`SubjectListing` has them); the text of schemas and the global compatibility;
  the order of rows.
- The pages of consumer groups, the consume form, publication, creation of topics,
  configs and record details. They combine a listing (`OffsetListing`,
  `AdminCalls`) with the bars (`CommandBars`), or are forms with one request.
- Several reads one after the other in one topics tab, whose messages carry no
  identity.
- Client construction and deserialization have no state of their own; layout is
  rendering; the generator is not part of the program.

## 7. What would come next

1. `GroupsPages`: consumer groups and offsets over `CommandBars`.
2. `TopicsTab`: several reads in one tab, the consume form, creation and
   publication pages.
3. Proofs: the types of `ConnectorPage`; for `CheckedIsUsed`, `ClientFollows` and
   `VersionsFollow` an invariant that says of each message under way what it was
   made from.
