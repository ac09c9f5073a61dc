----------------------------- MODULE ClustersTab -----------------------------
(***************************************************************************)
(* The clusters tab with its two pages (ui/tabs/clusters_tab,              *)
(* ui/pages/clusters_page and the form of ClusterForm), under the root     *)
(* model (cmd/ktea/main.go), which builds all tabs for the active cluster, *)
(* builds them anew when it changes, and hands each message to the tab     *)
(* that has the focus.  Whether the answer of a check meets the page that  *)
(* asked for it depends on what is shown when it arrives.                  *)
(*                                                                         *)
(* The command an Update returns runs later, in a goroutine of its own,    *)
(* and reads then what is selected or entered on the page that asked for   *)
(* it: a switch, a deletion and a registration each act on what they find. *)
(*                                                                         *)
(* Left out: that a command reads while an Update writes, and that a list  *)
(* of clusters that outgrows its array is copied to a new one.  Of the     *)
(* other tabs only the cluster they work with is here.  Two clusters of    *)
(* one name are drawn as one row.                                          *)
(***************************************************************************)
EXTENDS ClusterForm

CONSTANTS Order,         \* the names in the order of the table
          Matches(_, _), \* does a cluster's name contain the term
          Sessions       \* users: their clusters, what they do, and the bounds:
                         \* on checks and changes under way, and on the
                         \* clusters and the Connect clusters of one

Cluster == [name : Names, active : BOOLEAN, details : Details,
            connect : Seq(Connects \cup {NoConnect})]

\* A key, an edit of a field of a form, a name for a Connect cluster, or a
\* message no page has a handler for.  What is chosen from options is one of
\* them: no choice is undone.
Pressable(msg) ==
  \/ msg.type = "key" /\ msg.term \in Terms
  \/ /\ msg.type = "edit" /\ msg.field \in DOMAIN Blank
     /\ [Blank EXCEPT ![msg.field] = msg.value] \in Values
     /\ msg.field \in {"tls", "ver", "srTls", "srVer"} => msg.value # "none"
  \/ msg.type = "kcname" /\ msg.name \in Connects
  \/ msg.type = "other"

ASSUME SessionsAssumption ==
  \A s \in Sessions : /\ s.clusters \in Seq(Cluster)
                      /\ \A msg \in s.inputs : Pressable(msg)

ASSUME TabAssumption == /\ Order \in Seq(Names) /\ ToSet(Order) = Names
                        /\ NoItem = NoName
                        /\ ~HasSort

VARIABLES user,      \* the session: what this user does, the bounds
          clusters,  \* Config.Clusters
          page,      \* clusters_tab.Model.active
          tabs,      \* the tabs offered and those shown
          locked,    \* switchingCluster
          connErr,   \* startupConnErr
          client,    \* the cluster the topics tab works with
          jobs,      \* commands, checks and messages under way
          timer,     \* a page left before its notification was hidden
          crashed    \* the program has panicked

vars == <<user, clusters, page, tabs, locked, connErr, client, jobs, timer,
          crashed>>

Input(k) == Key(k, EmptyTerm)
Message(type) == [type |-> type]

-----------------------------------------------------------------------------
(* The clusters page.                                                      *)

(* Those of a sequence that are in a set, in their order. *)
Among(s, S) ==
  FoldLeft(LAMBDA found, x : IF x \in S THEN Append(found, x) ELSE found, <<>>, s)

RowsOf(cs, term) == Among(Order, {n \in InUse(cs) : Matches(n, term)})

ListPage(cs) ==
  LET rows == RowsOf(cs, EmptyTerm)
  IN  [kind |-> "list", bars |-> NewBars, rows |-> rows,
       cursor |-> IF rows = <<>> THEN 0 ELSE 1]
FormPage(f) == [kind |-> "form", form |-> f]

(* SelectedCluster; the cursor is 0 when there has been no row. *)
Selected(p) == IF p.cursor = 0 THEN NoName ELSE p.rows[p.cursor]

(* The cursor stays where it is as long as there is such a row. *)
WithRows(p, rows) == [p EXCEPT !.rows = rows, !.cursor = Min({@, Len(rows)})]

Moved(p, msg) ==
  IF p.rows = <<>> THEN p
  ELSE IF IsKey(msg, "up") THEN [p EXCEPT !.cursor = Max({@ - 1, 1})]
  ELSE IF IsKey(msg, "down") THEN [p EXCEPT !.cursor = Min({@ + 1, Len(p.rows)})]
  ELSE p

ListHandlers ==
  [deleted   |-> Handler("success", TRUE, TRUE),
   refused   |-> Handler("error", TRUE, TRUE),
   kStarted  |-> Spin,
   kErr      |-> Handler("error", TRUE, FALSE),
   connErr   |-> Handler("error", TRUE, FALSE),
   kOk       |-> Spin,
   switched  |-> Handler("success", TRUE, TRUE)]

(* The validation of the prompt, which panics when no cluster is left. *)
Deletable(cs) == IF cs = <<>> THEN {} ELSE Names \ {ActiveCluster(cs).name}

(* Update: the commands, the bars, the table, the rows. *)
Asks(cs, p, msg, cmds) ==
  (IF msg.type = "kStarted" THEN <<"await">> ELSE <<>>)
    \o (IF msg.type = "kOk" THEN <<"switch">> ELSE <<>>)
    \o (IF IsKey(msg, "enter") /\ ~IsFocussed(p.bars) THEN <<"check">> ELSE <<>>)
    \o (IF RefuseCmd \in cmds THEN <<IF cs = <<>> THEN "crash" ELSE "refuse">> ELSE <<>>)
    \o (IF \E n \in Names : DeleteCmd(n) \in cmds THEN <<"delete">> ELSE <<>>)

TableAndRows(cs, p, msg, o) ==
  LET moved == IF IsFocussed(o.next) THEN p ELSE Moved(p, msg)
  IN  Does(WithRows([moved EXCEPT !.bars = o.next], RowsOf(cs, o.next.search.term)),
           Asks(cs, p, msg, o.cmds))

ListUpdate(cs, p, msg) ==
  TableAndRows(cs, p, msg,
    TableUpdate(p.bars, msg, Selected(p), ListHandlers, Deletable(cs)))

-----------------------------------------------------------------------------
(* A step of the program is a function of its state, the variables as a    *)
(* record; `awaits` says that somebody waits for the check just started,   *)
(* and `after` is the check that has just been answered.                   *)

Now == [clusters |-> clusters, page |-> page, tabs |-> tabs, locked |-> locked,
        connErr |-> connErr, client |-> client,
        jobs |-> jobs, timer |-> timer, crashed |-> crashed,
        awaits |-> FALSE, after |-> <<>>]

Checks   == {"k", "sr", "kc"}
Changes  == {"switch", "delete", "register", "kcdelete"}
Commands == Changes \cup {"find"}
ToCheck  == Checks \cup {"find"}

Bounded(js) ==
  LET checks == {i \in DOMAIN js : js[i].kind \in ToCheck}
  IN  Cardinality(checks) <= user.checks /\ Len(js) - Cardinality(checks) <= user.changes

Become(w) ==
  /\ Bounded(w.jobs)
  /\ Len(w.clusters) <= user.len
  /\ w.page.kind = "form" => Len(w.page.form.kc.clusters) <= user.len
  /\ clusters' = w.clusters /\ page' = w.page /\ tabs' = w.tabs
  /\ locked' = w.locked /\ connErr' = w.connErr /\ client' = w.client
  /\ jobs' = w.jobs /\ timer' = w.timer /\ crashed' = w.crashed
  /\ UNCHANGED user

Crash(w) == [w EXCEPT !.crashed = TRUE]

(***************************************************************************)
(* The jobs.  A command waits to run; when the page that asked for it is   *)
(* left, `held` is what it will find there.  A check ("k" of a cluster,    *)
(* "sr" of a registry, "kc" of a Connect cluster) knows what it checks,    *)
(* `of`, and who asked for it.  The rest are messages; `held` is where a   *)
(* pointer into the list of clusters points.                               *)
(*                                                                         *)
(* History: a command's `of` is what the user was told, the cluster the    *)
(* prompt names or the check that succeeded; a command or check is `alone` *)
(* until something happens that may change what it is about.               *)
(***************************************************************************)
Job(kind, by, of, alone) ==
  [kind |-> kind, by |-> by, of |-> of, at |-> "issued", alone |-> alone, held |-> <<>>]
Check(kind, by, of)    == Job(kind, by, of, TRUE)
Command(kind, of)      == Job(kind, "command", of, TRUE)
Event(kind, of)        == Job(kind, "none", of, FALSE)

Post(w, job) ==
  [w EXCEPT !.jobs = IF job.kind \in ToCheck THEN <<job>> \o @ ELSE Append(@, job)]
Disturbed(js) == [i \in DOMAIN js |-> [js[i] EXCEPT !.alone = FALSE]]

(* What a command reads on the page that asked for it. *)
ReadOn(p) == IF p.kind = "list" THEN Selected(p) ELSE RegistrationOf(p.form)
Left(js, p) ==
  [i \in DOMAIN js |-> IF js[i].kind \in Commands /\ js[i].held = <<>>
                       THEN [js[i] EXCEPT !.held = <<ReadOn(p)>>] ELSE js[i]]

(* A notification that hides itself does so on the page that follows. *)
Show(w, p) ==
  [w EXCEPT !.page = p, !.jobs = Left(Disturbed(@), w.page),
            !.timer = @ \/ (w.page.kind = "list" /\ w.page.bars.note.autoHide)]

(* DeleteKafkaConnectCluster: of the first cluster of the name that has it. *)
Holding(cs, n, k) == {i \in Named(cs, n) : k \in ToSet(cs[i].connect)}
ConnectDeleted(cs, n, k) ==
  [i \in DOMAIN cs |-> IF i = FirstOf(Holding(cs, n, k))
                       THEN [cs[i] EXCEPT !.connect = Among(@, ToSet(@) \ {k})]
                       ELSE cs[i]]

-----------------------------------------------------------------------------
(* What a command does with what it finds, n or r.                         *)

(* enter: the cluster selected is checked; there must be one. *)
CheckSelected(w, n, alone) ==
  LET c == Found(w.clusters, n)
  IN  IF c = NoCluster THEN Crash(w) ELSE Post(w, Job("k", "list", c, alone))

\* A bug: the first cluster shown is deleted, not the one selected.
DeleteFirst(w, n) ==
  LET first == IF w.page.kind = "list" /\ w.page.rows # <<>> THEN w.page.rows[1] ELSE n
  IN  Post([w EXCEPT !.clusters = Deleted(@, first)], Event("deleted", first))

(* The prompt's deletion deletes the cluster selected. *)
DeleteSelected(w, n) ==
  IF n = NoName THEN Crash(w)
  ELSE Post([w EXCEPT !.clusters = Deleted(@, n)], Event("deleted", n))

(* The pointer to the active cluster that SwitchCluster returns. *)
SwitchedTo(cs, n) ==
  IF Named(cs, n) = {} THEN Event("switched", NoCluster)
  ELSE LET at == Max(Named(cs, n))
       IN  [Event("switched", cs[at]) EXCEPT !.held = <<at>>]

\* A bug: the first cluster shown is switched to, not the one selected.
SwitchFirst(w, n) ==
  LET first == IF w.page.kind = "list" THEN w.page.rows[1] ELSE n
      now   == Switched(w.clusters, first)
  IN  Post([w EXCEPT !.clusters = now], SwitchedTo(now, first))

(* The successful check: the cluster selected becomes the active one. *)
SwitchToSelected(w, n) ==
  LET now == Switched(w.clusters, n)
  IN  IF n = NoName THEN Crash(w)
      ELSE Post([w EXCEPT !.clusters = now], SwitchedTo(now, n))

\* A bug: the form's Connect clusters are not brought along.
RegisterWithoutConnect(w, r) ==
  LET bare == [r EXCEPT !.connect = <<>>]
  IN  Post([w EXCEPT !.clusters = Registered(@, bare)],
           Event("registered", ToCluster(w.clusters, bare)))

(* registerCluster *)
Register(w, r) ==
  Post([w EXCEPT !.clusters = Registered(@, r)],
       Event("registered", ToCluster(w.clusters, r)))

(* The prompt of the Connect tab deletes what it names. *)
DeleteConnect(w, x) ==
  IF Holding(w.clusters, x.cluster, x.connect) = {} THEN w
  ELSE Post([w EXCEPT !.clusters = ConnectDeleted(@, x.cluster, x.connect)],
            Event("connectDeleted", x.connect))

-----------------------------------------------------------------------------
(* What an Update asks for.                                                *)

(* The switch or the registration that follows a check. *)
Follow(w, kind) == Post(w, [Command(kind, w.after) EXCEPT
                              !.alone = w.after # <<>> /\ w.after[1].alone])

(* The row under the cursor is not the one the open prompt names. *)
Misnamed(p) ==
  p.kind = "list" /\ p.bars.active = "delete" /\ p.bars.del.value # Selected(p)

(* The deleter of the form goes by the name the cluster was opened with. *)
ConnectToDelete(f) == [cluster |-> f.opened, connect |-> f.kc.prompt.value]

Run(w, cmd) ==
  IF w.crashed THEN w
  ELSE IF cmd = "await" THEN [w EXCEPT !.awaits = TRUE]
  ELSE IF cmd = "list" THEN Show(w, ListPage(w.clusters))
  ELSE IF cmd = "check" THEN Post(w, Command("find", NoName))
  ELSE IF cmd \in {"switch", "register"} THEN Follow(w, cmd)
  ELSE IF cmd = "delete"
    THEN Post(w, Job(cmd, "command", w.page.bars.del.value, ~Misnamed(w.page)))
  ELSE IF cmd = "refuse" THEN Post(w, Event("refused", NoName))
  ELSE IF cmd = "kcheck" THEN Post(w, Check("k", "form", RegistrationOf(w.page.form)))
  ELSE IF cmd = "srcheck" THEN Post(w, Check("sr", "form", RegistrationOf(w.page.form)))
  ELSE IF cmd = "kccheck" THEN Post(w, Check("kc", "form", w.page.form.kc.name))
  ELSE IF cmd = "kcdelete"
    THEN Post(w, [Command(cmd, NoName) EXCEPT !.held = <<ConnectToDelete(w.page.form)>>])
  ELSE Crash(w)

-----------------------------------------------------------------------------
(* clusters_tab.Model.Update.                                              *)

PageUpdate(w, msg, row) ==
  IF w.page.kind = "list" THEN ListUpdate(w.clusters, w.page, msg)
  ELSE [FormUpdate(w.clusters, w.page.form, msg, row) EXCEPT !.next = FormPage(@)]

RunAll(w, o) == FoldLeft(Run, [w EXCEPT !.page = o.next], o.cmds)
ToPage(w, msg, row) ==
  IF w.crashed THEN w ELSE RunAll(w, PageUpdate(w, msg, row))

(* The two keys that open the form; ctrl+e needs a cluster selected.       *)
ToEdit(w) == Found(w.clusters, Selected(w.page))
Opened(w, msg) ==
  IF w.page.kind = "list" /\ IsKey(msg, "ctrl+n") THEN Show(w, FormPage(CreatePage))
  ELSE IF w.page.kind = "list" /\ IsKey(msg, "ctrl+e")
    THEN IF ToEdit(w) = NoCluster THEN Crash(w)
         ELSE Show(w, FormPage(EditPage(ToEdit(w))))
  ELSE w

ToClustersTab(w, msg, row) ==
  IF w.crashed \/ (IsKey(msg, "esc") /\ ~w.tabs.back) THEN w
  ELSE ToPage(Opened(w, msg), msg, row)

-----------------------------------------------------------------------------
(* The tabs.  `bar` is the tab marked, `synced` the one Update last acted  *)
(* on, `ctrl` the one that is shown and gets the messages.                 *)

Offered(c) ==
  <<"topics", "cgroups">>
    \o (IF c.details.registry # "none" THEN <<"schemaReg">> ELSE <<>>)
    \o (IF c.connect # <<>> THEN <<"kconnect">> ELSE <<>>)
    \o <<"clusters">>

(* Next and Prev *)
TabKey(t, msg) ==
  LET at == CHOOSE i \in DOMAIN t.offered : t.offered[i] = t.bar
  IN  IF IsKey(msg, "ctrl+right") THEN t.offered[Min({at + 1, Len(t.offered)})]
      ELSE IF IsKey(msg, "ctrl+left") THEN t.offered[Max({at - 1, 1})]
      ELSE t.bar

GoToTab(t, label) == IF label \in ToSet(t.offered) THEN [t EXCEPT !.bar = label] ELSE t

ShownBy(w, label) ==
  IF label = "schemaReg" /\ ActiveCluster(w.clusters).details.registry = "none"
  THEN "clusters" ELSE label

(* None gets the focus during a check.  To show the registry takes an      *)
(* active cluster.                                                         *)
WithBar(w, bar) ==
  IF bar = w.tabs.synced THEN [w EXCEPT !.tabs.bar = bar]
  ELSE IF bar = "schemaReg" /\ w.clusters = <<>> THEN Crash(w)
  ELSE [w EXCEPT !.tabs.bar = bar, !.tabs.synced = bar, !.tabs.ctrl = ShownBy(w, bar)]
FollowBar(w, msg) == IF w.locked THEN w ELSE WithBar(w, TabKey(w.tabs, msg))

(***************************************************************************)
(* boostrapUI: clients and tabs for a cluster.  If it cannot be reached    *)
(* only the clusters tab is left; the topics tab of before stays as it is. *)
(***************************************************************************)
FirstPage(cs) == IF cs = <<>> THEN FormPage(CreatePage) ELSE ListPage(cs)

ClustersOnly(w) ==
  Post([Show(w, FirstPage(w.clusters)) EXCEPT
          !.tabs.offered = <<"clusters">>, !.tabs.bar = "clusters",
          !.tabs.ctrl = "clusters", !.tabs.back = w.clusters # <<>>, !.connErr = TRUE],
       Event("connErr", NoName))

\* A bug: the client is kept when the cluster has changed.
AllTabsKeepingClient(w, c) ==
  [Show(w, ListPage(w.clusters)) EXCEPT
     !.tabs.offered = Offered(c), !.tabs.bar = "topics", !.tabs.ctrl = "topics",
     !.tabs.back = TRUE,
     !.client = IF @ = NoCluster THEN c ELSE @]

AllTabs(w, c) ==
  [Show(w, ListPage(w.clusters)) EXCEPT
     !.tabs.offered = Offered(c), !.tabs.bar = "topics", !.tabs.ctrl = "topics",
     !.tabs.back = TRUE, !.client = c]

(* The tabs are for c, but the registry's client is the active cluster's.  *)
Lacks(cs, c) ==
  \/ cs = <<>>
  \/ c.details.registry # "none" /\ ActiveCluster(cs).details.registry = "none"

BootstrapUI(w, c, reached) ==
  IF c = NoCluster THEN Crash(w)
  ELSE IF reached THEN IF Lacks(w.clusters, c) THEN Crash(w) ELSE AllTabs(w, c)
  ELSE ClustersOnly(w)

ShowTab(w, label) ==
  [w EXCEPT !.tabs = [GoToTab(@, label) EXCEPT !.ctrl = label]]

(* ClusterSwitchedMsg: a failure now counts as one at startup, and the     *)
(* topics tab of before is shown.                                          *)
AfterSwitch(w) ==
  ShowTab([w EXCEPT !.connErr = FALSE], IF w.connErr THEN "topics" ELSE "clusters")

\* A bug: a failed check does not release the tabs.
RootSwitchLocked(w, msg, reached) ==
  IF msg.type = "kStarted" THEN [w EXCEPT !.locked = TRUE]
  ELSE IF msg.type = "kOk" THEN [w EXCEPT !.locked = FALSE]
  ELSE IF msg.type = "registered" /\ msg.cluster.active
    THEN ShowTab(BootstrapUI(w, msg.cluster, reached), "clusters")
  ELSE IF msg.type = "switched" THEN AfterSwitch(BootstrapUI(w, msg.cluster, reached))
  ELSE w

(* The switch of the root model's Update. *)
RootSwitch(w, msg, reached) ==
  IF msg.type = "kStarted" THEN [w EXCEPT !.locked = TRUE]
  ELSE IF msg.type \in {"kErr", "kOk"} THEN [w EXCEPT !.locked = FALSE]
  ELSE IF msg.type = "registered" /\ msg.cluster.active
    THEN ShowTab(BootstrapUI(w, msg.cluster, reached), "clusters")
  ELSE IF msg.type = "switched" THEN AfterSwitch(BootstrapUI(w, msg.cluster, reached))
  ELSE w

(* The tab shown gets the message; one that has just got the focus is told *)
(* so first.                                                               *)
Told(w, synced, row) ==
  IF w.tabs.synced = synced THEN w ELSE ToClustersTab(w, Message("other"), row)

ToShown(w, synced, msg, row) ==
  IF w.tabs.ctrl = "clusters" THEN ToClustersTab(Told(w, synced, row), msg, row)
  ELSE IF w.tabs.ctrl = "topics" /\ w.client = NoCluster THEN Crash(w)
  ELSE w

ToTabs(w, msg, row) ==
  LET next == FollowBar(w, msg)
  IN  IF w.crashed THEN w ELSE ToShown(next, w.tabs.synced, msg, row)

(* Model.Update of the root model. *)
Handle(w, msg, reached, row) == ToTabs(RootSwitch(w, msg, reached), msg, row)

-----------------------------------------------------------------------------
(* Startup, once the configuration is loaded.                              *)

AtStart(cs) ==
  [clusters |-> cs, page |-> FirstPage(cs),
   tabs |-> [offered |-> <<"clusters">>, bar |-> "clusters", synced |-> "none",
             ctrl |-> "clusters", back |-> FALSE],
   locked |-> FALSE, connErr |-> FALSE, client |-> NoCluster, jobs |-> <<>>,
   timer |-> FALSE, crashed |-> FALSE, awaits |-> FALSE, after |-> <<>>]

Started(cs, reached) ==
  IF cs = <<>> THEN AtStart(cs)
  ELSE BootstrapUI(AtStart(cs), ActiveCluster(cs), reached)

InitFrom(w) ==
  /\ clusters = w.clusters /\ page = w.page /\ tabs = w.tabs
  /\ locked = w.locked /\ connErr = w.connErr /\ client = w.client
  /\ jobs = w.jobs /\ timer = w.timer /\ crashed = w.crashed

Init ==
  \E s \in Sessions, reached \in BOOLEAN :
    user = s /\ InitFrom(Started(s.clusters, reached))

-----------------------------------------------------------------------------
(* The row under the cursor of the Connect tab.                            *)
Rows == IF page.kind = "form" THEN KcSelections(page.form.kc) ELSE {NoItem}

(* Keys that put another page, tab or form in the place of the one shown;  *)
(* the tabs of the root model are locked while a cluster is checked.       *)
Moves == {"f4", "f5", "f6", "ctrl+r", "ctrl+n", "ctrl+e"}
           \cup (IF locked THEN {} ELSE {"ctrl+left", "ctrl+right"})

(* A key that may change what a job is about.  The prompt of a deletion    *)
(* keeps the cursor where it is until one of four keys closes it.          *)
Closing == {"esc", "f2", "/", "enter"}
Upsets(msg, job) ==
  \/ /\ msg.type = "key"
     /\ msg.key \in IF job.kind = "delete" THEN Closing ELSE Moves
  \/ job.by = "list" /\ job.at = "issued"

Stirred(js, msg) ==
  [i \in DOMAIN js |-> IF Upsets(msg, js[i]) THEN [js[i] EXCEPT !.alone = FALSE]
                       ELSE js[i]]

Press(msg, row) ==
  /\ ~crashed
  /\ Become(Handle([Now EXCEPT !.jobs = Stirred(@, msg)], msg, TRUE, row))

WithoutJob(i) == [Now EXCEPT !.jobs = RemoveAt(@, i)]
Apart(w) == [w EXCEPT !.jobs = Disturbed(@)]

(* A command runs. *)
FoundBy(job) == IF job.held = <<>> THEN ReadOn(page) ELSE job.held[1]

Done(w, job) ==
  IF job.kind = "find" THEN CheckSelected(w, FoundBy(job), job.alone)
  ELSE IF job.kind = "switch" THEN SwitchToSelected(Apart(w), FoundBy(job))
  ELSE IF job.kind = "delete" THEN DeleteSelected(Apart(w), FoundBy(job))
  ELSE IF job.kind = "register" THEN Register(Apart(w), FoundBy(job))
  ELSE DeleteConnect(Apart(w), FoundBy(job))

CommandRuns(i) ==
  /\ ~crashed
  /\ jobs[i].kind \in Commands
  /\ Become(Done(WithoutJob(i), jobs[i]))

(* A check has begun.  Whoever gets the message awaits the answer, if the  *)
(* page is one that does.                                                  *)
StartedBy == [k |-> "kStarted", sr |-> "srStarted", kc |-> "kcStarted"]
OkBy      == [k |-> "kOk", sr |-> "srOk", kc |-> "kcOk"]
ErrBy     == [k |-> "kErr", sr |-> "srErr", kc |-> "kcErr"]

Begun(w, job) == IF w.awaits THEN Post(w, [job EXCEPT !.at = "awaited"]) ELSE w

CheckStarts(i, row) ==
  /\ ~crashed
  /\ jobs[i].kind \in Checks /\ jobs[i].at = "issued"
  /\ Become(Begun(Handle(WithoutJob(i), Message(StartedBy[jobs[i].kind]), TRUE, row),
                  jobs[i]))

CheckAnswered(i, answer, row) ==
  /\ ~crashed
  /\ jobs[i].kind \in Checks /\ jobs[i].at = "awaited"
  /\ Become(Handle([Apart(WithoutJob(i)) EXCEPT !.after = <<jobs[i]>>],
                   Message(answer[jobs[i].kind]), TRUE, row))

(* The message of a change of the configuration, or of a failed one.  What *)
(* the list holds there has perhaps changed since SwitchCluster returned.  *)
PointedTo(job) ==
  IF job.held # <<>> /\ job.held[1] \in DOMAIN clusters THEN clusters[job.held[1]]
  ELSE job.of

MessageOf(job) ==
  IF job.kind \in {"registered", "switched"} THEN [type |-> job.kind, cluster |-> PointedTo(job)]
  ELSE IF job.kind = "connectDeleted" THEN [type |-> job.kind, name |-> job.of]
  ELSE Message(job.kind)

Deliver(i, reached, row) ==
  /\ ~crashed
  /\ jobs[i].kind \notin Checks \cup Commands
  /\ reached \/ jobs[i].kind \in {"registered", "switched"}
  /\ Become(Handle(Apart(WithoutJob(i)), MessageOf(jobs[i]), reached, row))

(* The timer of the notification shown, or of one left behind, ends. *)
HideNotification(left, row) ==
  /\ ~crashed
  /\ IF left THEN timer ELSE page.kind = "list" /\ page.bars.note.autoHide
  /\ Become(Handle(Apart([Now EXCEPT !.timer = @ /\ ~left]), Hide, TRUE, row))

Next ==
  \E row \in Rows :
    \/ \E msg \in user.inputs : Press(msg, row)
    \/ \E i \in DOMAIN jobs :
         \/ CommandRuns(i)
         \/ CheckStarts(i, row)
         \/ \E answer \in {OkBy, ErrBy} : CheckAnswered(i, answer, row)
         \/ \E reached \in BOOLEAN : Deliver(i, reached, row)
    \/ \E left \in BOOLEAN : HideNotification(left, row)

Spec == Init /\ [][Next]_vars

-----------------------------------------------------------------------------
(* Correctness.                                                            *)

Labels == {"topics", "cgroups", "schemaReg", "kconnect", "clusters"}

FormOK(f) ==
  /\ f.values \in Values
  /\ {f.editing, f.saved, f.loading, f.sasl} \subseteq BOOLEAN
  /\ {f.pre, f.opened} \subseteq Names \cup {NoName}
  /\ f.tab \in {"c", "sr", "kc"} /\ f.shown \in {"c", "sr"}
  /\ f.tls \in Transports /\ f.ver \in Verifications
  /\ f.kc.state \in {"entering", "listing", "registering"}
  /\ ToSet(f.kc.clusters) \subseteq Connects \cup {NoConnect}

\* The configuration, the page and the tabs have their types, up to a panic:
\* what the forms register is a cluster, whatever was left in them.
TypeOK ==
  /\ clusters \in Seq(Cluster)
  /\ IF page.kind = "form" THEN FormOK(page.form)
     ELSE /\ page.bars \in Bars
          /\ page.rows \in Seq(Names) /\ page.cursor \in 0 .. Len(page.rows)
  /\ tabs.bar \in ToSet(tabs.offered) /\ ToSet(tabs.offered) \subseteq Labels
  /\ tabs.ctrl \in Labels
  /\ {locked, connErr, timer, crashed} \subseteq BOOLEAN

\* A check that succeeds is used for what was checked: the clusters page
\* switches to that cluster, a form registers those values, or a list with
\* that Connect cluster, unless something came in between, before the answer or
\* before the command that uses it, that put another page, form or tab in the
\* place of the one that asked (`alone`).
Used(check) ==
  IF check.by = "list" THEN clusters' = Switched(clusters, check.of.name)
  ELSE IF check.kind = "kc"
    THEN \E j \in DOMAIN jobs' : /\ jobs'[j].kind = "registered"
                                /\ check.of \in {NoConnect} \cup ToSet(jobs'[j].of.connect)
  ELSE clusters' = Registered(clusters, check.of)

Follows(job, check) == job.kind \in {"switch", "register"} /\ job.of = <<check>>
CheckedIsUsed ==
  [][\A i \in DOMAIN jobs : jobs[i].alone =>
       /\ (\E row \in Rows : CheckAnswered(i, OkBy, row)) =>
            \E j \in DOMAIN jobs' : Follows(jobs'[j], jobs[i])
       /\ jobs[i].kind \in {"switch", "register"} /\ CommandRuns(i) =>
            Used(jobs[i].of[1])]_vars

\* The tabs stay locked, or a form waits for an answer, with no check under
\* way, only if a message of the check found another tab shown.
Waiting == \/ locked /\ ~ \E i \in DOMAIN jobs : jobs[i].kind = "k"
           \/ /\ page.kind = "form" /\ page.form.loading
              /\ ~ \E i \in DOMAIN jobs : jobs[i].kind \in {"k", "sr"}
WaitsOnlyIfLeft == [][~Waiting /\ Waiting' /\ ~crashed' => tabs.ctrl # "clusters"]_vars

\* The command of a confirmed deletion deletes the cluster the prompt named,
\* which is not the active one.  It reads the row under the cursor when it
\* runs (clusters_page.go), so that holds unless the prompt was closed, the
\* page left, a message handled or the configuration changed in between, or
\* another row was under the cursor already when it was confirmed (`alone`).
\* A prompt comes to name another row only if the rows change under it.
DeletedIsPrompted ==
  [][/\ \A i \in DOMAIN jobs :
          jobs[i].kind = "delete" /\ jobs[i].alone /\ CommandRuns(i) =>
            /\ clusters' = Deleted(clusters, jobs[i].of)
            /\ jobs[i].of # ActiveCluster(clusters).name
     /\ page.kind = "list" /\ ~Misnamed(page) /\ Misnamed(page') =>
          page'.rows # page.rows]_vars

\* The tabs work with the settings of the active cluster, or a message that
\* makes them do so is under way.  They cease to only if the message finds the
\* new cluster out of reach, if the active cluster itself is deleted (see
\* DeletedIsPrompted), if two changes or their messages overtake each other, or
\* if two clusters have one name, or have had it and are both active since.
OfActive(c) ==
  clusters # <<>> /\ c # NoCluster /\ c.details = ActiveCluster(clusters).details
Reloads == {i \in DOMAIN jobs : \/ jobs[i].kind = "registered" /\ jobs[i].of.active
                                \/ jobs[i].kind = "switched"}
ClientAgrees ==
  \/ client = NoCluster \/ OfActive(client)
  \/ \E i \in Reloads : OfActive(PointedTo(jobs[i]))
OutOfReach   == \E i \in Reloads, row \in Rows : Deliver(i, FALSE, row)
ActiveDeleted ==
  /\ Len(clusters') < Len(clusters)
  /\ clusters' = Deleted(clusters, ActiveCluster(clusters).name)
ClientFollows ==
  [][ClientAgrees /\ ~crashed' =>
       \/ ClientAgrees'
       \/ OutOfReach \/ ActiveDeleted
       \/ \E i \in Reloads : ~OfActive(PointedTo(jobs[i]))
       \/ ~Distinct(clusters) \/ ~OneActive(clusters)]_vars

\* The cluster's form asks for what its values call for, whatever is chosen
\* in whatever order, until another tab is used: the registry's choices are
\* remembered in the same place.
InStep(f) ==
  /\ f.c.own = <<>> /\ f.c.fields = CFields(f.values)
  /\ f.sasl = f.values.sasl
  /\ f.tls = "tls" <=> f.values.tls = "tls"
  /\ f.ver = "broker" <=> f.values.ver = "broker"
OnClusterTab == page.kind = "form" /\ page.form.tab = "c"
FieldsFollow ==
  [][(page.kind = "form" => OnClusterTab /\ InStep(page.form)) /\ OnClusterTab'
       => InStep(page'.form)]_vars

\* What a cluster's own form registers keeps all its Connect clusters the form
\* knows but the one that is edited.
OwnForm(i) == /\ page.kind = "form" /\ page.form.editing
              /\ page.form.opened = clusters[i].name
Registers(j) == jobs[j].kind = "register" /\ jobs[j].held = <<>> /\ CommandRuns(j)
ConnectKept ==
  [][(\E j \in DOMAIN jobs : Registers(j)) =>
       \A i \in DOMAIN clusters \cap DOMAIN clusters' :
         OwnForm(i) =>
           ToSet(clusters[i].connect) \cap ToSet(page.form.kc.clusters)
             \subseteq ToSet(clusters'[i].connect) \cup {page.form.kc.prev}]_vars

\* A cluster's own form does not know a Connect cluster of it, which the next
\* registration then drops, with no message about it under way, only if the
\* message met another tab, of the program or of the form, or was outdated when
\* it came: of a deletion since undone, or of a list since extended; or if two
\* clusters have one name.
Unaware ==
  /\ Distinct(clusters)
  /\ \E i \in DOMAIN clusters :
       OwnForm(i) /\ ~(ToSet(clusters[i].connect) \subseteq ToSet(page.form.kc.clusters))
  /\ ~ \E j \in DOMAIN jobs : jobs[j].kind = "registered"
Outdated(j) ==
  \E i \in DOMAIN clusters :
    \/ jobs[j].kind = "connectDeleted" /\ jobs[j].of \in ToSet(clusters[i].connect)
    \/ /\ jobs[j].kind = "registered" /\ OwnForm(i)
       /\ ~(ToSet(clusters[i].connect) \subseteq ToSet(jobs[j].of.connect))
UnawareOnlyIfElsewhere ==
  [][~Unaware /\ Unaware' =>
       \/ /\ tabs.ctrl = "clusters" /\ page.kind = "form" => page.form.tab # "kc"
          /\ \E j \in DOMAIN jobs : jobs[j].kind = "registered"
       \/ \E j \in DOMAIN jobs : Outdated(j)]_vars
=============================================================================
