----------------------------- MODULE RegistryTab -----------------------------
(***************************************************************************)
(* The schema registry's tab (ui/tabs/sr_tab) with its three pages, under  *)
(* the root model, and the requests the pages make of the registry         *)
(* (sradmin).  A request is a command that starts it and yields a started  *)
(* message; whoever gets that message awaits the answer; and the answer    *)
(* goes to the page shown when it arrives.  main hands some messages to    *)
(* this tab though another has the focus.                                  *)
(*                                                                         *)
(* Left out: the time a message between two pages takes, except the one    *)
(* that comes five seconds after the last version was deleted; the         *)
(* requests a listing consists of (SubjectListing has them); the other     *)
(* users of the registry; the frames of a spinner, of which one may come   *)
(* whenever the page shown spins.                                          *)
(***************************************************************************)
EXTENDS SchemaPages

CONSTANTS Sessions \* users: the registry they find, what they press on each
                   \* page, and a bound on the requests under way

VARIABLES user,     \* the session
          registry, \* the registry: the versions of each subject, and whether
                    \* it is softly deleted
          page,     \* sr_tab.Model.active: "list", "details" or "create"
          list,     \* the subjects page
          details,  \* the page of a subject
          create,   \* the form
          onTab,    \* the tab has the focus
          jobs,     \* requests and messages under way
          timers,   \* pages left before their notification was hidden
          crashed   \* the program has panicked

vars == <<user, registry, page, list, details, create, onTab, jobs, timers, crashed>>

-----------------------------------------------------------------------------
(* The registry.                                                           *)

Held == [live : SUBSET Versions, soft : BOOLEAN]

\* A key that types leaves a search term; the form submits a subject.
Pressable(msg) ==
  /\ msg.type = "key"
  /\ msg.key \in TypedKeys => msg.term \in Terms
  /\ msg.key = "submit" => msg.term \in Items

ASSUME SessionsAssumption ==
  \A s \in Sessions :
    /\ s.registry \in [Items -> Held] /\ s.jobs \in Nat
    /\ \A p \in {"list", "details", "create"} : \A msg \in s.inputs[p] : Pressable(msg)

Gone == [live |-> {}, soft |-> FALSE]
IsActive(h) == h.live # {} /\ ~h.soft

SubjectOf(r, s) ==
  [name |-> s, versions |-> IF r[s].soft THEN {} ELSE r[s].live, deleted |-> r[s].soft]
SubjectsOf(r) == {SubjectOf(r, s) : s \in {t \in Items : r[t].live # {}}}

(***************************************************************************)
(* The jobs.  `at` says how far it is: the command is to be run, the       *)
(* started message is on its way, the answer is awaited, or nobody will;   *)
(* `result` how the registry took it.  `by` is the page that asked, until  *)
(* that page is left.  A deletion comes from the prompt of F2 on some tab  *)
(* or from the `hard` one; it is `permanent` if it was so run, and `moved` *)
(* if the tab was changed before.                                          *)
(***************************************************************************)
Job(kind, name, by) ==
  [kind |-> kind, name |-> name, by |-> by, at |-> "sent", result |-> "open",
   version |-> 0, found |-> {}, prompt |-> "none", moved |-> FALSE,
   permanent |-> FALSE]

\* A bug: the prompt of F2 deletes for good on the tab of the active subjects.
PermanentSwapped(p, job) == job.prompt = "hard" \/ p.tab = "active"

(* deleteFn: it is the tab shown when the command runs that matters. *)
Permanent(p, job) == job.prompt = "hard" \/ p.tab = "deleted"

(* The command is run; that of a deletion decides for good or not. *)
Run(p, job) ==
  [job EXCEPT !.at = "sent", !.permanent = Permanent(p, job),
              !.moved = job.prompt \notin {"hard", p.tab}]

Deletable(h, permanent) == h.live # {} /\ (permanent \/ ~h.soft)

(* What the registry holds after a request that succeeds. *)
After(r, job) ==
  IF job.kind = "delete"
    THEN [r EXCEPT ![job.name] = IF job.permanent THEN Gone ELSE [@ EXCEPT !.soft = TRUE]]
  ELSE IF job.kind = "remove"
    THEN [r EXCEPT ![job.name].live = @ \ {job.version}]
  ELSE IF job.kind = "register"
    THEN [r EXCEPT ![job.name] =
            [live |-> IF @.live = Versions THEN @.live
                      ELSE @.live \cup {Min(Versions \ @.live)},
             soft |-> FALSE]]
  ELSE r

Succeeds(r, job) ==
  /\ job.kind = "delete" => Deletable(r[job.name], job.permanent)
  /\ job.kind = "remove" => job.version \in r[job.name].live /\ ~r[job.name].soft

-----------------------------------------------------------------------------
(* A step of the program is a function of its state, the variables as a    *)
(* record; `awaits` says that somebody awaits the answer.                  *)

Now == [page |-> page, list |-> list, details |-> details, create |-> create,
        onTab |-> onTab, jobs |-> jobs, timers |-> timers, crashed |-> crashed,
        awaits |-> FALSE]

Become(w) ==
  /\ Len(w.jobs) <= user.jobs
  /\ page' = w.page /\ list' = w.list /\ details' = w.details /\ create' = w.create
  /\ onTab' = w.onTab /\ jobs' = w.jobs /\ timers' = w.timers /\ crashed' = w.crashed
  /\ UNCHANGED user

Post(w, job) == [w EXCEPT !.jobs = Append(@, job)]

NoDetails == DetailsPage(NoSubject)

(* The page shown is left for good, or, if it is the list, for a while. *)
Leave(w) ==
  [w EXCEPT !.details = NoDetails, !.create = CreatePage,
            !.timers.details = @ \/ w.details.bar.note.autoHide,
            !.jobs = [i \in DOMAIN @ |-> IF @[i].by = w.page /\ w.page # "list"
                                         THEN [@[i] EXCEPT !.by = "none"] ELSE @[i]]]

(* What was asked by a list page that another replaces: its deletions      *)
(* still go by the tab it was on.                                          *)
Orphaned(p, job) ==
  LET sent == IF job.at = "issued" THEN Run(p, job) ELSE job
  IN  [sent EXCEPT !.by = IF @ = "list" THEN "none" ELSE @]

Renew(w) ==
  Post([w EXCEPT !.list = NewListPage,
                 !.timers.list = @ \/ w.list.bars.note.autoHide,
                 !.jobs = [i \in DOMAIN @ |-> Orphaned(w.list, @[i])]],
       Job("list", NoItem, "list"))

(* LoadSubjectsPageMsg *)
Back(w, refresh) ==
  [(IF refresh /\ w.page # "list" THEN Renew(Leave(w)) ELSE Leave(w)) EXCEPT
     !.page = "list", !.list = ListUpdate(@, Message("other"), NoSubject).next]

(* LoadSchemaDetailsPageMsg *)
Open(w, s) ==
  Post([w EXCEPT !.page = "details", !.details = DetailsPage(s)],
       [Job("versions", s.name, "details") EXCEPT
          !.found = {Schema(s.name, v) : v \in s.versions}])

Perform(w, c) ==
  IF c.cmd = "await" THEN [w EXCEPT !.awaits = TRUE]
  ELSE IF c.cmd = "crash" THEN [w EXCEPT !.crashed = TRUE]
  ELSE IF c.cmd = "list" THEN Post(w, Job("list", NoItem, "list"))
  ELSE IF c.cmd = "delete"
    THEN Post(w, [Job("delete", c.of, "list") EXCEPT !.at = "issued", !.prompt = w.list.tab])
  ELSE IF c.cmd = "hardDelete"
    THEN Post(w, [Job("delete", c.of, "list") EXCEPT !.at = "issued", !.prompt = "hard"])
  ELSE IF c.cmd = "open" THEN Open(w, c.of)
  ELSE IF c.cmd = "create" THEN [w EXCEPT !.page = "create"]
  ELSE IF c.cmd = "remove"
    THEN Post(w, [Job("remove", w.details.subject.name, "details") EXCEPT !.version = c.of])
  ELSE IF c.cmd = "register" THEN Post(w, Job("register", c.of, "create"))
  ELSE IF c.cmd = "copy" THEN Post(w, Job("copy", NoItem, "details"))
  ELSE IF c.cmd = "return" THEN Post(w, Job("return", NoItem, "details"))
  ELSE Back(w, c.of)

-----------------------------------------------------------------------------
(* sr_tab.Model.Update and, under it, the page.                            *)

WithList(w, o)    == Does([w EXCEPT !.list = o.next], o.cmds)
WithDetails(w, o) == Does([w EXCEPT !.details = o.next], o.cmds)
WithCreate(w, o)  == Does([w EXCEPT !.create = o.next], o.cmds)

ToPage(w, msg, sel) ==
  IF w.page = "list" \/ msg.type = "listed" THEN WithList(w, ListUpdate(w.list, msg, sel))
  ELSE IF w.page = "details" THEN WithDetails(w, DetailsUpdate(w.details, msg))
  ELSE WithCreate(w, CreateUpdate(w.create, msg))

PerformAll(o) == FoldLeft(Perform, o.next, o.cmds)
ToTab(w, msg, sel) == PerformAll(ToPage(w, msg, sel))

(* The messages main hands to this tab wherever the focus is. *)
Routed == {"listed", "listingStarted", "deleted"}

\* A bug: main hands nothing to this tab while another has the focus.
ToldUnrouted(w, msg) ==
  IF IsKey(msg, "ctrl+left") THEN <<>>
  ELSE IF IsKey(msg, "ctrl+right") THEN <<Message("regainedFocus"), Message("other")>>
  ELSE IF w.onTab THEN <<msg>>
  ELSE <<>>

(* Model.Update of the root model, with the keys that move between this    *)
(* tab and the one on its left: what this tab is told of a message.        *)
Told(w, msg) ==
  IF IsKey(msg, "ctrl+left") THEN <<>>
  ELSE IF IsKey(msg, "ctrl+right") THEN <<Message("regainedFocus"), Message("other")>>
  ELSE IF w.onTab \/ msg.type \in Routed THEN <<msg>>
  ELSE <<>>

Focus(onThis, msg) == IsKey(msg, "ctrl+right") \/ (onThis /\ ~IsKey(msg, "ctrl+left"))

Handle(w, msg, sel) ==
  FoldLeft(LAMBDA v, m : ToTab(v, m, sel), [w EXCEPT !.onTab = Focus(@, msg)], Told(w, msg))

-----------------------------------------------------------------------------
NoTimers == [list |-> FALSE, details |-> FALSE]

(* Update by New: the tab shows the list and asks for it. *)
Init ==
  \E s \in Sessions :
    /\ user = s /\ registry = s.registry
    /\ page = "list" /\ list = NewListPage
    /\ details = NoDetails /\ create = CreatePage
    /\ onTab = TRUE /\ jobs = <<Job("list", NoItem, "list")>>
    /\ timers = NoTimers /\ crashed = FALSE

Press(msg, sel) ==
  /\ ~crashed
  /\ onTab = ~IsKey(msg, "ctrl+right")
  /\ Become(Handle(Now, msg, sel))
  /\ UNCHANGED registry

RunDeletion(i) ==
  /\ ~crashed
  /\ jobs[i].at = "issued"
  /\ Become([Now EXCEPT !.jobs[i] = Run(list, @)])
  /\ UNCHANGED registry

Requests == {"list", "delete", "versions", "remove", "register"}
WithoutJob(i) == [Now EXCEPT !.jobs = RemoveAt(@, i)]

(* The registry does what it is asked, or reports an error.  A request     *)
(* nobody awaits is done with then.                                        *)
Served(i, result) ==
  LET job == [jobs[i] EXCEPT !.result = result,
                             !.found = IF jobs[i].kind = "list" THEN SubjectsOf(registry)
                                       ELSE @]
  IN  Become(IF job.at = "lost" THEN WithoutJob(i)
             ELSE [Now EXCEPT !.jobs = [@ EXCEPT ![i] = job]])

CanServe(i) == /\ ~crashed
               /\ jobs[i].kind \in Requests
               /\ jobs[i].at # "issued" /\ jobs[i].result = "open"

RequestDone(i) ==
  /\ CanServe(i) /\ Succeeds(registry, jobs[i])
  /\ registry' = After(registry, jobs[i])
  /\ Served(i, "ok")

(* The versions that cannot be fetched are listed nevertheless. *)
RequestFails(i) ==
  /\ CanServe(i) /\ jobs[i].kind # "versions"
  /\ Served(i, "err")
  /\ UNCHANGED registry

StartedOf(kind) ==
  CASE kind = "list"     -> "listingStarted"
    [] kind = "delete"   -> "deletionStarted"
    [] kind = "versions" -> "versionsStarted"
    [] kind = "remove"   -> "removalStarted"
    [] kind = "register" -> "creationStarted"

Unawaited(js, i) ==
  IF js[i].result = "open" THEN [js EXCEPT ![i].at = "lost"] ELSE RemoveAt(js, i)

Begun(w, i) ==
  [w EXCEPT !.jobs = IF w.awaits THEN [@ EXCEPT ![i].at = "awaited"] ELSE Unawaited(@, i)]

RequestStarted(i, sel) ==
  /\ ~crashed
  /\ jobs[i].kind \in Requests /\ jobs[i].at = "sent"
  /\ Become(Begun(Handle(Now, Message(StartedOf(jobs[i].kind)), sel), i))
  /\ UNCHANGED registry

Answer(job) ==
  LET ok == job.result = "ok" IN
  CASE job.kind = "list" /\ ok      -> [type |-> "listed", found |-> job.found]
    [] job.kind = "list" /\ ~ok     -> Message("listErr")
    [] job.kind = "delete" /\ ok    -> [type |-> "deleted", name |-> job.name]
    [] job.kind = "delete" /\ ~ok   -> Message("deletionErr")
    [] job.kind = "versions"        -> [type |-> "versionsListed",
                                        schemas |-> SetToSeq(job.found)]
    [] job.kind = "remove" /\ ok    -> [type |-> "removed", version |-> job.version]
    [] job.kind = "remove" /\ ~ok   -> Message("removalErr")
    [] job.kind = "register" /\ ok  -> Message("created")
    [] job.kind = "register" /\ ~ok -> Message("creationErr")

(* History: the page of a subject gets an answer that is not its own. *)
Marked(w, job) ==
  IF w.onTab /\ w.page = "details" /\ job.kind \in {"versions", "remove"}
     /\ job.by # "details"
  THEN [w EXCEPT !.details.stray = TRUE] ELSE w

Answered(i, sel) ==
  /\ ~crashed
  /\ jobs[i].at = "awaited" /\ jobs[i].result # "open"
  /\ Become(Handle(Marked(WithoutJob(i), jobs[i]), Answer(jobs[i]), sel))
  /\ UNCHANGED registry

(* The messages the page of a subject posts: of its copying, and the one   *)
(* that goes back five seconds after the last version was deleted.         *)
Copied(i, type) ==
  /\ ~crashed
  /\ jobs[i].kind = "copy"
  /\ Become(Handle(WithoutJob(i), Message(type), NoSubject))
  /\ UNCHANGED registry

Return(i) ==
  /\ ~crashed
  /\ jobs[i].kind = "return"
  /\ Become(IF onTab THEN Back(WithoutJob(i), TRUE) ELSE WithoutJob(i))
  /\ UNCHANGED registry

(* A frame of the spinner on the page shown. *)
Spinning == \/ page = "list" /\ HasPriority(list.bars)
            \/ page = "details" /\ HasPriority(details.bar)
SpinnerTick ==
  /\ ~crashed
  /\ onTab /\ Spinning
  /\ Become(Handle(Now, Tick, NoSubject))
  /\ UNCHANGED registry

(* A notification hides itself, or what is shown when its page was left;   *)
(* each page minds only the timers of its kind.                            *)
HideNotification(left) ==
  /\ ~crashed
  /\ onTab /\ page \in DOMAIN timers
  /\ IF left THEN timers[page]
     ELSE (IF page = "list" THEN list.bars.note ELSE details.bar.note).autoHide
  /\ Become(Handle([Now EXCEPT !.timers[page] = @ /\ ~left], Hide, NoSubject))
  /\ UNCHANGED registry

Next ==
  \/ \E sel \in Selections(list) :
       \/ \E msg \in user.inputs[page] : Press(msg, sel)
       \/ \E i \in DOMAIN jobs : RequestStarted(i, sel) \/ Answered(i, sel)
  \/ \E i \in DOMAIN jobs :
       \/ RunDeletion(i)
       \/ RequestDone(i) \/ RequestFails(i)
       \/ \E type \in {"copied", "copyErr"} : Copied(i, type)
       \/ Return(i)
  \/ SpinnerTick
  \/ \E left \in BOOLEAN : HideNotification(left)

Spec == Init /\ [][Next]_vars

-----------------------------------------------------------------------------
(* Correctness.                                                            *)

\* The registry, the pages and the requests have their types.
TypeOK ==
  /\ registry \in [Items -> Held]
  /\ page \in {"list", "details", "create"}
  /\ list \in ListPages
  /\ details.bar \in DetailsBars
  /\ details.selected \in 1 .. Max({Len(details.chips), 1})
  /\ create \in CreatePages
  /\ {onTab, crashed} \subseteq BOOLEAN

\* Two prompts never have the keys at once: the one that deletes for good is
\* gone when the search, the sorting, the other prompt or a spinner takes them.
OnePrompt == ~(list.hard.active /\ IsFocussed(list.bars))

\* A subject is deleted only if the prompt open names it and says so; and for
\* good only if the prompt of F4 did, or that of F2 on the tab of the deleted
\* ones, or if the tab was changed before the command ran.
Prompted(job) ==
  IF job.prompt = "hard"
  THEN list.hard.active /\ list.hard.affirmed /\ list.hard.value = job.name
  ELSE /\ list.bars.active = "delete" /\ ~list.hard.active
       /\ list.bars.del.affirmed /\ list.bars.del.value = job.name
       /\ job.prompt = list.tab
Confirms == Len(jobs') > Len(jobs) /\ Last(jobs').at = "issued"
PermanentIsAsked ==
  [][/\ Confirms => Prompted(Last(jobs'))
     /\ \A i \in DOMAIN jobs :
          /\ jobs[i].kind = "delete" /\ jobs[i].permanent
          /\ registry'[jobs[i].name] # registry[jobs[i].name]
          => jobs[i].prompt # "active" \/ jobs[i].moved]_vars

\* The list comes to show as active a subject this program has deleted only
\* while the list or the tab is left, or by a deletion that began then, or by a
\* listing made before it.
Coming(s) == \E i \in DOMAIN jobs :
               /\ jobs[i].kind = "delete" /\ jobs[i].name = s
               /\ jobs[i].at # "lost" /\ jobs[i].result = "ok"
Truthful(s) == \A x \in list.subjects :
                 x.name = s => x.deleted \/ IsActive(registry[s]) \/ Coming(s)
Outdated == \E i \in DOMAIN jobs :
               jobs[i].kind = "list" /\ jobs[i].result = "ok"
               /\ jobs[i].found # SubjectsOf(registry)
Unheard == \E i \in DOMAIN jobs :
              \/ jobs[i].kind = "delete" /\ jobs[i].at = "lost"
              \/ jobs[i].kind = "remove" /\ jobs[i].by # "details"
ListFollows ==
  [][\A s \in Items : Truthful(s) /\ ~Truthful(s)' =>
       page # "list" \/ ~onTab \/ Outdated \/ Unheard]_vars

\* A page waits with no request under way only if a message was missed while
\* another page was shown, or on another tab one that main does not hand on, or,
\* for the list and the page of a subject, if a request has failed: nothing
\* takes them back from that.
UnderWay(kinds) == \E i \in DOMAIN jobs : jobs[i].kind \in kinds /\ jobs[i].at # "lost"
Waits ==
  \/ list.state \in {"loading", "deleting"} /\ ~UnderWay({"list", "delete"})
  \/ page = "details" /\ HasPriority(details.bar) /\ ~UnderWay({"versions", "remove"})
  \/ page = "create" /\ create.state = "creating" /\ ~UnderWay({"register"})
HandedOn(job) == \/ job.kind = "list" /\ job.result # "err"
                 \/ job.kind = "delete" /\ job.result # "err" /\ job.at = "awaited"
Missed(job) ==
  \/ job.by # page
  \/ ~onTab /\ ~HandedOn(job)
  \/ job.result = "err" /\ job.kind # "register"
WaitsOnlyIfMissed ==
  [][~Waits /\ Waits' /\ ~crashed' => \E i \in DOMAIN jobs : Missed(jobs[i])]_vars

\* The version deleted is one of those shown, and it is the subject's of the
\* page, unless the page got the answer meant for the page of another subject,
\* or the last version was deleted and the page is about to be left.
Removes == Len(jobs') > Len(jobs) /\ Last(jobs').kind = "remove"
AllRemoved == details.anyDeleted /\ details.updated = <<>>
RemovedIsShown ==
  [][Removes =>
       \/ Schema(Last(jobs').name, Last(jobs').version) \in ToSet(details.schemas)
       \/ details.stray \/ AllRemoved]_vars

\* The versions to choose from are those of the list, with the same exceptions;
\* and one of them that is deleted leaves the list, unless its deletion was asked
\* on a page since left, or a message of it met another tab, where main does not
\* hand it on, or the list has not come yet.
Leaving(x) == \E i \in DOMAIN jobs :
                /\ jobs[i].kind = "remove" /\ jobs[i].name = x.subject
                /\ jobs[i].version = x.version /\ jobs[i].result = "ok"
Own == page = "details" /\ ~details.stray /\ ~AllRemoved
AllHeld == Own => \A x \in ToSet(details.schemas) :
                    x.version \in registry[x.subject].live \/ Leaving(x)
Elsewhere(job) ==
  /\ job.kind \in {"delete", "remove"}
  /\ job.by # "details" \/ job.at = "lost" \/ ~onTab
VersionsFollow ==
  [][/\ Own' => details'.chips = ChipsOf(details'.schemas)
     /\ AllHeld /\ ~AllHeld' =>
          \E i \in DOMAIN jobs : Elsewhere(jobs[i]) \/ jobs[i].kind = "versions"]_vars
=============================================================================
