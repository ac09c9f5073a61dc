---------------------------- MODULE ConnectorPage ----------------------------
(***************************************************************************)
(* The page of one Kafka Connect cluster (kcon_page), the tab that holds   *)
(* it (kcon_tab), the routing of its messages by the root model, and the   *)
(* requests it makes of Connect (kcadmin).                                 *)
(*                                                                         *)
(* A request is a call: a goroutine that executes it, and the chain of     *)
(* messages that goes with it.  The connector a message is about is the    *)
(* one selected when the message arrives, and the page that hears it is    *)
(* the one that is active then.  Pausing and resuming go on with a loop    *)
(* that lists the connectors until the state is reached or a deadline,     *)
(* kept on the page, has passed.                                           *)
(*                                                                         *)
(* Two loops of one page look at its deadline and set or clear it without  *)
(* synchronisation (a nil dereference is possible in between): here that   *)
(* is one step.                                                            *)
(***************************************************************************)
EXTENDS Integers

CONSTANTS
  Connectors,     \* the names of the connectors
  Remotes,        \* the states the connectors may be in at the start
  Nil,            \* the nil map, before a listing
  NoName,         \* "": the selection when no row is selected
  Calls,          \* slots for the requests under way: 1..n
  MaxRequests,    \* bound: how many requests the user makes
  MaxVisits       \* bound: how often the page is opened

ASSUME ConnectorPageAssumption ==
  /\ NoName \notin Connectors
  /\ Remotes \subseteq [Connectors -> {"RUNNING", "PAUSED"}]
  /\ Calls \subseteq Nat
  /\ MaxRequests \in Nat
  /\ MaxVisits \in Nat \ {0}

VARIABLES
  remote,         \* what Connect knows of each connector
  call,           \* the requests under way
  requests,       \* how many the user has made, for the bound
  page,           \* the number of the page opened last, 0 before the first
  active,         \* the tab shows that page or the clusters of Connect, or
                  \* the program has crashed
  focused,        \* the Kafka Connect tab is the one shown
  shown,          \* connectors: a map, or nil
  loading,        \* state is loading: neither loaded nor errored
  spinner,        \* stsSpinner is not nil
  changing,       \* stateChangingConnectorName, of each page
  deadline        \* resumeDeadline, of each page

connect  == <<remote, call, requests>>
where    == <<page, active, focused>>
contents == <<shown, loading, spinner>>
waiting  == <<changing, deadline>>
vars == <<connect, where, contents, waiting>>

Pages    == 1..MaxVisits
States   == {"RUNNING", "PAUSED"}
Listings == UNION {[S -> States] : S \in SUBSET Connectors}
Kinds    == {"list", "pause", "resume", "delete"}
NoCall   == [kind |-> "none", name |-> NoName, on |-> 0, phase |-> "free",
             reply |-> "none", listed |-> <<>>]

CallRecords == [kind : Kinds, name : Connectors \cup {NoName}, on : 0..MaxVisits,
                phase : {"starting", "awaiting", "checking", "polling", "changed",
                         "timedOut", "dropped"},
                reply : {"none", "ok", "error"}, listed : Listings \cup {<<>>}]

\* What a listing says of the connectors: a change takes effect later.
Status == [c \in {d \in Connectors : remote[d] # "none"} |->
             IF remote[c] \in {"RUNNING", "pausing"} THEN "RUNNING" ELSE "PAUSED"]

Selectable == (IF shown = Nil THEN {} ELSE DOMAIN shown) \cup {NoName}
KeysReachPage == active = "page" /\ focused

Begin(k, kind, name) ==
  /\ requests < MaxRequests /\ requests' = requests + 1
  /\ call[k] = NoCall /\ \A j \in Calls : j < k => call[j] # NoCall
  /\ call' = [call EXCEPT ![k] = [kind |-> kind, name |-> name, on |-> 0,
                 phase |-> "starting", reply |-> "none", listed |-> <<>>]]

Goes(k, phase) == call' = [call EXCEPT ![k].phase = phase]
Loops(k, phase, on) ==
  call' = [call EXCEPT ![k].phase = phase, ![k].on = on,
                       ![k].reply = "none", ![k].listed = <<>>]
Ends(k) == call' = [call EXCEPT ![k] = NoCall]

Init ==
  /\ remote \in Remotes
  /\ call = [k \in Calls |-> NoCall] /\ requests = 0
  /\ page = 0 /\ active = "clusters" /\ focused = TRUE
  /\ shown = Nil /\ loading = TRUE /\ spinner = FALSE
  /\ changing = [p \in Pages |-> NoName]
  /\ deadline = [p \in Pages |-> "none"]

-----------------------------------------------------------------------------
(* Keys *)

\* Enter on the clusters of Connect: loadKConPage creates a page.
OpenPage(k) ==
  /\ active = "clusters" /\ focused /\ page < MaxVisits
  /\ page' = page + 1
  /\ active' = "page"
  /\ Begin(k, "list", NoName)
  /\ shown' = Nil /\ loading' = TRUE /\ spinner' = FALSE
  /\ UNCHANGED <<remote, focused, waiting>>

LeavePage ==
  /\ KeysReachPage
  /\ active' = "clusters"
  /\ UNCHANGED <<connect, page, focused, contents, waiting>>

SwitchTab ==
  /\ active # "crashed"
  /\ focused' = ~focused
  /\ UNCHANGED <<connect, page, active, contents, waiting>>

\* "P" and "R", which are refused while the state of a connector is changing.
ChangeState(k, kind) ==
  /\ KeysReachPage /\ changing[page] = NoName
  /\ \E name \in Selectable : Begin(k, kind, name)
  /\ UNCHANGED <<remote, where, contents, waiting>>

Refresh(k) ==
  /\ KeysReachPage /\ ~loading
  /\ shown' = Nil /\ loading' = TRUE
  /\ Begin(k, "list", NoName)
  /\ UNCHANGED <<remote, where, spinner, waiting>>

\* Confirmed in the deletion bar, which took its connector when it was opened:
\* it may be selected, or shown, no longer.
ConfirmDeletion(k) ==
  /\ KeysReachPage
  /\ \E name \in Connectors \cup {NoName} : Begin(k, "delete", name)
  /\ UNCHANGED <<remote, where, contents, waiting>>

-----------------------------------------------------------------------------
(* Kafka Connect *)

\* The effect of the request of a call that succeeds.
Executed(c) ==
  CASE c.kind = "pause"  /\ c.phase # "polling" ->
         IF remote[c.name] \in {"RUNNING", "resuming"}
           THEN [remote EXCEPT ![c.name] = "pausing"] ELSE remote
    [] c.kind = "resume" /\ c.phase # "polling" ->
         IF remote[c.name] \in {"PAUSED", "pausing"}
           THEN [remote EXCEPT ![c.name] = "resuming"] ELSE remote
    [] c.kind = "delete" -> [remote EXCEPT ![c.name] = "none"]
    [] OTHER -> remote

IsListing(c) == c.kind = "list" \/ c.phase = "polling"

\* A goroutine gets its answer, whether or not anyone listens.  A request that
\* names no connector there is fails.
Serve(k) ==
  LET c == call[k] IN
  /\ c.phase \in {"starting", "awaiting", "polling", "dropped"}
  /\ c.reply = "none"
  /\ \E reply \in {"ok", "error"} :
       /\ reply = "ok" => IsListing(c) \/ (c.name # NoName /\ remote[c.name] # "none")
       /\ remote' = IF reply = "ok" THEN Executed(c) ELSE remote
       /\ call' = [call EXCEPT ![k] =
            IF c.phase = "dropped" THEN NoCall
            ELSE [c EXCEPT !.reply = reply, !.name = IF c.kind = "delete" THEN @ ELSE NoName,
                    !.listed = IF reply = "ok" /\ IsListing(c) THEN Status ELSE <<>>]]
  /\ UNCHANGED <<requests, where, contents, waiting>>

\* A connector reaches the state asked for, in Connect's own time.
TakeEffect(c) ==
  /\ remote[c] \in {"pausing", "resuming"}
  /\ remote' = [remote EXCEPT ![c] = IF @ = "pausing" THEN "PAUSED" ELSE "RUNNING"]
  /\ UNCHANGED <<call, requests, where, contents, waiting>>

-----------------------------------------------------------------------------
(* Messages *)

\* A bug: the failure of a listing is not among the routed messages.
RoutedIfListed(c) == focused \/ (c.kind = "list" /\ c.reply # "error")

\* Messages go to the tab that is shown, but those of a listing are routed to
\* this tab wherever the user is.
Routed(c) == focused \/ c.kind = "list" \/ c.phase = "timedOut"
Heard(c) == active = "page" /\ Routed(c)

Pending(c) == \/ c.phase \in {"starting", "changed", "timedOut"}
              \/ c.phase = "awaiting" /\ c.reply # "none"

\* Nobody takes the message: its chain ends, but a change that has been asked of
\* Connect goes on.
Drop(k) ==
  /\ Pending(call[k]) /\ ~Heard(call[k])
  /\ IF call[k].phase = "starting" /\ call[k].kind # "list" /\ call[k].reply = "none"
       THEN Goes(k, "dropped") ELSE Ends(k)
  /\ UNCHANGED <<remote, requests, where, contents, waiting>>

\* ConnectorListingStartedMsg
ListingStarted(k) ==
  /\ call[k].kind = "list" /\ call[k].phase = "starting" /\ Heard(call[k])
  /\ Goes(k, "awaiting")
  /\ UNCHANGED <<remote, requests, where, shown, loading, spinner, waiting>>

\* PausingStartedMsg and ResumingStartedMsg: newSpinner
ChangeStarted(k) ==
  /\ call[k].kind \in {"pause", "resume"} /\ call[k].phase = "starting" /\ Heard(call[k])
  /\ \E name \in Selectable : changing' = [changing EXCEPT ![page] = name]
  /\ spinner' = TRUE
  /\ Goes(k, "awaiting")
  /\ UNCHANGED <<remote, requests, where, shown, loading, deadline>>

\* ConnectorDeletionStartedMsg
DeletionStarted(k) ==
  /\ call[k].kind = "delete" /\ call[k].phase = "starting" /\ Heard(call[k])
  /\ loading' = TRUE
  /\ Goes(k, "awaiting")
  /\ UNCHANGED <<remote, requests, where, shown, spinner, waiting>>

Answered(k, kinds, reply) ==
  /\ call[k].kind \in kinds /\ call[k].phase = "awaiting" /\ call[k].reply = reply
  /\ Heard(call[k])

\* ConnectorsListedMsg
Listed(k) ==
  /\ Answered(k, {"list"}, "ok")
  /\ shown' = call[k].listed /\ loading' = FALSE
  /\ Ends(k)
  /\ UNCHANGED <<remote, requests, where, spinner, waiting>>

\* ConnectorListingErrMsg, of a listing or of a loop whose time is up
ListingErr(k) ==
  /\ Answered(k, {"list"}, "error") \/ (call[k].phase = "timedOut" /\ Heard(call[k]))
  /\ loading' = FALSE
  /\ Ends(k)
  /\ UNCHANGED <<remote, requests, where, shown, spinner, waiting>>

\* PauseRequestedMsg and ResumeRequestedMsg: the loop of the page that hears it
ChangeRequested(k) ==
  /\ Answered(k, {"pause", "resume"}, "ok")
  /\ Loops(k, "checking", page)
  /\ UNCHANGED <<remote, requests, where, shown, loading, spinner, waiting>>

\* PausingErrMsg and ResumingErrMsg: nobody handles them
ChangeErr(k) ==
  /\ Answered(k, {"pause", "resume"}, "error")
  /\ Ends(k)
  /\ UNCHANGED <<remote, requests, where, contents, waiting>>

\* ConnectorDeletedMsg: delete(*m.connectors, msg.Name) panics on nil
Deleted(k) ==
  /\ Answered(k, {"delete"}, "ok")
  /\ IF shown = Nil
       THEN active' = "crashed" /\ UNCHANGED shown
       ELSE shown' = [c \in DOMAIN shown \ {call[k].name} |-> shown[c]] /\ UNCHANGED active
  /\ loading' = FALSE
  /\ Ends(k)
  /\ UNCHANGED <<remote, requests, page, focused, spinner, waiting>>

\* ConnectorDeletionErrMsg: only the notifier handles it
DeletionErr(k) ==
  /\ Answered(k, {"delete"}, "error")
  /\ Ends(k)
  /\ UNCHANGED <<remote, requests, where, shown, loading, spinner, waiting>>

\* ConnectorStateChanged
StateChanged(k) ==
  /\ call[k].phase = "changed" /\ Heard(call[k])
  /\ spinner' = FALSE
  /\ shown' = call[k].listed
  /\ changing' = [changing EXCEPT ![page] = NoName]
  /\ Ends(k)
  /\ UNCHANGED <<remote, requests, where, loading, deadline>>

-----------------------------------------------------------------------------
(* waitForConnectorState, of the page call[k].on *)

\* A bug: each turn sets the deadline anew.
CheckDeadlineSetAnew(k) ==
  /\ call[k].phase = "checking"
  /\ deadline' = [deadline EXCEPT ![call[k].on] = "running"]
  /\ Loops(k, "polling", call[k].on)
  /\ UNCHANGED <<remote, requests, where, contents, changing>>

CheckDeadline(k) ==
  LET p == call[k].on IN
  /\ call[k].phase = "checking"
  /\ deadline' = [deadline EXCEPT ![p] = IF @ = "passed" THEN "none" ELSE
                                         IF @ = "none" THEN "running" ELSE @]
  /\ Loops(k, IF deadline[p] = "passed" THEN "timedOut" ELSE "polling", p)
  /\ UNCHANGED <<remote, requests, where, contents, changing>>

DeadlinePasses(p) ==
  /\ deadline[p] = "running"
  /\ deadline' = [deadline EXCEPT ![p] = "passed"]
  /\ UNCHANGED <<connect, where, contents, changing>>

Reached(k) ==
  LET c == call[k]
      target == IF c.kind = "pause" THEN "PAUSED" ELSE "RUNNING"
  IN  changing[c.on] \in DOMAIN c.listed /\ c.listed[changing[c.on]] = target

Compare(k) ==
  /\ call[k].phase = "polling" /\ call[k].reply = "ok"
  /\ IF Reached(k) THEN Goes(k, "changed") ELSE Loops(k, "checking", call[k].on)
  /\ UNCHANGED <<remote, requests, where, contents, waiting>>

\* The loop gives up with a method value, a message nobody handles.
PollFails(k) ==
  /\ call[k].phase = "polling" /\ call[k].reply = "error"
  /\ Ends(k)
  /\ UNCHANGED <<remote, requests, where, contents, waiting>>

-----------------------------------------------------------------------------
User(k) == \/ OpenPage(k) \/ Refresh(k) \/ ConfirmDeletion(k)
           \/ \E kind \in {"pause", "resume"} : ChangeState(k, kind)

Deliver(k) == \/ ListingStarted(k) \/ ChangeStarted(k) \/ DeletionStarted(k)
              \/ Listed(k) \/ ListingErr(k) \/ ChangeRequested(k) \/ ChangeErr(k)
              \/ Deleted(k) \/ DeletionErr(k) \/ StateChanged(k) \/ Drop(k)

Wait(k) == CheckDeadline(k) \/ Compare(k) \/ PollFails(k)

Next == \/ \E k \in Calls : User(k) \/ Serve(k) \/ Deliver(k) \/ Wait(k)
        \/ \E c \in Connectors : TakeEffect(c)
        \/ \E p \in Pages : DeadlinePasses(p)
        \/ LeavePage \/ SwitchTab

Spec == Init /\ [][Next]_vars

\* Requests return, messages are delivered, loops go on and time passes.
\* Nothing is assumed of the user or of Connect's connectors.
Fairness ==
  /\ \A k \in Calls : WF_vars(Serve(k)) /\ WF_vars(Deliver(k)) /\ WF_vars(Wait(k))
  /\ \A p \in Pages : WF_vars(DeadlinePasses(p))

FairSpec == Spec /\ Fairness

-----------------------------------------------------------------------------
(* Properties *)

\* The variables keep their types.
TypeOK ==
  /\ remote \in [Connectors -> States \cup {"pausing", "resuming", "none"}]
  /\ \A k \in Calls : call[k] = NoCall \/ call[k] \in CallRecords
  /\ requests \in 0..MaxRequests
  /\ page \in 0..MaxVisits /\ active \in {"page", "clusters", "crashed"} /\ focused \in BOOLEAN
  /\ shown \in Listings \cup {Nil} /\ loading \in BOOLEAN
  /\ spinner \in BOOLEAN
  /\ changing \in [Pages -> Connectors \cup {NoName}]
  /\ deadline \in [Pages -> {"none", "running", "passed"}]

\* A change that Connect has accepted is waited for, but not for ever: the loop
\* of every pause and resume ends, although loops that overlap share a deadline
\* and one that succeeds leaves it behind.
ChangesSettle ==
  \A k \in Calls :
    call[k].phase \in {"checking", "polling"} ~> call[k].phase \notin {"checking", "polling"}

\* A page that stays open and deletes nothing does not load for ever, wherever
\* the user has gone: its listing arrives or its failure is told.
ListingsSettle ==
  [](\A k \in Calls : call[k].kind # "delete")
    => (loading /\ active = "page" ~> ~loading \/ active # "page")
=============================================================================
