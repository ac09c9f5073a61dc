----------------------------- MODULE TopicsPage -----------------------------
(***************************************************************************)
(* The topics page (ui/pages/topics_page): the list of topics, the rows    *)
(* that are shown of it, its command bars, and the listings and deletions  *)
(* it has asked for.  A request runs as everywhere in ktea: the command    *)
(* yields a started message, whose handler awaits the result, which is the *)
(* next message.  A message reaches the page only if the root model and    *)
(* the topics tab hand it on, which depends on what is shown when it       *)
(* arrives.                                                                *)
(***************************************************************************)
EXTENDS CommandBars, FiniteSets, SequencesExt

CONSTANTS Internal,    \* the topics whose name starts with an underscore
          Matches(_, _), \* does a topic's name contain the term
          MaxRequests, \* bound: requests under way at a time
          MaxTimers    \* bound: notifications about to be hidden

ASSUME PageAssumption == /\ Internal \subseteq Items
                         /\ IsFiniteSet(Items)
                         /\ MaxRequests \in Nat \ {0}
                         /\ MaxTimers \in Nat
                         /\ \A i \in Items : Matches(i, EmptyTerm)

VARIABLES topics,       \* m.topics: what the last listing returned
          state,        \* m.state
          showInternal, \* m.showInternalTopics
          rows,         \* m.rows: the topics shown
          tcb,          \* m.tcb: the command bars
          onPage,       \* the topics page is the tab's active page
          onTab,        \* the topics tab is the focused tab
          requests,     \* the requests under way, in the order made
          ticking,      \* a tick of the spinner is under way
          timers,       \* running 5 s timers that hide a notification
          hides         \* hide messages under way

vars == <<topics, state, showInternal, rows, tcb, onPage, onTab, requests,
          ticking, timers, hides>>

Requests == [kind : {"list", "delete"}, topic : Items \cup {NoItem},
             at : {"issued", "awaited"}]
Listing == [kind |-> "list", topic |-> NoItem, at |-> "issued"]
Deletion(t) == [kind |-> "delete", topic |-> t, at |-> "issued"]

TypeOK ==
  /\ topics \subseteq Items /\ rows \subseteq Items
  /\ state \in {"refreshing", "loading", "loaded"}
  /\ tcb \in Bars
  /\ {showInternal, onPage, onTab, ticking} \subseteq BOOLEAN
  /\ requests \in Seq(Requests)
  /\ timers \in Nat /\ hides \in Nat

Init ==
  /\ topics = {} /\ rows = {}
  /\ state = "loading"
  /\ showInternal = FALSE
  /\ tcb = NewBars
  /\ onPage = TRUE /\ onTab = TRUE
  /\ requests = <<Listing>>
  /\ ticking = FALSE /\ timers = 0 /\ hides = 0

Shown == onPage /\ onTab

(***************************************************************************)
(* The rows: the topics that match the search term, the internal ones only *)
(* when they are asked for.                                                *)
(***************************************************************************)
RowsOf(listed, internal, term) ==
  {t \in listed : (internal \/ t \notin Internal) /\ Matches(t, term)}

(* The cursor is on some row, if there is one. *)
Selections == IF rows = {} THEN {NoItem} ELSE rows
SelectedTopic(selection) == IF selection \in topics THEN selection ELSE NoItem

\* A bug: no handler for a failed listing.
HandlersWithoutError(s) ==
  [listingStarted  |-> Spin,
   listed          |-> Idle,
   deletionStarted |-> Spin,
   deleted         |-> Handler("success", TRUE, TRUE),
   deletionErr     |-> Handler("error", TRUE, TRUE),
   regainedFocus   |-> IF s \in {"refreshing", "loading"} THEN Spin ELSE Ignore]

(* The page's notification handlers (BindNotificationHandler in New). *)
Handlers(s) ==
  [listingStarted  |-> Spin,
   listed          |-> Idle,
   listErr         |-> Handler("error", TRUE, FALSE),
   deletionStarted |-> Spin,
   deleted         |-> Handler("success", TRUE, TRUE),
   deletionErr     |-> Handler("error", TRUE, TRUE),
   regainedFocus   |-> IF s \in {"refreshing", "loading"} THEN Spin ELSE Ignore]

-----------------------------------------------------------------------------
(* What follows the page's own handling in Update: the bars, the rows, the *)
(* commands the bars returned.                                             *)
CanIssue == Len(requests) < MaxRequests
CanDelete == CanIssue /\ timers + hides
                         + Cardinality({i \in DOMAIN requests : requests[i].kind = "delete"})
                           < MaxTimers

Deletions(cmds) == {t \in Items : DeleteCmd(t) \in cmds}

(* The requests after the bars have returned `cmds`, one deletion at most. *)
WithDeletion(reqs, cmds) ==
  IF Deletions(cmds) = {} THEN reqs
  ELSE Append(reqs, Deletion(CHOOSE t \in Deletions(cmds) : TRUE))

\* A bug: the rows are made before the bars have seen the message.
BarAfterRows(bars, msg, selection, listed, newState, reqs) ==
  LET o == TableUpdate(bars, msg, selection, Handlers(newState), Items)
  IN  /\ tcb' = o.next
      /\ topics' = listed
      /\ state' = newState
      /\ rows' = RowsOf(listed, showInternal, bars.search.term)
      /\ Deletions(o.cmds) # {} => CanDelete
      /\ requests' = WithDeletion(reqs, o.cmds)
      /\ ticking' = (ticking \/ SpinCmd \in o.cmds)
      /\ timers' = timers + (IF AutoHideCmd \in o.cmds THEN 1 ELSE 0)

Bar(bars, msg, selection, listed, newState, reqs) ==
  LET o == TableUpdate(bars, msg, selection, Handlers(newState), Items)
  IN  /\ tcb' = o.next
      /\ topics' = listed
      /\ state' = newState
      /\ rows' = RowsOf(listed, showInternal, o.next.search.term)
      /\ Deletions(o.cmds) # {} => CanDelete
      /\ requests' = WithDeletion(reqs, o.cmds)
      /\ ticking' = (ticking \/ SpinCmd \in o.cmds)
      /\ timers' = timers + (IF AutoHideCmd \in o.cmds THEN 1 ELSE 0)

Unmoved == UNCHANGED <<showInternal, onPage, onTab>>

(***************************************************************************)
(* Keys.  Some act on the page whatever bar is active: F4 and F5, and the  *)
(* keys that open another page, of which enter and ctrl+g want the table   *)
(* to have the focus.                                                      *)
(***************************************************************************)
ToggleInternal ==
  /\ Shown
  /\ showInternal' = ~showInternal
  /\ rows' = RowsOf(topics, showInternal', tcb.search.term)
  /\ UNCHANGED <<topics, state, tcb, onPage, onTab, requests, ticking, timers, hides>>

Refresh ==
  /\ Shown /\ CanIssue
  /\ topics' = {}
  /\ state' = "refreshing"
  /\ requests' = Append(requests, Listing)
  /\ UNCHANGED <<showInternal, rows, tcb, onPage, onTab, ticking, timers, hides>>

LeavePage ==
  /\ Shown
  /\ onPage' = FALSE
  /\ UNCHANGED <<topics, state, showInternal, rows, tcb, onTab, requests,
                 ticking, timers, hides>>

(* enter and ctrl+g *)
OpenTopic(selection) ==
  /\ ~IsFocussed(tcb)
  /\ SelectedTopic(selection) # NoItem
  /\ LeavePage

(* ctrl+n, ctrl+o, ctrl+p, L *)
OpenOther ==
  LeavePage

(* The search input holds another term only after a key typed into it. *)
Press(key, term, selection) ==
  /\ Shown
  /\ key \in Keys \ {"f4", "f5"}
  /\ key = "enter" => IsFocussed(tcb) \/ SelectedTopic(selection) = NoItem
  /\ term # tcb.search.term => key \in TypedKeys /\ tcb.search.state = "searching"
  /\ Bar(tcb, Key(key, term), selection, topics, state, requests)
  /\ UNCHANGED hides /\ Unmoved

-----------------------------------------------------------------------------
(***************************************************************************)
(* Back from another page, with or without a message that asks for a       *)
(* refresh; to another tab and back.                                       *)
(***************************************************************************)
ToTopicsPage ==
  /\ ~onPage /\ onTab
  /\ onPage' = TRUE
  /\ UNCHANGED <<topics, state, showInternal, rows, tcb, onTab, requests,
                 ticking, timers, hides>>

LoadTopicsPage(refresh) ==
  /\ ~onPage /\ onTab
  /\ refresh => CanIssue
  /\ onPage' = TRUE
  /\ \E selection \in Selections :
       Bar(tcb, [type |-> "loadTopicsPage"], selection,
           IF refresh THEN {} ELSE topics, state,
           IF refresh THEN Append(requests, Listing) ELSE requests)
  /\ UNCHANGED <<showInternal, onTab, hides>>

LeaveTab ==
  /\ onTab
  /\ onTab' = FALSE
  /\ UNCHANGED <<topics, state, showInternal, rows, tcb, onPage, requests,
                 ticking, timers, hides>>

RegainFocus ==
  /\ ~onTab
  /\ onTab' = TRUE
  /\ IF onPage
     THEN \E selection \in Selections :
            Bar(tcb, [type |-> "regainedFocus"], selection, topics, state, requests)
     ELSE UNCHANGED <<tcb, topics, state, rows, requests, ticking, timers>>
  /\ UNCHANGED <<showInternal, onPage, hides>>

-----------------------------------------------------------------------------
(***************************************************************************)
(* The messages of a request.  main routes ListingStarted and Listed to    *)
(* the topics tab whatever tab is focused; the tab routes Listed to the    *)
(* page, everything else to its active page.  A started message that does  *)
(* not reach the page leaves nobody to await the result.                   *)
(***************************************************************************)
Finished(i) == RemoveAt(requests, i)

Unheard(i) ==
  /\ requests' = Finished(i)
  /\ UNCHANGED <<topics, state, rows, tcb, ticking, timers>>

Started(i) ==
  /\ requests[i].at = "issued"
  /\ LET listing == requests[i].kind = "list"
     IN  IF onPage /\ (onTab \/ listing)
         THEN \E selection \in Selections :
                Bar(tcb, [type |-> IF listing THEN "listingStarted" ELSE "deletionStarted"],
                    selection, topics, state, [requests EXCEPT ![i].at = "awaited"])
         ELSE Unheard(i)
  /\ UNCHANGED hides /\ Unmoved

Listed(i, found) ==
  /\ requests[i].at = "awaited" /\ requests[i].kind = "list"
  /\ \E selection \in Selections :
       Bar(ResetSearch(tcb), [type |-> "listed"], selection, found, "loaded", Finished(i))
  /\ UNCHANGED hides /\ Unmoved

ListingFailed(i) ==
  /\ requests[i].at = "awaited" /\ requests[i].kind = "list"
  /\ IF Shown
     THEN \E selection \in Selections :
            Bar(tcb, [type |-> "listErr"], selection, topics, state, Finished(i))
     ELSE Unheard(i)
  /\ UNCHANGED hides /\ Unmoved

Deleted(i) ==
  /\ requests[i].at = "awaited" /\ requests[i].kind = "delete"
  /\ IF Shown
     THEN \E selection \in Selections :
            Bar(tcb, [type |-> "deleted"], selection,
                topics \ {requests[i].topic}, state, Finished(i))
     ELSE Unheard(i)
  /\ UNCHANGED hides /\ Unmoved

DeletionFailed(i) ==
  /\ requests[i].at = "awaited" /\ requests[i].kind = "delete"
  /\ IF Shown
     THEN \E selection \in Selections :
            Bar(tcb, [type |-> "deletionErr"], selection, topics, state, Finished(i))
     ELSE Unheard(i)
  /\ UNCHANGED hides /\ Unmoved

(***************************************************************************)
(* The spinner's tick, which the page hands to the bars twice; the second  *)
(* time the spinner rejects it.  A tick nobody hears ends the animation.   *)
(***************************************************************************)
SpinnerTick ==
  /\ ticking
  /\ IF Shown
     THEN LET o == TableUpdate(tcb, Tick, NoItem, Handlers(state), Items)
              p == TableUpdate(o.next, Tick, NoItem, Handlers(state), Items)
          IN  /\ tcb' = p.next
              /\ ticking' = (SpinCmd \in o.cmds)
              /\ rows' = RowsOf(topics, showInternal, p.next.search.term)
     ELSE ticking' = FALSE /\ UNCHANGED <<tcb, rows>>
  /\ UNCHANGED <<topics, state, requests, timers, hides>> /\ Unmoved

(* A timer ends: it hides the notification unless autoHide was withdrawn. *)
TimerEnds ==
  /\ timers > 0
  /\ timers' = timers - 1
  /\ hides' = hides + (IF tcb.note.autoHide THEN 1 ELSE 0)
  /\ UNCHANGED <<topics, state, rows, tcb, requests, ticking>> /\ Unmoved

HideNotification ==
  /\ hides > 0
  /\ hides' = hides - 1
  /\ IF Shown
     THEN \E selection \in Selections :
            Bar(tcb, Hide, selection, topics, state, requests)
     ELSE UNCHANGED <<topics, state, rows, tcb, requests, ticking, timers>>
  /\ Unmoved

Next ==
  \/ ToggleInternal
  \/ Refresh
  \/ \E selection \in Selections : OpenTopic(selection)
  \/ OpenOther
  \/ \E key \in Keys, term \in Terms, selection \in Selections : Press(key, term, selection)
  \/ ToTopicsPage
  \/ \E refresh \in BOOLEAN : LoadTopicsPage(refresh)
  \/ LeaveTab
  \/ RegainFocus
  \/ \E i \in DOMAIN requests : Started(i) \/ ListingFailed(i) \/ Deleted(i) \/ DeletionFailed(i)
  \/ \E i \in DOMAIN requests, found \in SUBSET Items : Listed(i, found)
  \/ TimerEnds
  \/ HideNotification
  \/ SpinnerTick

Spec == Init /\ [][Next]_vars

(***************************************************************************)
(* Correctness.                                                            *)
(***************************************************************************)
(* The bar that gets the keys and is drawn is open: however the keys, the  *)
(* notifications and the ticks follow each other, TableCmdsBar never makes *)
(* a prompt or a sort bar active whose flag was cleared.                   *)
ActiveBarIsOpen ==
  /\ tcb.active = "delete" => tcb.del.active
  /\ tcb.active = "sort" => tcb.sort.active

(* The rows are those of the topics last listed, less those deleted, under *)
(* the search term and the choice of internal topics now in force, except  *)
(* after F5 has dropped the list.                                          *)
RowsFollow ==
  state # "refreshing" =>
    rows = RowsOf(topics, showInternal, tcb.search.term)

(* A deletion is requested only for the topic the open prompt was opened   *)
(* for, once "Delete!" had been chosen since the last request: a second    *)
(* enter does not delete again.                                            *)
DeletionConfirmed ==
  [][\A t \in Items :
       requests' = Append(requests, Deletion(t)) =>
         /\ tcb.active = "delete" /\ tcb.del.active /\ tcb.del.affirmed
         /\ t = tcb.del.value
         /\ ~tcb'.del.affirmed]_vars

(* The page comes to spin with no request under way, and so for ever and   *)
(* deaf to every key but F5 and those that leave the page, only by a       *)
(* message it missed while another page or tab was shown, or on coming     *)
(* back to a listing that has failed.                                      *)
Stuck == HasPriority(tcb) /\ requests = <<>>
StuckOnlyIfLeft == [][~Stuck /\ Stuck' => ~Shown]_vars

(* A notification that is to hide itself has a timer running or its hide   *)
(* message under way, whatever notifications came in between; only a       *)
(* message missed while the page was not shown makes it stay.              *)
Stale == tcb.note.autoHide /\ timers + hides = 0
StaleOnlyIfLeft == [][~Stale /\ Stale' => ~Shown]_vars
=============================================================================
