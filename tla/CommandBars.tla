---------------------------- MODULE CommandBars ----------------------------
(***************************************************************************)
(* The bars above a table (ui/components/cmdbar, ui/components/notifier):  *)
(* a search bar, a deletion prompt, a sort bar and a notifier, of which    *)
(* TableCmdsBar makes one the active bar.  The state of all of them is one *)
(* record, and the Update methods are operators on it, so that each page   *)
(* with a table keeps such a record and applies them in its handlers.      *)
(*                                                                         *)
(* Left out: the columns and directions of the sort bar (a page's rows are *)
(* a set here), the texts shown, and how an edit changes the search term:  *)
(* a key message says what the input holds after it.                       *)
(***************************************************************************)
EXTENDS Naturals

CONSTANTS Items,     \* what a row stands for and the prompt deletes
          NoItem,    \* no row is selected, nothing is to be deleted
          Terms,     \* what the search input may hold
          EmptyTerm, \* the empty search input
          HasSort    \* whether the page has a sort bar

ASSUME BarsAssumption == /\ NoItem \notin Items
                         /\ EmptyTerm \in Terms
                         /\ HasSort \in BOOLEAN

Keys == {"/", "f2", "f3", "f4", "f5", "esc", "enter",
         "accept", "reject", "toggle", "text"}
TypedKeys == {"accept", "reject", "toggle", "text"}

Key(k, term) == [type |-> "key", key |-> k, term |-> term]
Tick == [type |-> "tick"]
Hide == [type |-> "hide"]
IsKey(msg, k) == msg.type = "key" /\ msg.key = k

(***************************************************************************)
(* `active` is activeCBar.  A confirmed deletion leaves the prompt's flag  *)
(* set, so the flags del.active and sort.active say less than `active`.    *)
(***************************************************************************)
Bars == [active : {"none", "notifier", "delete", "search", "sort"},
         searchPrevActive : BOOLEAN,
         del : [active : BOOLEAN, affirmed : BOOLEAN, value : Items \cup {NoItem}],
         search : [state : {"hidden", "searching", "searched"}, term : Terms],
         sort : [active : BOOLEAN],
         note : [active : BOOLEAN, autoHide : BOOLEAN,
                 state : {"idle", "error", "success", "spinning"}]]

NewBars == [active |-> "notifier",
            searchPrevActive |-> FALSE,
            del |-> [active |-> FALSE, affirmed |-> FALSE, value |-> NoItem],
            search |-> [state |-> "hidden", term |-> EmptyTerm],
            sort |-> [active |-> FALSE],
            note |-> [active |-> FALSE, autoHide |-> FALSE, state |-> "idle"]]

HasPriority(b) == b.note.state = "spinning"

IsFocussed(b) ==
  \/ b.active = "notifier" /\ b.note.active /\ HasPriority(b)
  \/ b.active = "delete" /\ b.del.active
  \/ b.active = "search" /\ b.search.state = "searching"
  \/ b.active = "sort"

(***************************************************************************)
(* What an Update returns: the next state, whether the bar stays active,   *)
(* whether it consumed the message, and the commands to run.               *)
(***************************************************************************)
Outcome(next, active, handled, cmds) ==
  [next |-> next, active |-> active, handled |-> handled, cmds |-> cmds]

SpinCmd == [cmd |-> "spin"]
AutoHideCmd == [cmd |-> "autoHide"]
DeleteCmd(item) == [cmd |-> "delete", item |-> item]
RefuseCmd == [cmd |-> "refuse"]

(***************************************************************************)
(* A notification handler is what it does to the notifier: the state it    *)
(* shows ("keep": none of its own), whether the bar is active after it,    *)
(* and whether it starts the timer that hides the notification.            *)
(***************************************************************************)
Handler(state, active, autoHide) ==
  [state |-> state, active |-> active, autoHide |-> autoHide]
Spin == Handler("spinning", TRUE, FALSE)
Idle == Handler("idle", FALSE, FALSE)
Ignore == Handler("keep", FALSE, FALSE)

Notify(b, h) ==
  Outcome([b EXCEPT !.note = IF h.state = "keep"
                             THEN [@ EXCEPT !.active = h.active]
                             ELSE [state |-> h.state, active |-> h.active,
                                   autoHide |-> h.autoHide]],
          h.active, TRUE,
          (IF h.state = "spinning" THEN {SpinCmd} ELSE {})
            \cup (IF h.autoHide THEN {AutoHideCmd} ELSE {}))

\* A bug: hiding a notification leaves its auto-hide flag set.
NotifierKeepsFlag(b, msg, handlers) ==
  IF msg.type = "tick"
    THEN Outcome(b, b.note.active, TRUE, IF HasPriority(b) THEN {SpinCmd} ELSE {})
  ELSE IF msg.type = "hide" THEN Outcome([b EXCEPT !.note.state = "idle"], FALSE, TRUE, {})
  ELSE IF msg.type \in DOMAIN handlers THEN Notify(b, handlers[msg.type])
  ELSE Outcome(b, b.note.active, FALSE, {})

NotifierUpdate(b, msg, handlers) ==
  IF msg.type = "tick"
    THEN Outcome(b, b.note.active, TRUE, IF HasPriority(b) THEN {SpinCmd} ELSE {})
  ELSE IF msg.type = "hide"
    THEN Outcome([b EXCEPT !.note.state = "idle", !.note.autoHide = FALSE], FALSE, TRUE, {})
  ELSE IF msg.type \in DOMAIN handlers THEN Notify(b, handlers[msg.type])
  ELSE Outcome(b, b.note.active, FALSE, {})

\* A bug: a confirmed deletion leaves "Delete!" chosen.
ConfirmKept(d, msg, key, valid) ==
  IF IsKey(msg, key) THEN Outcome([d EXCEPT !.active = ~@], ~d.active, TRUE, {})
  ELSE IF IsKey(msg, "esc") THEN Outcome([d EXCEPT !.active = FALSE], FALSE, TRUE, {})
  ELSE IF IsKey(msg, "enter") /\ d.affirmed
    THEN Outcome(d, d.active, TRUE, {DeleteCmd(d.value)})
  ELSE IF IsKey(msg, "accept")
    THEN Outcome([d EXCEPT !.affirmed = TRUE], d.active, TRUE, {})
  ELSE Outcome(d, d.active, FALSE, {})

(***************************************************************************)
(* The prompt.  `key` is its delete key, `valid` the items its validation  *)
(* accepts.  Confirming issues the deletion and resets the choice, but     *)
(* leaves the prompt active.                                               *)
(***************************************************************************)
Closed(d) == Outcome([d EXCEPT !.active = FALSE], FALSE, TRUE, {})

Enter(d, valid) ==
  IF d.value \notin valid THEN Outcome(d, d.active, TRUE, {RefuseCmd})
  ELSE IF d.affirmed
    THEN Outcome([d EXCEPT !.affirmed = FALSE], d.active, TRUE, {DeleteCmd(d.value)})
  ELSE Closed(d)

DeleteUpdate(d, msg, key, valid) ==
  IF IsKey(msg, key) THEN Outcome([d EXCEPT !.active = ~@], ~d.active, TRUE, {})
  ELSE IF IsKey(msg, "esc") THEN Closed(d)
  ELSE IF IsKey(msg, "enter") THEN Enter(d, valid)
  ELSE IF IsKey(msg, "accept")
    THEN Outcome([d EXCEPT !.affirmed = TRUE], d.active, TRUE, {})
  ELSE IF IsKey(msg, "reject")
    THEN Outcome([d EXCEPT !.affirmed = FALSE], d.active, TRUE, {})
  ELSE IF IsKey(msg, "toggle")
    THEN Outcome([d EXCEPT !.affirmed = ~@], d.active, FALSE, {})
  ELSE Outcome(d, d.active, FALSE, {})

(* The search bar: toggled by /, confirmed by enter, cancelled by esc. *)
NoSearch == [state |-> "hidden", term |-> EmptyTerm]

AfterSearchKey(s, msg) ==
  IF IsKey(msg, "/")
    THEN IF s.state = "searching" THEN NoSearch ELSE [s EXCEPT !.state = "searching"]
  ELSE IF IsKey(msg, "enter") /\ s.state # "searched"
    THEN [s EXCEPT !.state = IF s.term = EmptyTerm THEN "hidden" ELSE "searched"]
  ELSE IF IsKey(msg, "esc") /\ s.state = "searching" THEN NoSearch
  ELSE IF msg.type = "key" /\ msg.key \in TypedKeys /\ s.state = "searching"
    THEN [s EXCEPT !.term = msg.term]
  ELSE s

SearchUpdate(s, msg) ==
  LET next == AfterSearchKey(s, msg)
  IN  Outcome(next, next.state # "hidden", IsKey(msg, "enter") /\ s.state # "searched", {})

SortUpdate(s, msg) ==
  LET on == IF IsKey(msg, "f3") THEN ~s.active ELSE s.active /\ ~IsKey(msg, "esc")
  IN  Outcome([s EXCEPT !.active = on], on, TRUE, {})

(* The active bar's Update; no bar is asked when none is active. *)
DeleteStep(b, msg, valid) ==
  LET o == DeleteUpdate(b.del, msg, "f2", valid)
  IN  [o EXCEPT !.next = [b EXCEPT !.del = o.next]]

SearchStep(b, msg) ==
  LET o == SearchUpdate(b.search, msg)
  IN  [o EXCEPT !.next = [b EXCEPT !.search = o.next]]

SortStep(b, msg) ==
  LET o == SortUpdate(b.sort, msg)
  IN  [o EXCEPT !.next = [b EXCEPT !.sort = o.next]]

ActiveUpdate(b, msg, handlers, valid) ==
  IF b.active = "notifier" THEN NotifierUpdate(b, msg, handlers)
  ELSE IF b.active = "delete" THEN DeleteStep(b, msg, valid)
  ELSE IF b.active = "search" THEN SearchStep(b, msg)
  ELSE SortStep(b, msg)

(***************************************************************************)
(* The three keys that open a bar, or close it when it is open.  Opening   *)
(* one clears the flags of the others; the search bar is hidden with its   *)
(* term kept.                                                              *)
(***************************************************************************)
HandleSlash(b, msg) ==
  LET o == SearchUpdate(b.search, msg)
  IN  [o EXCEPT !.next =
         IF o.active THEN [b EXCEPT !.search = o.next, !.active = "search",
                                    !.del.active = FALSE, !.sort.active = FALSE]
                     ELSE [b EXCEPT !.search = o.next, !.active = "none"]]

HandleF2(b, msg, selection, valid) ==
  LET o == DeleteUpdate(b.del, msg, "f2", valid)
  IN  [o EXCEPT !.next =
         IF o.active THEN [b EXCEPT !.del = [o.next EXCEPT !.value = selection],
                                    !.active = "delete",
                                    !.search.state = "hidden", !.sort.active = FALSE]
                     ELSE [b EXCEPT !.del = o.next, !.active = "none"]]

HandleF3(b, msg) ==
  LET o == SortUpdate(b.sort, msg)
  IN  [o EXCEPT !.next =
         IF o.active THEN [b EXCEPT !.sort = o.next, !.active = "sort",
                                    !.search.state = "hidden", !.del.active = FALSE]
                     ELSE [b EXCEPT !.sort = o.next, !.active = "none"]]

(***************************************************************************)
(* A bar that became inactive gives way to the search bar if that was      *)
(* active before, else to none.                                            *)
(***************************************************************************)
GiveWay(b) ==
  IF b.searchPrevActive
  THEN [b EXCEPT !.active = "search", !.searchPrevActive = FALSE]
  ELSE [b EXCEPT !.active = "none"]

\* A bug: a bar that became inactive stays the active bar.
ToActiveStays(b, msg, handlers, valid) ==
  IF b.active = "none"
  THEN Outcome(b, FALSE, FALSE, {})
  ELSE ActiveUpdate(b, msg, handlers, valid)

ToActive(b, msg, handlers, valid) ==
  IF b.active = "none"
  THEN Outcome(b, FALSE, FALSE, {})
  ELSE LET o == ActiveUpdate(b, msg, handlers, valid)
       IN  [o EXCEPT !.next = IF o.active THEN @ ELSE GiveWay(@)]

(***************************************************************************)
(* TableCmdsBar.Update.  A spinning notifier takes every message.  Else it *)
(* is asked first; what it does not take goes to the keys that open a bar  *)
(* and then to the active bar.                                             *)
(***************************************************************************)
ToBars(b, msg, selection, handlers, valid) ==
  IF IsKey(msg, "/") THEN HandleSlash(b, msg)
  ELSE IF IsKey(msg, "f2")
    THEN IF selection = NoItem THEN Outcome(b, FALSE, TRUE, {})
         ELSE HandleF2(b, msg, selection, valid)
  ELSE IF IsKey(msg, "f3")
    THEN IF HasSort THEN HandleF3(b, msg) ELSE Outcome(b, FALSE, FALSE, {})
  ELSE ToActive(b, msg, handlers, valid)

TableUpdate(b, msg, selection, handlers, valid) ==
  LET n    == NotifierUpdate(b, msg, handlers)
      rest == [n.next EXCEPT !.searchPrevActive = @ \/ b.active = "search"]
  IN  IF b.active = "notifier" /\ HasPriority(b)
        THEN [n EXCEPT !.next.active = IF n.active THEN @ ELSE "none"]
      ELSE IF n.active /\ n.handled THEN [n EXCEPT !.next.active = "notifier"]
      ELSE ToBars(rest, msg, selection, handlers, valid)

ResetSearch(b) == [b EXCEPT !.search = NoSearch]
=============================================================================
