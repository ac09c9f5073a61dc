---------------------------- MODULE SubjectsPage ----------------------------
(***************************************************************************)
(* The subjects page (ui/pages/subjects_page): the subjects last listed,   *)
(* on a tab for the active and one for the softly deleted, under the bars  *)
(* of CommandBars and, above those, a second prompt that deletes for good  *)
(* (TableCmdsBar of this package).  The page is a record; ListUpdate says  *)
(* what a message makes of it and which commands follow.                   *)
(*                                                                         *)
(* Left out: the order of the rows and the place of the cursor, instead of *)
(* which a message comes with the subject selected; the texts, counts and  *)
(* the global compatibility in the title.                                  *)
(***************************************************************************)
EXTENDS CommandBars, FiniteSets, SequencesExt

CONSTANTS Versions,     \* the versions a subject may have
          NoSubject,    \* no subject is selected
          Matches(_, _) \* does a subject's name contain the term

ASSUME SubjectsAssumption == /\ Versions \subseteq Nat \ {0}
                             /\ HasSort
                             /\ \A s \in Items : Matches(s, EmptyTerm)

Subjects == [name : Items, versions : SUBSET Versions, deleted : BOOLEAN]
ASSUME NoSubjectAssumption == NoSubject \notin Subjects

NameOf(sel) == IF sel = NoSubject THEN NoItem ELSE sel.name

Message(type) == [type |-> type]
Input(k) == Key(k, EmptyTerm)

(* What an Update returns: the next state of the page and the commands.    *)
Does(next, cmds) == [next |-> next, cmds |-> cmds]
Cmd(c, of) == [cmd |-> c, of |-> of]

ListStates == {"initialized", "loading", "subjectsLoaded", "noSubjectsFound", "deleting"}
Tabs == {"active", "deleted"}

(* New.  The listing it asks for is the caller's to run. *)
NewListPage ==
  [state |-> "initialized", subjects |-> {}, visible |-> {}, tab |-> "active",
   bars |-> NewBars, hard |-> NewBars.del]

-----------------------------------------------------------------------------
(* TableCmdsBar: the bars and, when it has the focus, the hard prompt.     *)

TcbFocussed(p) == IsFocussed(p.bars) \/ p.hard.active

ListHandlers(s) ==
  [listingStarted  |-> Spin,
   listed          |-> Idle,
   listErr         |-> Handler("error", TRUE, FALSE),
   deletionStarted |-> Spin,
   deleted         |-> Handler("success", TRUE, TRUE),
   deletionErr     |-> Handler("error", TRUE, TRUE),
   regainedFocus   |-> IF s \in {"loading", "deleting"} THEN Spin ELSE Ignore]

HideBars(b) ==
  [b EXCEPT !.search.state = "hidden", !.del.active = FALSE,
            !.sort.active = FALSE, !.active = "none"]

ResetTcb(p) ==
  [p EXCEPT !.bars = HideBars(ResetSearch(@)), !.hard.active = FALSE]

DeletionsOf(kind, cmds) ==
  SetToSeq({Cmd(kind, i) : i \in {j \in Items : DeleteCmd(j) \in cmds}})

WithBars(p, o) == Does([p EXCEPT !.bars = o.next], DeletionsOf("delete", o.cmds))
ToMain(p, msg, sel) ==
  WithBars(p, TableUpdate(p.bars, msg, NameOf(sel), ListHandlers(p.state), Items))

\* A bug: the prompt stays when another bar takes the focus.
HideHardNever(o) == o

HideHard(o) == [o EXCEPT !.next.hard.active = @ /\ ~IsFocussed(o.next.bars)]

(* The nil message, which a notifier that is active takes.                 *)
ToMainNothing(p, sel) ==
  IF p.bars.note.active THEN Does([p EXCEPT !.bars.active = "notifier"], <<>>)
  ELSE ToMain(p, Message("none"), sel)

(* What the hard prompt does not take goes on to the bars, as does nil     *)
(* when it closes; if one of them gets the focus it is hidden.             *)
WithHard(p, h, msg, sel) ==
  IF h.active /\ h.handled
  THEN Does([p EXCEPT !.hard = h.next], DeletionsOf("hardDelete", h.cmds))
  ELSE HideHard(IF h.handled THEN ToMainNothing([p EXCEPT !.hard = h.next], sel)
                ELSE ToMain([p EXCEPT !.hard = h.next], msg, sel))

ToHard(p, msg, sel) == WithHard(p, DeleteUpdate(p.hard, msg, "f4", Items), msg, sel)

OpenHard(p, sel) ==
  Does([p EXCEPT !.hard.active = TRUE, !.hard.value = NameOf(sel),
                 !.bars = HideBars(@)], <<>>)

TcbUpdate(p, msg, sel) ==
  IF p.hard.active THEN ToHard(p, msg, sel)
  ELSE IF IsKey(msg, "f4") /\ sel # NoSubject THEN OpenHard(p, sel)
  ELSE ToMain(p, msg, sel)

-----------------------------------------------------------------------------
(* Update: the keys of the page, the messages, the bars, the rows.         *)

Visible(p) ==
  {s \in p.subjects : s.deleted = (p.tab = "deleted") /\ Matches(s.name, p.bars.search.term)}

(* SelectedSubject.  While "No Subjects Found" is shown the table is not   *)
(* brought up to date, and its cursor may be on a row that is gone.        *)
Selections(p) ==
  IF p.visible = {} THEN {NoSubject}
  ELSE p.visible \cup (IF p.state = "noSubjectsFound" THEN {NoSubject} ELSE {})

Refresh(p) ==
  Does([p EXCEPT !.state = "loading", !.subjects = {}], <<Cmd("list", NoItem)>>)

NextTab(p) ==
  ResetTcb([p EXCEPT !.tab = IF @ = "active" THEN "deleted" ELSE "active"])

(* An empty listing leaves the subjects of before in the model. *)
Listed(p, found) ==
  IF found = {} THEN [p EXCEPT !.state = "noSubjectsFound"]
  ELSE [p EXCEPT !.state = "subjectsLoaded", !.subjects = found, !.bars = ResetSearch(@)]

\* A bug: only the row of the deleted subject is removed.
RemovedRow(p, name) ==
  [p EXCEPT !.state = IF p.subjects = {} THEN "noSubjectsFound" ELSE "subjectsLoaded"]

(* A softly deleted subject, too, is removed, until the next listing.      *)
Removed(p, name) ==
  LET left == {s \in p.subjects : s.name # name}
  IN  [p EXCEPT !.subjects = left,
                !.state = IF left = {} THEN "noSubjectsFound" ELSE "subjectsLoaded"]

Received(p, msg) ==
  IF IsKey(msg, "tab") THEN NextTab(p)
  ELSE IF msg.type = "listingStarted" THEN [p EXCEPT !.state = "loading"]
  ELSE IF msg.type = "listed" THEN Listed(p, msg.found)
  ELSE IF msg.type = "deletionStarted" THEN [p EXCEPT !.state = "deleting"]
  ELSE IF msg.type = "deleted" THEN Removed(p, msg.name)
  ELSE p

Awaits(msg) ==
  IF msg.type \in {"listingStarted", "deletionStarted"} THEN <<Cmd("await", NoItem)>> ELSE <<>>

WithRows(o, msg) ==
  Does([o.next EXCEPT !.visible = Visible(o.next)], Awaits(msg) \o o.cmds)
ToBarsAndRows(p, msg, sel) == WithRows(TcbUpdate(Received(p, msg), msg, sel), msg)

CanOpen(p) == ~TcbFocussed(p) /\ p.state = "subjectsLoaded" /\ p.subjects # {}

(* enter with subjects, but none on the tab shown, ends the program. *)
ListUpdate(p, msg, sel) ==
  IF IsKey(msg, "f5") THEN Refresh(p)
  ELSE IF IsKey(msg, "ctrl+n") /\ p.state \notin {"loading", "deleting"}
    THEN Does(p, <<Cmd("create", NoItem)>>)
  ELSE IF IsKey(msg, "enter") /\ CanOpen(p)
    THEN Does(p, <<IF sel = NoSubject THEN Cmd("crash", NoItem) ELSE Cmd("open", sel)>>)
  ELSE ToBarsAndRows(p, msg, sel)

ListPages ==
  [state : ListStates, subjects : SUBSET Subjects, visible : SUBSET Subjects,
   tab : Tabs, bars : Bars,
   hard : [active : BOOLEAN, affirmed : BOOLEAN, value : Items \cup {NoItem}]]
=============================================================================
