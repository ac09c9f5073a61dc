---------------------------- MODULE SchemaPages ----------------------------
(***************************************************************************)
(* The other two pages of the schema registry's tab: the versions of one   *)
(* subject (ui/pages/schema_details_page, with its own CmdBar and the      *)
(* chips of ui/components/chips), and the form that registers a schema     *)
(* (ui/pages/create_schema_page).                                          *)
(*                                                                         *)
(* Left out: a schema's text and id; the viewport; the fields of the form, *)
(* of which a submission has what they demand; the notifier of the form,   *)
(* which has no say over the keys.                                         *)
(***************************************************************************)
EXTENDS SubjectsPage

(***************************************************************************)
(* A schema says whose it is.  `NoSchema` is also what slices.Delete       *)
(* leaves at the end of the slice it shortens; nil slices are empty ones.  *)
(***************************************************************************)
Schema(name, v) == [subject |-> name, version |-> v]
NoSchema == Schema(NoItem, 0)

ChipsOf(schemas) == [i \in DOMAIN schemas |-> schemas[i].version]

(***************************************************************************)
(* The page of a subject when its first message, the one that opened it,   *)
(* has been handled.  `stray` is history: an answer has come that another  *)
(* page asked for.                                                         *)
(***************************************************************************)
DetailsPage(s) ==
  [subject |-> s, schemas |-> <<>>, updated |-> <<>>, shown |-> NoSchema,
   drawn |-> FALSE, chips |-> <<>>, selected |-> 1, anyDeleted |-> FALSE,
   bar |-> [active |-> "none", del |-> [NewBars.del EXCEPT !.value = 0],
            note |-> NewBars.note],
   stray |-> FALSE]

(* SelectedLabel; 0 is the empty label. *)
Label(d) == IF d.chips = <<>> THEN 0 ELSE d.chips[d.selected]

-----------------------------------------------------------------------------
(* CmdBar.  Nothing is bound to the message of a failed deletion.          *)

DetailsHandlers ==
  [versionsStarted |-> Spin,
   versionsListed  |-> Idle,
   removalStarted  |-> Spin,
   removed         |-> Handler("success", TRUE, TRUE),
   copied          |-> Handler("success", TRUE, TRUE),
   copyErr         |-> Handler("error", TRUE, TRUE)]

NotifierOf(bar, msg) == NotifierUpdate(bar, msg, DetailsHandlers)

(* The keys that move among the versions toggle the prompt's choice. *)
ForPrompt(msg) ==
  IF msg.type = "key" /\ msg.key \in {"left", "right"} THEN Input("toggle") ELSE msg

WithPrompt(bar, o) == [o EXCEPT !.next = [bar EXCEPT !.del = o.next]]
PromptOf(bar, msg) ==
  WithPrompt(bar, DeleteUpdate(bar.del, ForPrompt(msg), "f2", Versions))

\* A bug: the prompt keeps the version it was first opened for.
BarF2Once(o, label) ==
  [o EXCEPT !.next = IF o.active
                     THEN [@ EXCEPT !.active = "delete",
                                    !.del.value = IF @ = 0 THEN label ELSE @]
                     ELSE [@ EXCEPT !.active = "none"]]

BarF2(o, label) ==
  [o EXCEPT !.next = IF o.active
                     THEN [@ EXCEPT !.active = "delete", !.del.value = label]
                     ELSE [@ EXCEPT !.active = "none"]]

GivingWay(o) == [o EXCEPT !.next.active = IF o.active THEN @ ELSE "none"]

WithNotifier(bar, n, msg, label) ==
  IF bar.active = "notifier" /\ HasPriority(bar) THEN GivingWay(n)
  ELSE IF n.active /\ n.handled
    THEN [n EXCEPT !.next.active = "notifier", !.handled = FALSE]
  ELSE IF IsKey(msg, "f2") THEN BarF2(PromptOf(n.next, msg), label)
  ELSE IF bar.active = "notifier" THEN GivingWay(NotifierOf(n.next, msg))
  ELSE IF bar.active = "delete" THEN GivingWay(PromptOf(n.next, msg))
  ELSE Outcome(n.next, FALSE, FALSE, {})

BarUpdate(bar, msg, label) == WithNotifier(bar, NotifierOf(bar, msg), msg, label)

(* F2 with no version to select ends the program. *)
F2Fails(d, msg) ==
  /\ IsKey(msg, "f2") /\ Label(d) = 0
  /\ ~ (d.bar.active = "notifier" /\ HasPriority(d.bar))
  /\ ~d.bar.del.active

-----------------------------------------------------------------------------
(* What View does to the page: the chips follow the versions.              *)

WithChips(d) ==
  LET labels == ChipsOf(d.schemas)
      at     == SelectInSeq(labels, LAMBDA v : v = d.shown.version)
  IN  [d EXCEPT !.chips = labels, !.selected = IF at = 0 THEN 1 ELSE at]

\* A bug: the shortened list of versions is not taken over.
DrawnOnce(d) ==
  IF d.schemas = <<>> THEN [d EXCEPT !.chips = <<>>, !.selected = 1]
  ELSE IF d.drawn THEN d ELSE WithChips([d EXCEPT !.drawn = TRUE])

(* View takes over what Update left.  The page is not drawn while its tab  *)
(* is not shown; here it is with each message, so that it only is earlier. *)
Drawn(d) ==
  LET first == IF d.drawn THEN d ELSE WithChips([d EXCEPT !.drawn = TRUE])
  IN  IF d.schemas = <<>> THEN [d EXCEPT !.chips = <<>>, !.selected = 1]
      ELSE IF d.updated # <<>> /\ Len(d.schemas) # Len(d.updated)
        THEN WithChips([first EXCEPT !.schemas = d.updated])
      ELSE first

(* Update *)
Chosen(d, msg) ==
  IF d.bar.active # "none" THEN d
  ELSE IF IsKey(msg, "left") THEN [d EXCEPT !.selected = IF @ > 1 THEN @ - 1 ELSE @]
  ELSE IF IsKey(msg, "right")
    THEN [d EXCEPT !.selected = IF @ < Len(d.chips) THEN @ + 1 ELSE @]
  ELSE d

(* enter shows the version selected, which must be there. *)
Matching(d) == {i \in DOMAIN d.schemas : d.schemas[i].version = Label(d)}

ByVersion(schemas) == SortSeq(schemas, LAMBDA a, b : a.version < b.version)

(* slices.Delete shortens the list in place. *)
Shortened(d, left) == [d EXCEPT !.updated = left, !.schemas = Append(left, NoSchema)]
Without(d, v) ==
  LET at == SelectInSeq(d.schemas, LAMBDA s : s.version = v)
  IN  [(IF at = 0 THEN d ELSE Shortened(d, RemoveAt(d.schemas, at)))
         EXCEPT !.anyDeleted = TRUE]

DetailsReceived(d, msg) ==
  IF IsKey(msg, "enter") /\ d.bar.active = "none"
    THEN [d EXCEPT !.shown = d.schemas[CHOOSE i \in Matching(d) : TRUE]]
  ELSE IF msg.type = "versionsListed"
    THEN [d EXCEPT !.schemas = ByVersion(msg.schemas),
                   !.shown = IF msg.schemas = <<>> THEN NoSchema
                             ELSE Last(ByVersion(msg.schemas))]
  ELSE IF msg.type = "removed" THEN Without(d, msg.version)
  ELSE d

Fails(d, msg) ==
  \/ IsKey(msg, "enter") /\ d.bar.active = "none" /\ Matching(d) = {}
  \/ IsKey(msg, "reject") /\ d.shown = NoSchema
  \/ F2Fails(d, msg)

(* The commands of the page; the key that copies also rejects a deletion. *)
Asks(d, msg) ==
  (IF IsKey(msg, "reject") THEN <<Cmd("copy", 0)>> ELSE <<>>)
    \o (IF msg.type \in {"versionsStarted", "removalStarted"} THEN <<Cmd("await", 0)>> ELSE <<>>)
    \o (IF msg.type = "removed" /\ d.updated = <<>> THEN <<Cmd("return", 0)>> ELSE <<>>)

RemovalsOf(cmds) ==
  SetToSeq({Cmd("remove", v) : v \in {u \in 0 .. Max(Versions) : DeleteCmd(u) \in cmds}})

(* esc goes back unless the bar that is active takes it: then it closes.   *)
WithBar(d, msg, o) ==
  IF IsKey(msg, "esc") /\ ~(d.bar.active # "none" /\ o.handled)
  THEN Does([d EXCEPT !.bar = o.next], <<Cmd("back", d.anyDeleted)>>)
  ELSE Does(Drawn([d EXCEPT !.bar = o.next]), Asks(d, msg) \o RemovalsOf(o.cmds))

ToDetailsBar(d, msg) == WithBar(d, msg, BarUpdate(d.bar, msg, Label(d)))

AfterChoice(d, msg) ==
  IF Fails(d, msg) THEN Does(d, <<Cmd("crash", 0)>>)
  ELSE ToDetailsBar(DetailsReceived(d, msg), msg)

DetailsUpdate(d, msg) == AfterChoice(Chosen(d, msg), msg)

-----------------------------------------------------------------------------
(* The form.  `done` says that it is completed and not yet made anew.      *)

CreatePage == [state |-> "entering", done |-> FALSE, created |-> FALSE]

CreateReceived(c, msg) ==
  IF msg.type = "created"
    THEN [c EXCEPT !.created = TRUE, !.state = "entering", !.done = FALSE]
  ELSE IF msg.type = "creationErr" THEN [c EXCEPT !.state = "entering", !.done = FALSE]
  ELSE IF msg.type = "creationStarted" THEN [c EXCEPT !.state = "creating"]
  ELSE c

CreateUpdate(c, msg) ==
  IF IsKey(msg, "submit") /\ ~c.done /\ c.state = "entering"
    THEN Does([c EXCEPT !.done = TRUE, !.state = "creating"], <<Cmd("register", msg.term)>>)
  ELSE IF IsKey(msg, "submit") THEN Does([c EXCEPT !.done = TRUE], <<>>)
  ELSE IF IsKey(msg, "esc")
    THEN Does(c, IF c.state = "creating" THEN <<>> ELSE <<Cmd("back", c.created)>>)
  ELSE Does(CreateReceived(c, msg),
            IF msg.type = "creationStarted" THEN <<Cmd("await", 0)>> ELSE <<>>)

DetailsBars == [active : {"none", "notifier", "delete"},
                del : [active : BOOLEAN, affirmed : BOOLEAN, value : Versions \cup {0}],
                note : [active : BOOLEAN, autoHide : BOOLEAN,
                        state : {"idle", "error", "success", "spinning"}]]
CreatePages == [state : {"entering", "creating"}, done : BOOLEAN, created : BOOLEAN]
=============================================================================
