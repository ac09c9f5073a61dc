----------------------------- MODULE ConnectForm -----------------------------
(***************************************************************************)
(* The Kafka Connect tab of a cluster's form                               *)
(* (ui/pages/create_cluster_page/upsert_kcon.go): the Connect clusters     *)
(* known, a form to enter one, and the prompt that deletes one.  The state *)
(* is a record; KcUpdate says what a message makes of it and which         *)
(* commands it returns.                                                    *)
(*                                                                         *)
(* Left out: URL and credentials, which are kept beside the name and       *)
(* checked with it.                                                        *)
(***************************************************************************)
EXTENDS CommandBars, SequencesExt

CONSTANTS Connects,  \* names a Connect cluster may be given
          NoConnect  \* the empty name input

ASSUME ConnectAssumption == {NoConnect, NoItem} \cap Connects = {}

(***************************************************************************)
(* `done` is huh.StateCompleted of the form, `drawn` the rows the table    *)
(* was last drawn with, `prev` the name of the cluster ctrl+e opened.      *)
(***************************************************************************)
NewPrompt == [active |-> FALSE, affirmed |-> FALSE, value |-> NoItem]

NewKcForm(known) ==
  [state    |-> IF known = <<>> THEN "entering" ELSE "listing",
   done     |-> FALSE,
   name     |-> NoConnect,
   prev     |-> NoConnect,
   clusters |-> known,
   drawn    |-> {},
   prompt   |-> NewPrompt]

(* View gives the table its rows, in the listing only. *)
Drawn(kc) ==
  IF kc.state = "listing" THEN [kc EXCEPT !.drawn = ToSet(kc.clusters)] ELSE kc

(* The row under the cursor, if there is one. *)
KcSelections(kc) == IF kc.drawn = {} THEN {NoItem} ELSE kc.drawn

(***************************************************************************)
(* What the page that holds the form, the program or the broker must do    *)
(* next.  "crash" is a panic.                                              *)
(***************************************************************************)
Does(next, cmds) == [next |-> next, cmds |-> cmds]
NewForm(kc) == [kc EXCEPT !.done = FALSE]

-----------------------------------------------------------------------------
(* The Connect clusters a registration brings: those known, of which the   *)
(* one that is edited takes the values of the form; if none is, the form's *)
(* values are one more, also when they were registered before.             *)

Replaces(kc, k) == kc.prev = k /\ kc.prev # NoConnect
KeptOrReplaced(kc) ==
  [i \in DOMAIN kc.clusters |-> IF Replaces(kc, kc.clusters[i]) THEN kc.name
                                ELSE kc.clusters[i]]

ClusterDetails(kc) ==
  KeptOrReplaced(kc)
    \o (IF kc.name # NoConnect /\ ~ \E k \in ToSet(kc.clusters) : Replaces(kc, k)
        THEN <<kc.name>> ELSE <<>>)

(***************************************************************************)
(* The deletion loop: it ranges over the list as it was while it shortens  *)
(* it in place, so it reads cells that have moved up, and slicing beyond   *)
(* the shortened list panics.                                              *)
(***************************************************************************)
Shortened(cells, i, n) ==
  [j \in DOMAIN cells |-> IF i <= j /\ j < n THEN cells[j + 1] ELSE cells[j]]

LoopStep(known, k, i) ==
  IF known.panic \/ known.cells[i] # k THEN known
  ELSE IF i > known.len THEN [known EXCEPT !.panic = TRUE]
  ELSE [known EXCEPT !.cells = Shortened(@, i, known.len), !.len = @ - 1]

AfterLoop(known, k) ==
  FoldLeftDomain(LAMBDA l, i : LoopStep(l, k, i),
                 [cells |-> known, len |-> Len(known), panic |-> FALSE], known)

(* ConnectClusterDeleted *)
KcDeleted(kc, k) ==
  LET loop == AfterLoop(kc.clusters, k)
  IN  IF loop.panic THEN Does(kc, <<"crash">>)
      ELSE Does([kc EXCEPT !.clusters = SubSeq(loop.cells, 1, loop.len),
                           !.state = IF loop.len = 0 THEN "entering" ELSE @,
                           !.prompt.active = FALSE],
                <<>>)

-----------------------------------------------------------------------------
(* Below the switch of Update: the message goes to the prompt, else to the *)
(* form, else to the table.  A form that is done is submitted whatever the *)
(* message was.                                                            *)

Prompted(kc, o) ==
  Does([kc EXCEPT !.prompt = o.next],
       IF DeleteCmd(kc.prompt.value) \in o.cmds THEN <<"kcdelete">> ELSE <<>>)
AfterPrompt(kc, msg) ==
  Prompted(kc, DeleteUpdate(kc.prompt, msg, "f2", {kc.prompt.value}))

\* Enter ends the form: its fields have no validation.
Typed(kc, msg) ==
  IF kc.done THEN kc
  ELSE IF IsKey(msg, "enter") THEN [kc EXCEPT !.done = TRUE]
  ELSE IF msg.type = "kcname" THEN [kc EXCEPT !.name = msg.name]
  ELSE kc

AfterKcForm(kc, msg) ==
  LET typed == Typed(kc, msg)
  IN  IF typed.done
      THEN Does([typed EXCEPT !.state = "registering"], <<"kccheck">>)
      ELSE Does(typed, <<>>)

BelowSwitch(kc, msg) ==
  IF kc.prompt.active THEN AfterPrompt(kc, msg)
  ELSE IF kc.state = "entering" THEN AfterKcForm(kc, msg)
  ELSE Does(kc, <<>>)

-----------------------------------------------------------------------------
(* Keys; `row` is the row under the cursor.                                *)

KcEsc(kc) ==
  IF kc.state # "entering" THEN Does(kc, <<"list">>)
  ELSE Does(IF kc.clusters # <<>> THEN [kc EXCEPT !.state = "listing"] ELSE kc, <<>>)

KcF2(kc, msg, row) ==
  IF row = NoItem THEN Does(kc, <<"crash">>)
  ELSE AfterPrompt([kc EXCEPT !.prompt.value = row], msg)

KcNew(kc) == NewForm([kc EXCEPT !.state = "entering", !.name = NoConnect])

KcEdit(kc, row) ==
  IF row \notin ToSet(kc.clusters) THEN Does(kc, <<"crash">>)
  ELSE Does(NewForm([kc EXCEPT !.state = "entering", !.name = row, !.prev = row]), <<>>)

\* A bug: the list is shown as it was before.
KcKept(kc, c) == [kc EXCEPT !.state = "listing"]

(* ClusterRegisteredMsg *)
KcRegistered(kc, c) == [kc EXCEPT !.state = "listing", !.clusters = c.connect]

(* UpsertKcModel.Update *)
KcUpdate(kc, msg, row) ==
  IF IsKey(msg, "esc") THEN KcEsc(kc)
  ELSE IF IsKey(msg, "f2") THEN KcF2(kc, msg, row)
  ELSE IF IsKey(msg, "ctrl+e") /\ kc.state # "entering" THEN KcEdit(kc, row)
  ELSE IF msg.type = "kcStarted" THEN Does(kc, <<"await">>)
  ELSE IF msg.type = "kcOk" THEN Does(kc, <<"register">>)
  ELSE IF msg.type = "registered"
    THEN Does(KcRegistered(kc, msg.cluster), <<>>)
  ELSE IF msg.type = "connectDeleted" THEN KcDeleted(kc, msg.name)
  ELSE BelowSwitch(IF IsKey(msg, "ctrl+n") THEN KcNew(kc) ELSE kc, msg)

(* The handler of a failed check, which the notifier runs. *)
KcFailed(kc) == NewForm([kc EXCEPT !.state = "entering"])
=============================================================================
