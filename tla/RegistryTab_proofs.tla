-------------------------- MODULE RegistryTab_proofs --------------------------
(***************************************************************************)
(* Proofs about the schema registry's tab, for any subjects, versions,     *)
(* search terms, users and numbers of requests.                            *)
(***************************************************************************)
EXTENDS RegistryTab, CommandBars_proofs, FiniteSetTheorems, SequenceTheorems,
        WellFoundedInduction

-----------------------------------------------------------------------------
(* Folding: a page answers a message with at most one command, and main    *)
(* tells the tab at most two messages, so that the folds are short.        *)

(* The fold of an empty sequence of commands is where it starts. *)
LEMMA PerformNone ==
  ASSUME NEW o, o.cmds = <<>>
  PROVE  PerformAll(o) = o.next
<1> DEFINE Body(g, s) == IF s = {} THEN o.next
                         ELSE Perform(g[s \ {Max(s)}], o.cmds[Max(s)])
           iter == CHOOSE g : g = [s \in SUBSET (DOMAIN o.cmds) |-> Body(g, s)]
           h == [s \in SUBSET (DOMAIN o.cmds) |-> o.next]
<1>1. DOMAIN o.cmds = {}
  OBVIOUS
<1>2. h = [s \in SUBSET (DOMAIN o.cmds) |-> Body(h, s)]
  BY <1>1
<1>3. \E g : g = [s \in SUBSET (DOMAIN o.cmds) |-> Body(g, s)]
  BY <1>2
<1>4. iter = [s \in SUBSET (DOMAIN o.cmds) |-> Body(iter, s)]
  BY <1>3, Zenon
<1>5. PerformAll(o) = iter[DOMAIN o.cmds]
  BY DEF PerformAll, FoldLeft, MapThenFoldSet
<1> HIDE DEF iter
<1> QED
  BY <1>1, <1>4, <1>5

(* That of one command performs it. *)
LEMMA PerformOne ==
  ASSUME NEW o, NEW c, o.cmds = <<c>>
  PROVE  PerformAll(o) = Perform(o.next, c)
<1> DEFINE Body(g, s) == IF s = {} THEN o.next
                         ELSE Perform(g[s \ {Max(s)}], o.cmds[Max(s)])
           iter == CHOOSE g : g = [s \in SUBSET (DOMAIN o.cmds) |-> Body(g, s)]
           h == [s \in SUBSET {1} |-> IF s = {} THEN o.next ELSE Perform(o.next, c)]
<1>1. DOMAIN o.cmds = {1} /\ o.cmds[1] = c
  OBVIOUS
<1>2. Max({1}) = 1
  BY DEF Max
<1>3. ASSUME NEW s \in SUBSET {1} PROVE h[s] = Body(h, s)
  <2>1. s = {} \/ s = {1}
    OBVIOUS
  <2>2. h[{1} \ {1}] = o.next
    OBVIOUS
  <2> QED
    BY <1>1, <1>2, <2>1, <2>2
<1>4. h = [s \in SUBSET (DOMAIN o.cmds) |-> Body(h, s)]
  <2>1. h = [s \in SUBSET {1} |-> h[s]]
    OBVIOUS
  <2> HIDE DEF h
  <2> QED
    BY <1>1, <1>3, <2>1, Zenon
<1>5. \E g : g = [s \in SUBSET (DOMAIN o.cmds) |-> Body(g, s)]
  BY <1>4
<1>6. iter = [s \in SUBSET (DOMAIN o.cmds) |-> Body(iter, s)]
  BY <1>5, Zenon
<1>7. PerformAll(o) = iter[DOMAIN o.cmds]
  BY DEF PerformAll, FoldLeft, MapThenFoldSet
<1> HIDE DEF iter
<1>8. iter[{}] = o.next
  BY <1>6
<1>9. iter[{1}] = Perform(iter[{1} \ {1}], c)
  BY <1>1, <1>2, <1>6
<1> QED
  BY <1>1, <1>7, <1>8, <1>9

(* What the tab makes of the messages it is told, one after the other. *)
Tell(w, told, sel) == FoldLeft(LAMBDA v, m : ToTab(v, m, sel), w, told)

LEMMA TellNone ==
  ASSUME NEW w, NEW sel
  PROVE  Tell(w, <<>>, sel) = w
<1> DEFINE Body(g, s) == IF s = {} THEN w
                         ELSE ToTab(g[s \ {Max(s)}], <<>>[Max(s)], sel)
           iter == CHOOSE g : g = [s \in SUBSET (DOMAIN <<>>) |-> Body(g, s)]
           h == [s \in SUBSET (DOMAIN <<>>) |-> w]
<1>1. DOMAIN <<>> = {}
  OBVIOUS
<1>2. h = [s \in SUBSET (DOMAIN <<>>) |-> Body(h, s)]
  BY <1>1
<1>3. \E g : g = [s \in SUBSET (DOMAIN <<>>) |-> Body(g, s)]
  BY <1>2
<1>4. iter = [s \in SUBSET (DOMAIN <<>>) |-> Body(iter, s)]
  BY <1>3, Zenon
<1>5. Tell(w, <<>>, sel) = iter[DOMAIN <<>>]
  BY DEF Tell, FoldLeft, MapThenFoldSet
<1> HIDE DEF iter
<1> QED
  BY <1>1, <1>4, <1>5

LEMMA TellOne ==
  ASSUME NEW w, NEW msg, NEW sel
  PROVE  Tell(w, <<msg>>, sel) = ToTab(w, msg, sel)
<1> DEFINE told == <<msg>>
           Body(g, s) == IF s = {} THEN w ELSE ToTab(g[s \ {Max(s)}], told[Max(s)], sel)
           iter == CHOOSE g : g = [s \in SUBSET (DOMAIN told) |-> Body(g, s)]
           h == [s \in SUBSET {1} |-> IF s = {} THEN w ELSE ToTab(w, msg, sel)]
<1>1. DOMAIN told = {1} /\ told[1] = msg
  OBVIOUS
<1> HIDE DEF told
<1>2. Max({1}) = 1
  BY DEF Max
<1>3. ASSUME NEW s \in SUBSET {1} PROVE h[s] = Body(h, s)
  <2>1. s = {} \/ s = {1}
    OBVIOUS
  <2>2. h[{1} \ {1}] = w
    OBVIOUS
  <2> QED
    BY <1>1, <1>2, <2>1, <2>2
<1>4. h = [s \in SUBSET (DOMAIN told) |-> Body(h, s)]
  <2>1. h = [s \in SUBSET {1} |-> h[s]]
    OBVIOUS
  <2> HIDE DEF h
  <2> QED
    BY <1>1, <1>3, <2>1, Zenon
<1>5. \E g : g = [s \in SUBSET (DOMAIN told) |-> Body(g, s)]
  BY <1>4
<1>6. iter = [s \in SUBSET (DOMAIN told) |-> Body(iter, s)]
  BY <1>5, Zenon
<1>7. Tell(w, told, sel) = iter[DOMAIN told]
  BY DEF Tell, FoldLeft, MapThenFoldSet
<1> HIDE DEF iter
<1>8. iter[{}] = w
  BY <1>6
<1>9. iter[{1}] = ToTab(iter[{1} \ {1}], msg, sel)
  BY <1>1, <1>2, <1>6
<1> QED
  BY <1>1, <1>7, <1>8, <1>9 DEF told

LEMMA TellTwo ==
  ASSUME NEW w, NEW first, NEW second, NEW sel
  PROVE  Tell(w, <<first, second>>, sel) = ToTab(ToTab(w, first, sel), second, sel)
<1> DEFINE told == <<first, second>>
           Body(g, s) == IF s = {} THEN w ELSE ToTab(g[s \ {Max(s)}], told[Max(s)], sel)
           iter == CHOOSE g : g = [s \in SUBSET (DOMAIN told) |-> Body(g, s)]
           once == ToTab(w, first, sel)
           h == [s \in SUBSET (1..2) |->
                   IF s = {} THEN w
                   ELSE IF s = {1} THEN once
                   ELSE IF s = {2} THEN ToTab(w, second, sel)
                   ELSE ToTab(once, second, sel)]
<1>1. DOMAIN told = 1..2 /\ told[1] = first /\ told[2] = second
  OBVIOUS
<1> HIDE DEF told
<1>2. Max({1}) = 1 /\ Max({2}) = 2 /\ Max(1..2) = 2
  BY DEF Max
<1>3. ASSUME NEW s \in SUBSET (1..2) PROVE h[s] = Body(h, s)
  <2>1. s = {} \/ s = {1} \/ s = {2} \/ s = 1..2
    <3>1. 1..2 = {1, 2}
      OBVIOUS
    <3>2. s \subseteq {1, 2}
      BY <3>1
    <3> QED
      BY <3>1, <3>2
  <2>2. {1} \ {1} = {} /\ {2} \ {2} = {} /\ (1..2) \ {2} = {1}
    OBVIOUS
  <2>3. h[{}] = w /\ h[{1}] = once
    OBVIOUS
  <2>4. {1} # {2} /\ 1..2 # {1} /\ 1..2 # {2} /\ 1..2 # {}
    OBVIOUS
  <2> HIDE DEF once
  <2>5. CASE s = {}
    BY <2>5
  <2>6. CASE s = {1}
    <3>1. h[s] = once
      BY <2>3, <2>6
    <3>2. Body(h, s) = ToTab(w, first, sel)
      <4> HIDE DEF h
      <4> QED BY <1>1, <1>2, <2>2, <2>3, <2>6
    <3> QED BY <3>1, <3>2 DEF once
  <2>7. CASE s = {2}
    <3>1. h[s] = ToTab(w, second, sel)
      BY <2>4, <2>7
    <3> HIDE DEF h
    <3> QED BY <1>1, <1>2, <2>2, <2>3, <2>7, <3>1
  <2>8. CASE s = 1..2
    <3>1. h[s] = ToTab(once, second, sel)
      BY <2>4, <2>8
    <3> HIDE DEF h
    <3> QED BY <1>1, <1>2, <2>2, <2>3, <2>4, <2>8, <3>1
  <2> QED
    BY <2>1, <2>5, <2>6, <2>7, <2>8
<1>4. h = [s \in SUBSET (DOMAIN told) |-> Body(h, s)]
  <2>1. h = [s \in SUBSET (1..2) |-> h[s]]
    OBVIOUS
  <2> HIDE DEF h
  <2> QED
    BY <1>1, <1>3, <2>1, Zenon
<1>5. \E g : g = [s \in SUBSET (DOMAIN told) |-> Body(g, s)]
  BY <1>4
<1>6. iter = [s \in SUBSET (DOMAIN told) |-> Body(iter, s)]
  BY <1>5, Zenon
<1>7. Tell(w, told, sel) = iter[DOMAIN told]
  BY DEF Tell, FoldLeft, MapThenFoldSet
<1> HIDE DEF iter
<1>8. iter[{}] = w
  BY <1>6
<1>9. iter[{1}] = ToTab(iter[{1} \ {1}], first, sel)
  <2>1. {1} \in SUBSET (1..2) /\ {1} # {}
    OBVIOUS
  <2> QED
    BY <1>1, <1>2, <1>6, <2>1
<1>10. iter[1..2] = ToTab(iter[(1..2) \ {2}], second, sel)
  BY <1>1, <1>2, <1>6
<1>11. {1} \ {1} = {} /\ (1..2) \ {2} = {1}
  OBVIOUS
<1> QED
  BY <1>1, <1>7, <1>8, <1>9, <1>10, <1>11 DEF told

-----------------------------------------------------------------------------
(* The subjects page.                                                      *)

(* A set of no or one element as a sequence. *)
LEMMA SeqOfNone == SetToSeq({}) = <<>>
<1>1. Cardinality({}) = 0 /\ 1..0 = {}
  BY FS_EmptySet
<1>2. <<>> \in [1..0 -> {}] /\ IsInjective(<<>>)
  BY DEF IsInjective
<1>3. SetToSeq({}) \in [1..0 -> {}]
  BY <1>1, <1>2 DEF SetToSeq
<1> QED
  BY <1>1, <1>3

LEMMA SeqOfOne ==
  ASSUME NEW x
  PROVE  SetToSeq({x}) = <<x>>
<1>1. Cardinality({x}) = 1
  BY FS_Singleton
<1>2. <<x>> \in [1..1 -> {x}] /\ IsInjective(<<x>>)
  BY DEF IsInjective
<1>3. SetToSeq({x}) \in [1..1 -> {x}]
  BY <1>1, <1>2 DEF SetToSeq
<1> QED
  BY <1>3

LEMMA DeletionsNone ==
  ASSUME NEW kind, NEW cmds, \A i \in Items : DeleteCmd(i) \notin cmds
  PROVE  DeletionsOf(kind, cmds) = <<>>
<1>1. {Cmd(kind, i) : i \in {j \in Items : DeleteCmd(j) \in cmds}} = {}
  OBVIOUS
<1> QED
  BY <1>1, SeqOfNone DEF DeletionsOf

LEMMA DeletionsOne ==
  ASSUME NEW kind, NEW cmds, NEW i \in Items, DeleteCmd(i) \in cmds,
         \A j \in Items : DeleteCmd(j) \in cmds => j = i
  PROVE  DeletionsOf(kind, cmds) = <<Cmd(kind, i)>>
<1>1. {j \in Items : DeleteCmd(j) \in cmds} = {i}
  OBVIOUS
<1>2. {Cmd(kind, j) : j \in {i}} = {Cmd(kind, i)}
  OBVIOUS
<1> QED
  BY <1>1, <1>2, SeqOfOne DEF DeletionsOf

(* The page, with no bar active that is closed; and one that never gives   *)
(* the keys to two prompts.                                                *)
Lists == {p \in ListPages : IsOpen(p.bars)}
Quiet(p) == ~(p.hard.active /\ IsFocussed(p.bars))
Selectable == Subjects \cup {NoSubject}
IsListMessage(msg) == /\ IsMessage(msg)
                      /\ msg.type = "listed" => msg.found \in SUBSET Subjects

LEMMA ListFields ==
  ASSUME NEW p
  PROVE  p \in Lists <=>
           /\ p \in [state : ListStates, subjects : SUBSET Subjects,
                     visible : SUBSET Subjects, tab : Tabs, bars : Bars, hard : DelType]
           /\ IsOpen(p.bars)
BY DEF Lists, ListPages, DelType

(* A field changed leaves the others as they are. *)
LEMMA WithState ==
  ASSUME NEW p \in Lists, NEW state \in ListStates
  PROVE  LET q == [p EXCEPT !.state = state]
         IN  q \in Lists /\ q.bars = p.bars /\ q.hard = p.hard /\ q.tab = p.tab
             /\ q.subjects = p.subjects
BY ListFields

LEMMA WithSubjects ==
  ASSUME NEW p \in Lists, NEW subjects \in SUBSET Subjects
  PROVE  LET q == [p EXCEPT !.subjects = subjects]
         IN  q \in Lists /\ q.bars = p.bars /\ q.hard = p.hard /\ q.tab = p.tab
             /\ q.subjects = subjects
BY ListFields

LEMMA NameTyped ==
  ASSUME NEW sel \in Selectable
  PROVE  NameOf(sel) \in Items \cup {NoItem}
BY DEF Selectable, NameOf, Subjects

LEMMA ListHandlersTyped ==
  ASSUME NEW s
  PROVE  AreHandlers(ListHandlers(s))
<1>1. IsHandler(Spin) /\ IsHandler(Idle) /\ IsHandler(Ignore)
  BY DEF IsHandler, Handler, Spin, Idle, Ignore, NoteStates
<1>2. /\ IsHandler(Handler("error", TRUE, FALSE))
      /\ IsHandler(Handler("error", TRUE, TRUE))
      /\ IsHandler(Handler("success", TRUE, TRUE))
  BY DEF IsHandler, Handler, NoteStates
<1>3. DOMAIN ListHandlers(s) = {"listingStarted", "listed", "listErr", "deletionStarted",
                                "deleted", "deletionErr", "regainedFocus"}
  BY DEF ListHandlers
<1>4. /\ IsHandler(ListHandlers(s)["listingStarted"])
      /\ IsHandler(ListHandlers(s)["listed"])
      /\ IsHandler(ListHandlers(s)["listErr"])
      /\ IsHandler(ListHandlers(s)["deletionStarted"])
      /\ IsHandler(ListHandlers(s)["deleted"])
      /\ IsHandler(ListHandlers(s)["deletionErr"])
  BY <1>1, <1>2 DEF ListHandlers
<1>5. IsHandler(ListHandlers(s)["regainedFocus"])
  <2>1. CASE s \in {"loading", "deleting"}
    BY <1>1, <2>1 DEF ListHandlers
  <2>2. CASE s \notin {"loading", "deleting"}
    BY <1>1, <2>2 DEF ListHandlers
  <2> QED
    BY <2>1, <2>2
<1> QED
  BY <1>3, <1>4, <1>5 DEF AreHandlers

(* Hidden bars have no focus. *)
LEMMA HideBarsKeeps ==
  ASSUME NEW b \in Bars
  PROVE  HideBars(b) \in Bars /\ IsOpen(HideBars(b)) /\ ~IsFocussed(HideBars(b))
<1> DEFINE b1 == [b EXCEPT !.search.state = "hidden"]
           b2 == [b1 EXCEPT !.del.active = FALSE]
           b3 == [b2 EXCEPT !.sort.active = FALSE]
           b4 == [b3 EXCEPT !.active = "none"]
<1>1. HideBars(b) = b4
  BY DEF HideBars
<1>2. b1 \in Bars
  BY WithoutSearch
<1> HIDE DEF b1
<1>3. b2 \in Bars
  BY <1>2, WithoutDelete
<1> HIDE DEF b2
<1>4. b3 \in Bars
  BY <1>3, WithoutSort
<1> HIDE DEF b3
<1>5. b4 \in Bars /\ b4.active = "none"
  BY <1>4, BarsFields
<1> HIDE DEF b4
<1> QED
  BY <1>1, <1>5 DEF IsOpen, IsFocussed

LEMMA ResetSearchQuiet ==
  ASSUME NEW b \in Bars
  PROVE  IsFocussed(ResetSearch(b)) => IsFocussed(b)
<1>1. /\ ResetSearch(b).active = b.active /\ ResetSearch(b).del = b.del
      /\ ResetSearch(b).note = b.note /\ ResetSearch(b).search.state = "hidden"
  BY BarsFields DEF ResetSearch, NoSearch
<1> QED
  BY <1>1 DEF IsFocussed, HasPriority

LEMMA ReceivedKeeps ==
  ASSUME NEW p \in Lists, Quiet(p), NEW msg, IsListMessage(msg)
  PROVE  Received(p, msg) \in Lists /\ Quiet(Received(p, msg))
<1>1. /\ p.bars \in Bars /\ IsOpen(p.bars) /\ p.hard \in DelType
      /\ p.subjects \in SUBSET Subjects
  BY ListFields
<1>2. CASE IsKey(msg, "tab")
  <2> DEFINE q == [p EXCEPT !.tab = IF p.tab = "active" THEN "deleted" ELSE "active"]
             b == HideBars(ResetSearch(q.bars))
             r == [q EXCEPT !.bars = b]
             hard == [r.hard EXCEPT !.active = FALSE]
             s == [r EXCEPT !.hard = hard]
  <2>1. q \in Lists /\ q.bars = p.bars
    BY ListFields DEF Tabs
  <2>2. Received(p, msg) = s
    BY <1>2 DEF Received, NextTab, ResetTcb
  <2> HIDE DEF q
  <2>3. b \in Bars /\ IsOpen(b) /\ ~IsFocussed(b)
    BY <1>1, <2>1, ResetSearchKeeps, HideBarsKeeps
  <2> HIDE DEF b
  <2>4. r \in Lists
    BY <2>1, <2>3, ListFields
  <2>5. r.bars = b
    BY <2>1, ListFields
  <2> HIDE DEF r
  <2>6. hard \in DelType /\ ~hard.active
    <3>1. r.hard \in DelType
      BY <2>4, ListFields
    <3> QED
      BY <3>1 DEF DelType
  <2> HIDE DEF hard
  <2>7. s \in Lists /\ s.hard = hard
    BY <2>4, <2>6, ListFields
  <2> QED
    BY <2>2, <2>6, <2>7 DEF Quiet
<1>3. CASE ~IsKey(msg, "tab") /\ msg.type = "listed" /\ msg.found # {}
  <2> DEFINE q1 == [p EXCEPT !.state = "subjectsLoaded"]
             q == [q1 EXCEPT !.subjects = msg.found]
             b == ResetSearch(q.bars)
             r == [q EXCEPT !.bars = b]
  <2>1. q \in Lists /\ q.bars = p.bars /\ q.hard = p.hard
    <3>1. msg.found \in SUBSET Subjects /\ "subjectsLoaded" \in ListStates
      BY <1>3 DEF IsListMessage, ListStates
    <3>2. q1 \in Lists /\ q1.bars = p.bars /\ q1.hard = p.hard
      BY <3>1, WithState
    <3> HIDE DEF q1
    <3> QED
      BY <3>1, <3>2, WithSubjects
  <2>2. Received(p, msg) = r
    BY <1>3 DEF Received, Listed
  <2> HIDE DEF q
  <2>3. b \in Bars /\ IsOpen(b) /\ (IsFocussed(b) => IsFocussed(p.bars))
    BY <1>1, <2>1, ResetSearchKeeps, ResetSearchQuiet
  <2> HIDE DEF b
  <2>4. r \in Lists /\ r.bars = b /\ r.hard = p.hard
    BY <2>1, <2>3, ListFields
  <2> QED
    BY <2>2, <2>3, <2>4 DEF Quiet
<1>4. CASE ~IsKey(msg, "tab") /\ ~(msg.type = "listed" /\ msg.found # {})
  <2>1. {s \in p.subjects : s.name # msg.name} \in SUBSET Subjects
    BY <1>1
  <2>2. /\ Received(p, msg) \in Lists
        /\ Received(p, msg).bars = p.bars /\ Received(p, msg).hard = p.hard
    <3>3. {"loading", "noSubjectsFound", "subjectsLoaded", "deleting"} \subseteq ListStates
      BY DEF ListStates
    <3>4. CASE msg.type = "listed"
      BY <1>1, <1>4, WithState, <3>3, <3>4 DEF Received, Listed
    <3>5. CASE msg.type \in {"listingStarted", "deletionStarted"}
      BY <1>4, WithState, <3>3, <3>5 DEF Received
    <3>6. CASE msg.type = "deleted"
      <4> DEFINE left == {s \in p.subjects : s.name # msg.name}
                 state == IF left = {} THEN "noSubjectsFound" ELSE "subjectsLoaded"
                 q == [p EXCEPT !.subjects = left]
                 r == [q EXCEPT !.state = state]
      <4>1. Received(p, msg) = r
        BY <1>4, <3>6 DEF Received, Removed
      <4>2. state \in ListStates
        BY <3>3
      <4> HIDE DEF state
      <4>3. q \in Lists /\ q.bars = p.bars /\ q.hard = p.hard
        BY <2>1, WithSubjects
      <4> HIDE DEF q
      <4> QED
        BY <4>1, <4>2, <4>3, WithState
    <3>7. CASE msg.type \notin {"listed", "listingStarted", "deletionStarted", "deleted"}
      BY <1>1, <1>4, <3>7 DEF Received
    <3> QED
      BY <3>4, <3>5, <3>6, <3>7
  <2> QED
    BY <2>2 DEF Quiet
<1> QED
  BY <1>2, <1>3, <1>4

(* The bars below the hard prompt keep their part of the page typed. *)
LEMMA ToMainKeeps ==
  ASSUME NEW p \in Lists, NEW msg, IsMessage(msg), NEW sel \in Selectable
  PROVE  LET o == ToMain(p, msg, sel)
         IN  /\ o.next \in Lists /\ o.next.hard = p.hard /\ o.next.tab = p.tab
             /\ o.next.subjects = p.subjects
<1> DEFINE t == TableUpdate(p.bars, msg, NameOf(sel), ListHandlers(p.state), Items)
<1>1. t.next \in Bars /\ IsOpen(t.next)
  BY ListFields, NameTyped, ListHandlersTyped, TableUpdateKeeps
<1>2. ToMain(p, msg, sel).next = [p EXCEPT !.bars = t.next]
  BY DEF ToMain, WithBars, Does
<1> HIDE DEF t
<1> QED
  BY <1>1, <1>2, ListFields

(* An active notifier that takes nil has a say only if it spins. *)
LEMMA ToMainNothingKeeps ==
  ASSUME NEW p \in Lists, NEW sel \in Selectable
  PROVE  LET o == ToMainNothing(p, sel)
         IN  /\ o.next \in Lists /\ o.next.hard = p.hard /\ o.next.tab = p.tab
             /\ o.next.subjects = p.subjects
<1>1. CASE p.bars.note.active
  <2> DEFINE b == [p.bars EXCEPT !.active = "notifier"]
  <2>1. ToMainNothing(p, sel).next = [p EXCEPT !.bars = b]
    BY <1>1 DEF ToMainNothing, Does
  <2>2. b \in Bars /\ IsOpen(b)
    BY ListFields DEF Bars, IsOpen
  <2> HIDE DEF b
  <2> QED
    BY <2>1, <2>2, ListFields
<1>2. CASE ~p.bars.note.active
  BY <1>2, ToMainKeeps DEF ToMainNothing, IsMessage, Message
<1> QED
  BY <1>1, <1>2

LEMMA WithHardPrompt ==
  ASSUME NEW p \in Lists, NEW hard \in DelType
  PROVE  LET q == [p EXCEPT !.hard = hard]
         IN  /\ q \in Lists /\ q.hard = hard /\ q.bars = p.bars /\ q.tab = p.tab
             /\ q.subjects = p.subjects
BY ListFields

LEMMA TcbUpdateKeeps ==
  ASSUME NEW p \in Lists, Quiet(p), NEW msg, IsMessage(msg), NEW sel \in Selectable
  PROVE  LET o == TcbUpdate(p, msg, sel)
         IN  /\ o.next \in Lists /\ Quiet(o.next) /\ o.next.tab = p.tab
             /\ o.next.subjects = p.subjects
<1>0. p.hard \in DelType /\ p.hard.active \in BOOLEAN
  BY ListFields DEF DelType
<1>1. CASE p.hard.active
  <2> DEFINE h == DeleteUpdate(p.hard, msg, "f4", Items)
             q == [p EXCEPT !.hard = h.next]
             o == IF h.handled THEN ToMainNothing(q, sel) ELSE ToMain(q, msg, sel)
             hard == [o.next.hard EXCEPT !.active = o.next.hard.active /\ ~IsFocussed(o.next.bars)]
  <2>1. h.next \in DelType
    BY <1>0, DeleteUpdateReturns
  <2>2. TcbUpdate(p, msg, sel) = WithHard(p, h, msg, sel)
    BY <1>1 DEF TcbUpdate, ToHard
  <2>3. CASE h.active /\ h.handled
    <3>1. TcbUpdate(p, msg, sel).next = q
      BY <2>2, <2>3 DEF WithHard, Does
    <3> HIDE DEF h
    <3>2. q \in Lists /\ q.bars = p.bars /\ q.tab = p.tab /\ q.subjects = p.subjects
      BY <2>1, WithHardPrompt
    <3> QED
      BY <1>1, <3>1, <3>2 DEF Quiet
  <2>4. CASE ~(h.active /\ h.handled)
    <3>1. TcbUpdate(p, msg, sel) = HideHard(o)
      BY <2>2, <2>4 DEF WithHard
    <3> HIDE DEF h
    <3>3. q \in Lists /\ q.tab = p.tab /\ q.subjects = p.subjects
      BY <2>1, WithHardPrompt
    <3> HIDE DEF q
    <3>4. o.next \in Lists /\ o.next.tab = p.tab /\ o.next.subjects = p.subjects
      BY <3>3, ToMainKeeps, ToMainNothingKeeps
    <3>5. o = [next |-> o.next, cmds |-> o.cmds]
      BY DEF ToMainNothing, ToMain, WithBars, Does
    <3> HIDE DEF o
    <3>6. HideHard(o).next = [o.next EXCEPT !.hard = hard]
      BY <3>5 DEF HideHard
    <3>7. hard \in DelType /\ (hard.active => ~IsFocussed(o.next.bars))
      <4>1. o.next.hard \in DelType
        BY <3>4, ListFields
      <4> QED
        BY <4>1 DEF DelType
    <3> HIDE DEF hard
    <3>8. [o.next EXCEPT !.hard = hard] \in Lists
      BY <3>4, <3>7, WithHardPrompt
    <3> QED
      BY <3>1, <3>4, <3>6, <3>7, <3>8, WithHardPrompt DEF Quiet
  <2> QED
    BY <2>3, <2>4
<1>2. CASE ~p.hard.active /\ IsKey(msg, "f4") /\ sel # NoSubject
  <2> DEFINE d1 == [p.hard EXCEPT !.active = TRUE]
             p1 == [p EXCEPT !.hard = d1]
             d2 == [p1.hard EXCEPT !.value = NameOf(sel)]
             p2 == [p1 EXCEPT !.hard = d2]
             b == HideBars(p2.bars)
             q == [p2 EXCEPT !.bars = b]
  <2>1. TcbUpdate(p, msg, sel).next = q
    BY <1>2 DEF TcbUpdate, OpenHard, Does
  <2>2. d1 \in DelType
    BY <1>0 DEF DelType
  <2> HIDE DEF d1
  <2>3. p1 \in Lists /\ p1.hard = d1 /\ p1.tab = p.tab /\ p1.subjects = p.subjects
    BY <2>2, WithHardPrompt
  <2> HIDE DEF p1
  <2>4. d2 \in DelType
    BY <2>2, <2>3, NameTyped DEF DelType
  <2> HIDE DEF d2
  <2>5. p2 \in Lists /\ p2.tab = p.tab /\ p2.subjects = p.subjects
    BY <2>3, <2>4, WithHardPrompt
  <2> HIDE DEF p2
  <2>6. b \in Bars /\ IsOpen(b) /\ ~IsFocussed(b)
    BY <2>5, ListFields, HideBarsKeeps
  <2> HIDE DEF b
  <2>7. q \in Lists /\ q.bars = b /\ q.tab = p.tab /\ q.subjects = p.subjects
    BY <2>5, <2>6, ListFields
  <2> QED
    BY <2>1, <2>6, <2>7 DEF Quiet
<1>3. CASE ~p.hard.active /\ ~(IsKey(msg, "f4") /\ sel # NoSubject)
  <2>1. TcbUpdate(p, msg, sel) = ToMain(p, msg, sel)
    BY <1>3 DEF TcbUpdate
  <2> QED
    BY <1>3, <2>1, ToMainKeeps DEF Quiet
<1> QED
  BY <1>1, <1>2, <1>3

(* Whatever the message, the page keeps its type, and no second prompt     *)
(* gets the keys.                                                          *)
LEMMA ListUpdateKeeps ==
  ASSUME NEW p \in Lists, Quiet(p), NEW msg, IsListMessage(msg), NEW sel \in Selectable
  PROVE  LET q == ListUpdate(p, msg, sel).next
         IN  q \in Lists /\ Quiet(q)
<1>1. CASE IsKey(msg, "f5")
  <2> DEFINE q1 == [p EXCEPT !.state = "loading"]
             q == [q1 EXCEPT !.subjects = {}]
  <2>1. q \in Lists /\ q.bars = p.bars /\ q.hard = p.hard
    <3>1. "loading" \in ListStates /\ {} \in SUBSET Subjects
      BY DEF ListStates
    <3>2. q1 \in Lists /\ q1.bars = p.bars /\ q1.hard = p.hard
      BY <3>1, WithState
    <3> HIDE DEF q1
    <3> QED
      BY <3>1, <3>2, WithSubjects
  <2>2. ListUpdate(p, msg, sel).next = q
    BY <1>1 DEF ListUpdate, Refresh, Does
  <2> QED
    BY <2>1, <2>2 DEF Quiet
<1>2. CASE ListUpdate(p, msg, sel).next = p
  BY <1>2
<1>3. CASE ListUpdate(p, msg, sel) = ToBarsAndRows(p, msg, sel)
  <2> DEFINE r == Received(p, msg)
             o == TcbUpdate(r, msg, sel)
             q == [o.next EXCEPT !.visible = Visible(o.next)]
  <2>1. r \in Lists /\ Quiet(r)
    BY ReceivedKeeps
  <2>2. ListUpdate(p, msg, sel).next = q
    BY <1>3 DEF ToBarsAndRows, WithRows, Does
  <2> HIDE DEF r
  <2>3. o.next \in Lists /\ Quiet(o.next)
    BY <2>1, TcbUpdateKeeps DEF IsListMessage
  <2> HIDE DEF o
  <2>4. Visible(o.next) \in SUBSET Subjects
    BY <2>3, ListFields DEF Visible
  <2>5. q \in Lists /\ q.bars = o.next.bars /\ q.hard = o.next.hard
    BY <2>3, <2>4, ListFields
  <2> QED
    BY <2>2, <2>3, <2>5 DEF Quiet
<1> QED
  BY <1>1, <1>2, <1>3 DEF ListUpdate, Does

(* The commands of the page.  A prompt deletes only what it names, with    *)
(* "Delete!" chosen, when enter is pressed.                                *)
Deletes(p, c, t) ==
  \/ /\ c = Cmd("delete", t)
     /\ ~p.hard.active /\ p.bars.active = "delete"
     /\ p.bars.del.affirmed /\ p.bars.del.value = t
  \/ /\ c = Cmd("hardDelete", t)
     /\ p.hard.active /\ p.hard.affirmed /\ p.hard.value = t

LEMMA ToMainCommands ==
  ASSUME NEW p \in Lists, ~p.hard.active, NEW msg, NEW sel
  PROVE  LET o == ToMain(p, msg, sel)
         IN  \/ o.cmds = <<>>
             \/ /\ IsKey(msg, "enter")
                /\ \E t \in Items : \E c : o.cmds = <<c>> /\ Deletes(p, c, t)
<1> DEFINE t == TableUpdate(p.bars, msg, NameOf(sel), ListHandlers(p.state), Items)
<1>1. ToMain(p, msg, sel).cmds = DeletionsOf("delete", t.cmds)
  BY DEF ToMain, WithBars, Does
<1>2. ASSUME NEW i \in Items, DeleteCmd(i) \in t.cmds
      PROVE  /\ p.bars.active = "delete" /\ p.bars.del.affirmed /\ p.bars.del.value = i
             /\ IsKey(msg, "enter")
  BY <1>2, ListFields, ListHandlersTyped, TableUpdateConfirmed
<1> HIDE DEF t
<1>3. CASE \A i \in Items : DeleteCmd(i) \notin t.cmds
  BY <1>1, <1>3, DeletionsNone
<1>4. ASSUME NEW i \in Items, DeleteCmd(i) \in t.cmds
      PROVE  /\ DeletionsOf("delete", t.cmds) = <<Cmd("delete", i)>>
             /\ Deletes(p, Cmd("delete", i), i)
  BY <1>2, <1>4, DeletionsOne DEF Deletes
<1> QED
  BY <1>1, <1>2, <1>3, <1>4

LEMMA ToMainSilent ==
  ASSUME NEW p \in Lists, NEW msg, ~IsKey(msg, "enter"), NEW sel
  PROVE  ToMain(p, msg, sel).cmds = <<>>
<1> DEFINE t == TableUpdate(p.bars, msg, NameOf(sel), ListHandlers(p.state), Items)
<1>1. ToMain(p, msg, sel).cmds = DeletionsOf("delete", t.cmds)
  BY DEF ToMain, WithBars, Does
<1>2. ASSUME NEW i \in Items PROVE DeleteCmd(i) \notin t.cmds
  BY ListFields, ListHandlersTyped, TableUpdateConfirmed
<1> HIDE DEF t
<1> QED
  BY <1>1, <1>2, DeletionsNone

LEMMA ToMainNothingSilent ==
  ASSUME NEW p \in Lists, NEW sel
  PROVE  ToMainNothing(p, sel).cmds = <<>>
BY ToMainSilent DEF ToMainNothing, Does, IsKey, Message

(* The prompt alone: enter either confirms it or closes it, and is taken.  *)
LEMMA PromptCommands ==
  ASSUME NEW d \in DelType, NEW msg, NEW key, key # "enter", NEW valid
  PROVE  LET h == DeleteUpdate(d, msg, key, valid)
         IN  /\ \A t : DeleteCmd(t) \in h.cmds =>
                  IsKey(msg, "enter") /\ d.affirmed /\ d.value = t /\ h.cmds = {DeleteCmd(t)}
             /\ IsKey(msg, "enter") => h.handled
<1>1. \A t, u : DeleteCmd(t) = DeleteCmd(u) => t = u
  BY DEF DeleteCmd
<1>2. \A t : DeleteCmd(t) # RefuseCmd
  BY DEF DeleteCmd, RefuseCmd
<1> QED
  BY <1>1, <1>2 DEF DeleteUpdate, Enter, Closed, Outcome, IsKey

LEMMA TcbCommands ==
  ASSUME NEW p \in Lists, NEW msg, NEW sel
  PROVE  LET o == TcbUpdate(p, msg, sel)
         IN  \/ o.cmds = <<>>
             \/ /\ IsKey(msg, "enter")
                /\ \E t \in Items : \E c : o.cmds = <<c>> /\ Deletes(p, c, t)
<1>0. p.hard \in DelType
  BY ListFields
<1>1. CASE p.hard.active
  <2> DEFINE h == DeleteUpdate(p.hard, msg, "f4", Items)
             q == [p EXCEPT !.hard = h.next]
             o == IF h.handled THEN ToMainNothing(q, sel) ELSE ToMain(q, msg, sel)
  <2>1. h.next \in DelType
    BY <1>0, DeleteUpdateReturns
  <2>2. TcbUpdate(p, msg, sel) = WithHard(p, h, msg, sel)
    BY <1>1 DEF TcbUpdate, ToHard
  <2>3. /\ \A t : DeleteCmd(t) \in h.cmds =>
             IsKey(msg, "enter") /\ p.hard.affirmed /\ p.hard.value = t /\ h.cmds = {DeleteCmd(t)}
        /\ IsKey(msg, "enter") => h.handled
    BY <1>0, PromptCommands
  <2> HIDE DEF h
  <2>4. CASE h.active /\ h.handled
    <3>1. TcbUpdate(p, msg, sel).cmds = DeletionsOf("hardDelete", h.cmds)
      BY <2>2, <2>4 DEF WithHard, Does
    <3>2. CASE \A i \in Items : DeleteCmd(i) \notin h.cmds
      BY <3>1, <3>2, DeletionsNone
    <3>3. ASSUME NEW i \in Items, DeleteCmd(i) \in h.cmds
          PROVE  /\ DeletionsOf("hardDelete", h.cmds) = <<Cmd("hardDelete", i)>>
                 /\ IsKey(msg, "enter") /\ Deletes(p, Cmd("hardDelete", i), i)
      <4>1. \A j \in Items : DeleteCmd(j) \in h.cmds => j = i
        BY <2>3, <3>3
      <4> QED
        BY <1>1, <2>3, <3>3, <4>1, DeletionsOne DEF Deletes
    <3> QED
      BY <3>1, <3>2, <3>3
  <2>5. CASE ~(h.active /\ h.handled)
    <3>1. TcbUpdate(p, msg, sel) = HideHard(o)
      BY <2>2, <2>5 DEF WithHard
    <3>2. h.handled \/ ~IsKey(msg, "enter")
      BY <2>3
    <3>3. q \in Lists
      BY <2>1, WithHardPrompt
    <3> HIDE DEF q
    <3>4. o.cmds = <<>>
      BY <3>2, <3>3, ToMainSilent, ToMainNothingSilent
    <3>5. o = [next |-> o.next, cmds |-> o.cmds]
      BY DEF ToMainNothing, ToMain, WithBars, Does
    <3> HIDE DEF o
    <3> QED
      BY <3>1, <3>4, <3>5 DEF HideHard
  <2> QED
    BY <2>4, <2>5
<1>2. CASE ~p.hard.active
  BY <1>2, ToMainCommands DEF TcbUpdate, OpenHard, Does
<1> QED
  BY <1>1, <1>2

Started == {"listingStarted", "deletionStarted"}

(* A message other than a key gets an answer awaited or no command at all. *)
LEMMA ListSilent ==
  ASSUME NEW p \in Lists, Quiet(p), NEW msg, IsListMessage(msg), msg.type # "key", NEW sel
  PROVE  LET o == ListUpdate(p, msg, sel)
         IN  /\ msg.type \in Started => o.cmds = <<Cmd("await", NoItem)>>
             /\ msg.type \notin Started => o.cmds = <<>>
<1> DEFINE r == Received(p, msg)
           o == TcbUpdate(r, msg, sel)
<1>1. ListUpdate(p, msg, sel).cmds = Awaits(msg) \o o.cmds
  BY DEF ListUpdate, IsKey, ToBarsAndRows, WithRows, Does
<1>2. r \in Lists
  BY ReceivedKeeps
<1> HIDE DEF r
<1>3. o.cmds = <<>>
  BY <1>2, TcbCommands DEF IsKey
<1> HIDE DEF o
<1>4. /\ msg.type \in Started => Awaits(msg) = <<Cmd("await", NoItem)>>
      /\ msg.type \notin Started => Awaits(msg) = <<>>
  BY DEF Awaits, Started
<1> QED
  BY <1>1, <1>3, <1>4

(* A key gets at most one command; which, and when. *)
ListCommand(p, sel, c) ==
  \/ c = Cmd("list", NoItem)
  \/ c = Cmd("create", NoItem)
  \/ c = Cmd("open", sel) /\ sel # NoSubject
  \/ c = Cmd("crash", NoItem) /\ CanOpen(p) /\ sel = NoSubject
  \/ \E t \in Items : Deletes(p, c, t)

LEMMA ListCommands ==
  ASSUME NEW p \in Lists, Quiet(p), NEW msg, IsListMessage(msg), msg.type = "key",
         NEW sel \in Selectable
  PROVE  LET o == ListUpdate(p, msg, sel)
         IN  \/ o.cmds = <<>>
             \/ \E c : o.cmds = <<c>> /\ ListCommand(p, sel, c) /\ o.next.tab = p.tab
<1>1. CASE IsKey(msg, "f5")
  <2>1. ListUpdate(p, msg, sel).next.tab = p.tab
    <3>1. p \in [state : ListStates, subjects : SUBSET Subjects, visible : SUBSET Subjects,
                 tab : Tabs, bars : Bars, hard : DelType]
      BY ListFields
    <3> QED
      BY <1>1, <3>1 DEF ListUpdate, Refresh, Does
  <2> QED
    BY <1>1, <2>1 DEF ListUpdate, Refresh, Does, ListCommand
<1>2. CASE ~IsKey(msg, "f5") /\ IsKey(msg, "ctrl+n") /\ p.state \notin {"loading", "deleting"}
  BY <1>2 DEF ListUpdate, Does, ListCommand
<1>3. CASE IsKey(msg, "enter") /\ CanOpen(p)
  BY <1>3 DEF ListUpdate, Does, ListCommand, IsKey
<1>4. CASE ListUpdate(p, msg, sel) = ToBarsAndRows(p, msg, sel)
  <2> DEFINE r == Received(p, msg)
             o == TcbUpdate(r, msg, sel)
  <2>1. /\ ListUpdate(p, msg, sel).cmds = Awaits(msg) \o o.cmds
        /\ ListUpdate(p, msg, sel).next = [o.next EXCEPT !.visible = Visible(o.next)]
    BY <1>4 DEF ToBarsAndRows, WithRows, Does
  <2>2. Awaits(msg) = <<>>
    BY DEF Awaits
  <2>3. r \in Lists /\ Quiet(r) /\ (IsKey(msg, "enter") => r = p)
    BY ReceivedKeeps DEF Received, IsKey
  <2> HIDE DEF r
  <2>4. o.next \in Lists /\ o.next.tab = r.tab
    BY <2>3, TcbUpdateKeeps DEF IsListMessage
  <2>5. \/ o.cmds = <<>>
        \/ /\ IsKey(msg, "enter")
           /\ \E t \in Items : \E c : o.cmds = <<c>> /\ Deletes(r, c, t)
    BY <2>3, TcbCommands
  <2> HIDE DEF o
  <2>6. [o.next EXCEPT !.visible = Visible(o.next)].tab = r.tab
    BY <2>4, ListFields
  <2>7. CASE o.cmds = <<>>
    BY <2>1, <2>2, <2>7
  <2>8. ASSUME NEW t \in Items, NEW c, o.cmds = <<c>>, Deletes(r, c, t), IsKey(msg, "enter")
        PROVE  /\ ListUpdate(p, msg, sel).cmds = <<c>>
               /\ ListCommand(p, sel, c) /\ ListUpdate(p, msg, sel).next.tab = p.tab
    BY <2>1, <2>2, <2>3, <2>6, <2>8 DEF ListCommand
  <2> QED
    BY <2>5, <2>7, <2>8
<1> QED
  BY <1>1, <1>2, <1>3, <1>4 DEF ListUpdate

-----------------------------------------------------------------------------
(* The other two pages.                                                    *)

(* The prompt of the page of a subject deletes at most one version. *)
LEMMA PromptOfCommands ==
  ASSUME NEW bar, NEW msg, NEW u, DeleteCmd(u) \in PromptOf(bar, msg).cmds
  PROVE  IsKey(msg, "enter") /\ u = bar.del.value
<1>1. \A t, v : DeleteCmd(t) = DeleteCmd(v) => t = v
  BY DEF DeleteCmd
<1>2. DeleteCmd(u) # RefuseCmd
  BY DEF DeleteCmd, RefuseCmd
<1> DEFINE m == ForPrompt(msg)
           o == DeleteUpdate(bar.del, m, "f2", Versions)
<1>3. PromptOf(bar, msg).cmds = o.cmds
  BY DEF PromptOf, WithPrompt, DeleteUpdate, Enter, Closed, Outcome
<1>4. IsKey(m, "enter") => IsKey(msg, "enter")
  BY DEF ForPrompt, Input, Key, IsKey
<1> HIDE DEF m
<1>5. IsKey(m, "enter") /\ u = bar.del.value
  BY <1>1, <1>2, <1>3 DEF DeleteUpdate, Enter, Closed, Outcome
<1> QED
  BY <1>4, <1>5

LEMMA BarUpdateCommands ==
  ASSUME NEW bar, NEW msg, NEW label
  PROVE  \E v : \A u : DeleteCmd(u) \in BarUpdate(bar, msg, label).cmds =>
                         IsKey(msg, "enter") /\ u = v
<1> DEFINE n == NotifierOf(bar, msg)
           m == NotifierOf(n.next, msg)
           p == PromptOf(n.next, msg)
           o == BarUpdate(bar, msg, label)
<1>1. \A u : DeleteCmd(u) # SpinCmd /\ DeleteCmd(u) # AutoHideCmd
  BY DEF DeleteCmd, SpinCmd, AutoHideCmd
<1>2. /\ n = [next |-> n.next, active |-> n.active, handled |-> n.handled, cmds |-> n.cmds]
      /\ \A u : DeleteCmd(u) \notin n.cmds
  BY <1>1 DEF NotifierOf, NotifierUpdate, Notify, Outcome
<1>3. /\ m = [next |-> m.next, active |-> m.active, handled |-> m.handled, cmds |-> m.cmds]
      /\ \A u : DeleteCmd(u) \notin m.cmds
  BY <1>1 DEF NotifierOf, NotifierUpdate, Notify, Outcome
<1>4. /\ p = [next |-> p.next, active |-> p.active, handled |-> p.handled, cmds |-> p.cmds]
      /\ \A u : DeleteCmd(u) \in p.cmds => IsKey(msg, "enter") /\ u = n.next.del.value
  <2>1. p = [next |-> p.next, active |-> p.active, handled |-> p.handled, cmds |-> p.cmds]
    <3> DEFINE q == DeleteUpdate(n.next.del, ForPrompt(msg), "f2", Versions)
    <3>1. q = [next |-> q.next, active |-> q.active, handled |-> q.handled, cmds |-> q.cmds]
      BY DEF DeleteUpdate, Enter, Closed, Outcome
    <3>2. p = [q EXCEPT !.next = [n.next EXCEPT !.del = q.next]]
      BY DEF PromptOf, WithPrompt
    <3> HIDE DEF p, q, n
    <3> QED
      BY <3>1, <3>2
  <2> QED
    BY <2>1, PromptOfCommands
<1>5. o = WithNotifier(bar, n, msg, label)
  BY DEF BarUpdate
<1>6. o.cmds \in {n.cmds, m.cmds, p.cmds, {}}
  <2> HIDE DEF n, m, p, o
  <2>1. CASE bar.active = "notifier" /\ HasPriority(bar)
    BY <1>2, <1>5, <2>1 DEF WithNotifier, GivingWay
  <2>2. CASE ~(bar.active = "notifier" /\ HasPriority(bar)) /\ n.active /\ n.handled
    BY <1>2, <1>5, <2>2 DEF WithNotifier
  <2>3. CASE ~(bar.active = "notifier" /\ HasPriority(bar)) /\ ~(n.active /\ n.handled)
             /\ IsKey(msg, "f2")
    BY <1>4, <1>5, <2>3 DEF WithNotifier, BarF2, p
  <2>4. CASE ~(bar.active = "notifier" /\ HasPriority(bar)) /\ ~(n.active /\ n.handled)
             /\ ~IsKey(msg, "f2") /\ bar.active = "notifier"
    BY <1>3, <1>5, <2>4 DEF WithNotifier, GivingWay, m
  <2>5. CASE ~(bar.active = "notifier" /\ HasPriority(bar)) /\ ~(n.active /\ n.handled)
             /\ ~IsKey(msg, "f2") /\ bar.active = "delete"
    BY <1>4, <1>5, <2>5 DEF WithNotifier, GivingWay, p
  <2>6. CASE bar.active \notin {"notifier", "delete"} /\ ~(n.active /\ n.handled)
             /\ ~IsKey(msg, "f2")
    BY <1>5, <2>6 DEF WithNotifier, Outcome
  <2> QED
    BY <2>1, <2>2, <2>3, <2>4, <2>5, <2>6
<1> HIDE DEF n, m, p, o
<1>7. \A u : DeleteCmd(u) \in o.cmds => IsKey(msg, "enter") /\ u = n.next.del.value
  BY <1>2, <1>3, <1>4, <1>6
<1> QED
  BY <1>7 DEF o

LEMMA RemovalsOfOne ==
  ASSUME NEW cmds, NEW v, \A u : DeleteCmd(u) \in cmds => u = v
  PROVE  RemovalsOf(cmds) = <<>> \/ (RemovalsOf(cmds) = <<Cmd("remove", v)>> /\ v \in Int)
<1> DEFINE vs == {u \in 0 .. Max(Versions) : DeleteCmd(u) \in cmds}
           removals == {Cmd("remove", u) : u \in vs}
<1>1. RemovalsOf(cmds) = SetToSeq(removals)
  BY DEF RemovalsOf
<1>2. vs = {} \/ (vs = {v} /\ v \in Int)
  OBVIOUS
<1> HIDE DEF vs
<1>3. removals = {} \/ (removals = {Cmd("remove", v)} /\ v \in Int)
  BY <1>2
<1> HIDE DEF removals
<1> DEFINE c == Cmd("remove", v)
<1>4. SetToSeq({c}) = <<c>>
  BY SeqOfOne
<1> HIDE DEF c
<1>5. removals = {} \/ (removals = {c} /\ v \in Int)
  BY <1>3 DEF c
<1>6. RemovalsOf(cmds) = <<>> \/ (RemovalsOf(cmds) = <<c>> /\ v \in Int)
  BY <1>1, <1>4, <1>5, SeqOfNone
<1> QED
  BY <1>6 DEF c

RemovalsNone(cmds) == \A u : DeleteCmd(u) \notin cmds
LEMMA RemovalsOfNone ==
  ASSUME NEW cmds, RemovalsNone(cmds)
  PROVE  RemovalsOf(cmds) = <<>>
<1>1. {Cmd("remove", v) : v \in {u \in 0 .. Max(Versions) : DeleteCmd(u) \in cmds}} = {}
  BY DEF RemovalsNone
<1> QED
  BY <1>1, SeqOfNone DEF RemovalsOf

DetailsStarted == {"versionsStarted", "removalStarted"}

(* What a key makes of the page, when it does not end the program. *)
DetailsCommand(d, c) ==
  \/ c \in {Cmd("crash", 0), Cmd("copy", 0)} \/ \E on : c = Cmd("back", on)
  \/ \E v \in Int : c = Cmd("remove", v)

(* A message other than a key gets an answer awaited, or the page left in  *)
(* five seconds, or no command at all.                                     *)
LEMMA DetailsSilent ==
  ASSUME NEW d, NEW msg, msg.type # "key"
  PROVE  DetailsUpdate(d, msg).cmds
           = IF msg.type \in DetailsStarted THEN <<Cmd("await", 0)>>
             ELSE IF msg.type = "removed" /\ DetailsReceived(d, msg).updated = <<>>
               THEN <<Cmd("return", 0)>>
             ELSE <<>>
<1>1. Chosen(d, msg) = d /\ ~Fails(d, msg)
  BY DEF Chosen, Fails, F2Fails, IsKey
<1> DEFINE r == DetailsReceived(d, msg)
           o == BarUpdate(r.bar, msg, Label(r))
<1>2. DetailsUpdate(d, msg) = WithBar(r, msg, o)
  BY <1>1 DEF DetailsUpdate, AfterChoice, ToDetailsBar
<1>3. RemovalsOf(o.cmds) = <<>>
  <2>1. RemovalsNone(o.cmds)
    BY BarUpdateCommands DEF RemovalsNone, IsKey
  <2> HIDE DEF o
  <2> QED
    BY <2>1, RemovalsOfNone
<1> HIDE DEF o, r
<1>4. DetailsUpdate(d, msg).cmds = Asks(r, msg) \o <<>>
  BY <1>2, <1>3 DEF WithBar, Does, IsKey
<1>5. Asks(r, msg) = IF msg.type \in DetailsStarted THEN <<Cmd("await", 0)>>
                     ELSE IF msg.type = "removed" /\ r.updated = <<>>
                       THEN <<Cmd("return", 0)>>
                     ELSE <<>>
  <2>1. CASE msg.type \in DetailsStarted
    <3>1. msg.type # "removed"
      BY <2>1 DEF DetailsStarted
    <3> QED
      BY <2>1, <3>1 DEF Asks, IsKey, DetailsStarted
  <2>2. CASE msg.type = "removed" /\ r.updated = <<>>
    BY <2>2 DEF Asks, IsKey, DetailsStarted
  <2>3. CASE msg.type \notin DetailsStarted /\ ~(msg.type = "removed" /\ r.updated = <<>>)
    BY <2>3 DEF Asks, IsKey, DetailsStarted
  <2> QED
    BY <2>1, <2>2, <2>3
<1>6. Asks(r, msg) \o <<>> = Asks(r, msg)
  BY <1>5
<1> QED
  BY <1>4, <1>5, <1>6 DEF r

LEMMA DetailsCommands ==
  ASSUME NEW d, NEW msg, msg.type = "key"
  PROVE  LET o == DetailsUpdate(d, msg)
         IN  \/ o.cmds = <<>>
             \/ \E c : o.cmds = <<c>> /\ DetailsCommand(d, c)
<1> DEFINE k == Chosen(d, msg)
           r == DetailsReceived(k, msg)
           b == BarUpdate(r.bar, msg, Label(r))
<1>1. CASE Fails(k, msg)
  BY <1>1 DEF DetailsUpdate, AfterChoice, Does, DetailsCommand
<1>2. CASE ~Fails(k, msg)
  <2>1. DetailsUpdate(d, msg) = WithBar(r, msg, b)
    BY <1>2 DEF DetailsUpdate, AfterChoice, ToDetailsBar
  <2>2. PICK v : \A u : DeleteCmd(u) \in b.cmds => IsKey(msg, "enter") /\ u = v
    BY BarUpdateCommands
  <2> HIDE DEF b, r, k
  <2>4. CASE IsKey(msg, "esc") /\ ~(r.bar.active # "none" /\ b.handled)
    BY <2>1, <2>4 DEF WithBar, Does, DetailsCommand, Cmd
  <2>5. CASE ~(IsKey(msg, "esc") /\ ~(r.bar.active # "none" /\ b.handled))
    <3>1. DetailsUpdate(d, msg).cmds = Asks(r, msg) \o RemovalsOf(b.cmds)
      BY <2>1, <2>5 DEF WithBar, Does
    <3>2. CASE IsKey(msg, "reject")
      <4>1. RemovalsOf(b.cmds) = <<>>
        BY <2>2, <3>2, RemovalsOfNone DEF IsKey, RemovalsNone
      <4>2. Asks(r, msg) = <<Cmd("copy", 0)>>
        BY <3>2 DEF Asks, IsKey
      <4> QED
        BY <3>1, <4>1, <4>2 DEF DetailsCommand, Cmd
    <3>3. CASE ~IsKey(msg, "reject")
      <4>1. Asks(r, msg) = <<>>
        BY <3>3 DEF Asks
      <4>2. DetailsUpdate(d, msg).cmds = RemovalsOf(b.cmds)
        <5>1. \A u : DeleteCmd(u) \in b.cmds => u = v
          BY <2>2
        <5>2. RemovalsOf(b.cmds) = <<>> \/ RemovalsOf(b.cmds) = <<Cmd("remove", v)>>
          BY <5>1, RemovalsOfOne
        <5> QED
          BY <3>1, <4>1, <5>2
      <4>3. RemovalsOf(b.cmds) = <<>> \/ (RemovalsOf(b.cmds) = <<Cmd("remove", v)>> /\ v \in Int)
        <5>1. \A u : DeleteCmd(u) \in b.cmds => u = v
          BY <2>2
        <5> QED
          BY <5>1, RemovalsOfOne
      <4>4. v \in Int => DetailsCommand(d, Cmd("remove", v)) /\ Cmd("remove", v).cmd # "crash"
        BY DEF DetailsCommand, Cmd
      <4> QED
        BY <4>2, <4>3, <4>4
    <3> QED
      BY <3>2, <3>3
  <2> QED
    BY <2>4, <2>5
<1> QED
  BY <1>1, <1>2

(* The form. *)
LEMMA CreateSilent ==
  ASSUME NEW c, NEW msg, msg.type # "key"
  PROVE  CreateUpdate(c, msg).cmds
           = IF msg.type = "creationStarted" THEN <<Cmd("await", 0)>> ELSE <<>>
BY DEF CreateUpdate, Does, IsKey

LEMMA CreateCommands ==
  ASSUME NEW c, NEW msg, msg.type = "key"
  PROVE  LET o == CreateUpdate(c, msg)
         IN  \/ o.cmds = <<>>
             \/ o.cmds = <<Cmd("register", msg.term)>> /\ msg.key = "submit"
             \/ \E on : o.cmds = <<Cmd("back", on)>>
BY DEF CreateUpdate, Does, IsKey

-----------------------------------------------------------------------------
(* The jobs and the state of the program.                                  *)

Pages == {"list", "details", "create"}
Names == Items \cup {NoItem, NoSubject.name}
Schemas == [subject : Items, version : Versions]
Kinds == {"list", "delete", "versions", "remove", "register", "copy", "return"}
JobTypes ==
  [kind : Kinds, name : Names, by : Pages \cup {"none"},
   at : {"issued", "sent", "awaited", "lost"}, result : {"open", "ok", "err"},
   version : Int, found : SUBSET (Subjects \cup Schemas),
   prompt : {"none", "hard"} \cup Tabs, moved : BOOLEAN, permanent : BOOLEAN]

(* A listing finds subjects; what was asked of the active subjects is not  *)
(* permanent unless the tab was changed; only a deletion waits to be run;  *)
(* only a request has a result.                                            *)
JobOK(j) ==
  /\ j.result # "open" => j.kind \in Requests
  /\ j.kind = "list" => j.found \in SUBSET Subjects
  /\ j.permanent => j.prompt # "active" \/ j.moved
  /\ j.at = "issued" => j.kind = "delete" /\ j.result = "open"
Jobs == {j \in JobTypes : JobOK(j)}

(* What the pages of a subject and of a new schema asked for is theirs     *)
(* only while they are shown.                                              *)
OfPage(js, shown) == \A i \in DOMAIN js : js[i].by \in {"details", "create"} => shown = js[i].by

StateTypes(w) ==
  [page : Pages, list : Lists, details : {w.details}, create : {w.create},
   onTab : BOOLEAN, jobs : Seq(Jobs), timers : {w.timers}, crashed : BOOLEAN,
   awaits : BOOLEAN]
HasSubject(d) == "subject" \in DOMAIN d /\ d.subject \in Selectable
StateOK(w) == /\ w \in StateTypes(w)
              /\ Quiet(w.list)
              /\ HasSubject(w.details)
              /\ OfPage(w.jobs, w.page)

(* Changing a field of the state leaves the others alone. *)
LEMMA StateWithList ==
  ASSUME NEW w, StateOK(w), NEW p \in Lists, Quiet(p)
  PROVE  LET v == [w EXCEPT !.list = p]
         IN  /\ StateOK(v) /\ v.list = p /\ v.page = w.page /\ v.jobs = w.jobs
             /\ v.details = w.details /\ v.create = w.create /\ v.onTab = w.onTab
             /\ v.crashed = w.crashed /\ v.awaits = w.awaits
BY DEF StateOK, StateTypes

LEMMA StateWithDetails ==
  ASSUME NEW w, StateOK(w), NEW d, HasSubject(d)
  PROVE  LET v == [w EXCEPT !.details = d]
         IN  /\ StateOK(v) /\ v.details = d /\ v.page = w.page /\ v.jobs = w.jobs
             /\ v.list = w.list /\ v.create = w.create /\ v.onTab = w.onTab
             /\ v.crashed = w.crashed /\ v.awaits = w.awaits
BY DEF StateOK, StateTypes

LEMMA StateWithCreate ==
  ASSUME NEW w, StateOK(w), NEW c
  PROVE  LET v == [w EXCEPT !.create = c]
         IN  /\ StateOK(v) /\ v.create = c /\ v.page = w.page /\ v.jobs = w.jobs
             /\ v.list = w.list /\ v.details = w.details /\ v.onTab = w.onTab
             /\ v.crashed = w.crashed /\ v.awaits = w.awaits
BY DEF StateOK, StateTypes

LEMMA StateWithJobs ==
  ASSUME NEW w, StateOK(w), NEW js \in Seq(Jobs), OfPage(js, w.page)
  PROVE  LET v == [w EXCEPT !.jobs = js]
         IN  /\ StateOK(v) /\ v.jobs = js /\ v.page = w.page /\ v.create = w.create
             /\ v.list = w.list /\ v.details = w.details /\ v.onTab = w.onTab
             /\ v.crashed = w.crashed /\ v.awaits = w.awaits
BY DEF StateOK, StateTypes

LEMMA StateWithPage ==
  ASSUME NEW w, StateOK(w), NEW shown \in Pages, OfPage(w.jobs, shown)
  PROVE  LET v == [w EXCEPT !.page = shown]
         IN  /\ StateOK(v) /\ v.page = shown /\ v.jobs = w.jobs /\ v.create = w.create
             /\ v.list = w.list /\ v.details = w.details /\ v.onTab = w.onTab
             /\ v.crashed = w.crashed /\ v.awaits = w.awaits
BY DEF StateOK, StateTypes

LEMMA StateWithFlags ==
  ASSUME NEW w, StateOK(w)
  PROVE  /\ StateOK([w EXCEPT !.awaits = TRUE])
         /\ StateOK([w EXCEPT !.crashed = TRUE])
         /\ \A on \in BOOLEAN : StateOK([w EXCEPT !.onTab = on])
BY DEF StateOK, StateTypes

(* Two jobs are the same request, run or asked for again by a page left. *)
Alike(j, k) == /\ k.kind = j.kind /\ k.name = j.name /\ k.result = j.result
               /\ k.version = j.version /\ k.found = j.found
               /\ k.at = "lost" <=> j.at = "lost"
               /\ k.at = "issued" => k = j \/ (j.at = "issued" /\ k.prompt = j.prompt)
Kept(js, ks) == /\ Len(js) <= Len(ks)
                /\ \A i \in DOMAIN js : Alike(js[i], ks[i])

LEMMA KeptSelf ==
  ASSUME NEW js \in Seq(Jobs)
  PROVE  Kept(js, js)
BY DEF Kept, Alike

LEMMA KeptTransitive ==
  ASSUME NEW js \in Seq(Jobs), NEW ks \in Seq(Jobs), NEW ls \in Seq(Jobs),
         Kept(js, ks), Kept(ks, ls)
  PROVE  Kept(js, ls)
<1>1. Len(js) <= Len(ls)
  BY DEF Kept
<1>2. ASSUME NEW i \in DOMAIN js PROVE Alike(js[i], ls[i])
  <2>1. i \in DOMAIN ks
    BY DEF Kept
  <2>2. Alike(js[i], ks[i]) /\ Alike(ks[i], ls[i])
    BY <2>1 DEF Kept
  <2> QED
    BY <2>2 DEF Alike
<1> QED
  BY <1>1, <1>2 DEF Kept

(* A job posted comes last; the others stay as they are. *)
LEMMA PostKeeps ==
  ASSUME NEW w, StateOK(w), NEW job \in Jobs,
         job.by \in {"details", "create"} => w.page = job.by
  PROVE  LET v == Post(w, job)
         IN  /\ StateOK(v) /\ v.jobs = Append(w.jobs, job) /\ Kept(w.jobs, v.jobs)
             /\ Len(v.jobs) = Len(w.jobs) + 1 /\ v.jobs[Len(v.jobs)] = job
             /\ v.page = w.page /\ v.create = w.create
             /\ v.list = w.list /\ v.details = w.details /\ v.onTab = w.onTab
             /\ v.crashed = w.crashed /\ v.awaits = w.awaits
<1> DEFINE js == Append(w.jobs, job)
<1>1. w.jobs \in Seq(Jobs) /\ OfPage(w.jobs, w.page)
  BY DEF StateOK, StateTypes
<1>2. /\ js \in Seq(Jobs) /\ Len(js) = Len(w.jobs) + 1 /\ js[Len(js)] = job
      /\ \A i \in DOMAIN w.jobs : js[i] = w.jobs[i] /\ i \in DOMAIN js
      /\ \A i \in DOMAIN js : i = Len(js) \/ i \in DOMAIN w.jobs
  BY <1>1
<1>3. OfPage(js, w.page)
  BY <1>1, <1>2 DEF OfPage
<1>4. Kept(w.jobs, js)
  BY <1>1, <1>2 DEF Kept, Alike
<1>5. Post(w, job) = [w EXCEPT !.jobs = js]
  BY DEF Post
<1> HIDE DEF js
<1>6. LET v == [w EXCEPT !.jobs = js]
      IN  /\ StateOK(v) /\ v.jobs = js /\ v.page = w.page /\ v.create = w.create
          /\ v.list = w.list /\ v.details = w.details /\ v.onTab = w.onTab
          /\ v.crashed = w.crashed /\ v.awaits = w.awaits
  BY <1>2, <1>3, StateWithJobs
<1> QED
  BY <1>2, <1>4, <1>5, <1>6 DEF js

(* The jobs of a page that is left belong to no page. *)
Left(js, shown) ==
  [i \in DOMAIN js |-> IF js[i].by = shown /\ shown # "list"
                       THEN [js[i] EXCEPT !.by = "none"] ELSE js[i]]
Detached(js) == \A i \in DOMAIN js : js[i].by \notin {"details", "create"}

LEMMA LeftKeeps ==
  ASSUME NEW js \in Seq(Jobs), NEW shown \in Pages, OfPage(js, shown)
  PROVE  /\ Left(js, shown) \in Seq(Jobs) /\ Len(Left(js, shown)) = Len(js)
         /\ Kept(js, Left(js, shown)) /\ Detached(Left(js, shown))
<1>1. Len(js) \in Nat /\ DOMAIN js = 1..Len(js)
  OBVIOUS
<1>2. ASSUME NEW i \in DOMAIN js
      PROVE  /\ Left(js, shown)[i] \in Jobs /\ Alike(js[i], Left(js, shown)[i])
             /\ Left(js, shown)[i].by \notin {"details", "create"}
  <2>1. js[i] \in Jobs
    OBVIOUS
  <2>2. CASE js[i].by = shown /\ shown # "list"
    <3> DEFINE k == [js[i] EXCEPT !.by = "none"]
    <3>1. Left(js, shown)[i] = k
      BY <2>2 DEF Left
    <3>2. k \in Jobs /\ k.by = "none" /\ Alike(js[i], k)
      BY <2>1 DEF Jobs, JobTypes, JobOK, Alike
    <3> HIDE DEF k
    <3> QED
      BY <3>1, <3>2
  <2>3. CASE ~(js[i].by = shown /\ shown # "list")
    <3>1. Left(js, shown)[i] = js[i]
      BY <2>3 DEF Left
    <3> QED
      BY <2>1, <2>3, <3>1 DEF OfPage, Alike
  <2> QED
    BY <2>2, <2>3
<1>3. DOMAIN Left(js, shown) = 1..Len(js)
  BY <1>1 DEF Left
<1>4. Left(js, shown) = [i \in 1..Len(js) |-> Left(js, shown)[i]]
  BY <1>1 DEF Left
<1>5. Left(js, shown) \in Seq(Jobs) /\ Len(Left(js, shown)) = Len(js)
  BY <1>1, <1>2, <1>3, <1>4
<1> QED
  BY <1>1, <1>2, <1>3, <1>5 DEF Kept, Detached

(* Deletions of a list page made anew are run. *)
RenewedJobs(p, js) == [i \in DOMAIN js |-> Orphaned(p, js[i])]

LEMMA RunKeeps ==
  ASSUME NEW p \in Lists, NEW j \in Jobs, j.at = "issued"
  PROVE  Run(p, j) \in Jobs /\ Alike(j, Run(p, j)) /\ Run(p, j).at = "sent" /\ Run(p, j).by = j.by
<1>1. p.tab \in Tabs
  BY ListFields
<1> QED
  BY <1>1 DEF Run, Permanent, Jobs, JobTypes, JobOK, Alike, Tabs

LEMMA OrphanedKeeps ==
  ASSUME NEW p \in Lists, NEW j \in Jobs
  PROVE  /\ Orphaned(p, j) \in Jobs /\ Alike(j, Orphaned(p, j))
         /\ Orphaned(p, j).by \in {j.by, "none"}
<1> DEFINE k == IF j.at = "issued" THEN Run(p, j) ELSE j
           l == [k EXCEPT !.by = IF k.by = "list" THEN "none" ELSE k.by]
<1>1. k \in Jobs /\ Alike(j, k) /\ k.at # "issued" /\ k.by = j.by
  BY RunKeeps DEF Alike
<1>2. Orphaned(p, j) = l
  BY DEF Orphaned
<1> HIDE DEF k
<1>3. l \in Jobs /\ Alike(j, l) /\ l.by \in {j.by, "none"}
  BY <1>1 DEF Jobs, JobTypes, JobOK, Alike
<1> QED
  BY <1>2, <1>3

LEMMA RenewedKeeps ==
  ASSUME NEW p \in Lists, NEW js \in Seq(Jobs), Detached(js)
  PROVE  LET ks == RenewedJobs(p, js)
         IN  ks \in Seq(Jobs) /\ Len(ks) = Len(js) /\ Kept(js, ks) /\ Detached(ks)
<1> DEFINE ks == RenewedJobs(p, js)
<1>1. Len(js) \in Nat /\ DOMAIN js = 1..Len(js)
  OBVIOUS
<1>2. ASSUME NEW i \in DOMAIN js
      PROVE  /\ ks[i] \in Jobs /\ Alike(js[i], ks[i]) /\ ks[i].by \notin {"details", "create"}
  <2>1. js[i] \in Jobs /\ ks[i] = Orphaned(p, js[i])
    BY DEF RenewedJobs
  <2> QED
    BY <2>1, OrphanedKeeps DEF Detached
<1>3. DOMAIN ks = 1..Len(js) /\ ks = [i \in 1..Len(js) |-> ks[i]]
  BY <1>1 DEF RenewedJobs
<1> HIDE DEF ks
<1>4. ks \in Seq(Jobs) /\ Len(ks) = Len(js)
  BY <1>1, <1>2, <1>3
<1> QED
  BY <1>1, <1>2, <1>3, <1>4 DEF Kept, Detached, ks

LEMMA NewJobs ==
  ASSUME NEW kind \in Kinds \ {"delete"}, NEW name \in Names, NEW by \in Pages
  PROVE  /\ Job(kind, name, by) \in Jobs /\ Job(kind, name, by).by = by
         /\ Job(kind, name, by).at = "sent"
BY DEF Job, Jobs, JobTypes, JobOK

LEMMA NoDetailsHasSubject == HasSubject(NoDetails)
BY DEF HasSubject, NoDetails, DetailsPage, Selectable

LEMMA NewListPageOK == NewListPage \in Lists /\ Quiet(NewListPage)
<1>1. NewBars \in Bars /\ NewBars.del \in DelType
  BY BarsAssumption DEF NewBars, Bars, DelType
<1>2. IsOpen(NewBars) /\ ~NewBars.del.active
  BY DEF NewBars, IsOpen
<1> HIDE DEF NewBars
<1> QED
  BY <1>1, <1>2, ListFields DEF NewListPage, ListStates, Tabs, Quiet

(* What stays as it is, or nearly so, when a page is left for another. *)
Follows(w, v) ==
  /\ StateOK(v)
  /\ v.onTab = w.onTab /\ v.crashed = w.crashed /\ v.awaits = w.awaits
  /\ Kept(w.jobs, v.jobs)

LEMMA FollowsTransitive ==
  ASSUME NEW u, NEW v, NEW w, StateOK(u), Follows(u, v), Follows(v, w)
  PROVE  Follows(u, w)
<1>1. u.jobs \in Seq(Jobs) /\ v.jobs \in Seq(Jobs) /\ w.jobs \in Seq(Jobs)
  BY DEF Follows, StateOK, StateTypes
<1> QED
  BY <1>1, KeptTransitive DEF Follows

LEMMA LeaveKeeps ==
  ASSUME NEW w, StateOK(w)
  PROVE  LET v == Leave(w)
         IN  /\ Follows(w, v) /\ v.page = w.page /\ v.list = w.list
             /\ Len(v.jobs) = Len(w.jobs) /\ Detached(v.jobs)
<1> DEFINE js == Left(w.jobs, w.page)
           on == w.timers.details \/ w.details.bar.note.autoHide
           v1 == [w EXCEPT !.details = NoDetails]
           v2 == [v1 EXCEPT !.create = CreatePage]
           v3 == [v2 EXCEPT !.timers = [w.timers EXCEPT !.details = on]]
           v4 == [v3 EXCEPT !.jobs = js]
<1>0. w.jobs \in Seq(Jobs) /\ w.page \in Pages /\ OfPage(w.jobs, w.page)
  BY DEF StateOK, StateTypes
<1>1. /\ js \in Seq(Jobs) /\ Len(js) = Len(w.jobs) /\ Kept(w.jobs, js) /\ Detached(js)
  BY <1>0, LeftKeeps
<1>2. /\ StateOK(v1) /\ v1.page = w.page /\ v1.jobs = w.jobs /\ v1.list = w.list
      /\ v1.onTab = w.onTab /\ v1.crashed = w.crashed /\ v1.awaits = w.awaits
      /\ v1.timers = w.timers
  <2>1. v1.timers = w.timers
    BY DEF StateOK, StateTypes
  <2> QED
    BY <2>1, NoDetailsHasSubject, StateWithDetails
<1>3. Leave(w) = v4
  BY <1>0, <1>2 DEF Leave, Left, StateOK, StateTypes
<1> HIDE DEF js, v1
<1>4. /\ StateOK(v2) /\ v2.page = w.page /\ v2.jobs = w.jobs /\ v2.list = w.list
      /\ v2.onTab = w.onTab /\ v2.crashed = w.crashed /\ v2.awaits = w.awaits
  BY <1>2, StateWithCreate
<1> HIDE DEF v2
<1>5. /\ StateOK(v3) /\ v3.page = w.page /\ v3.jobs = w.jobs /\ v3.list = w.list
      /\ v3.onTab = w.onTab /\ v3.crashed = w.crashed /\ v3.awaits = w.awaits
  BY <1>4 DEF StateOK, StateTypes
<1> HIDE DEF v3
<1>6. OfPage(js, w.page)
  BY <1>1 DEF OfPage, Detached
<1>7. /\ StateOK(v4) /\ v4.page = w.page /\ v4.jobs = js /\ v4.list = w.list
      /\ v4.onTab = w.onTab /\ v4.crashed = w.crashed /\ v4.awaits = w.awaits
  BY <1>1, <1>5, <1>6, StateWithJobs
<1> QED
  BY <1>1, <1>3, <1>7 DEF Follows

LEMMA RenewKeeps ==
  ASSUME NEW w, StateOK(w), Detached(w.jobs)
  PROVE  LET v == Renew(w)
             job == Job("list", NoItem, "list")
         IN  /\ Follows(w, v) /\ v.page = w.page /\ v.list = NewListPage
             /\ v.jobs = Append(RenewedJobs(w.list, w.jobs), job)
             /\ Len(v.jobs) = Len(w.jobs) + 1 /\ Detached(v.jobs)
<1> DEFINE js == RenewedJobs(w.list, w.jobs)
           job == Job("list", NoItem, "list")
           on == w.timers.list \/ w.list.bars.note.autoHide
           v1 == [w EXCEPT !.list = NewListPage]
           v2 == [v1 EXCEPT !.timers = [w.timers EXCEPT !.list = on]]
           v3 == [v2 EXCEPT !.jobs = js]
<1>0. w.jobs \in Seq(Jobs) /\ w.list \in Lists /\ OfPage(w.jobs, w.page)
  BY DEF StateOK, StateTypes
<1>1. js \in Seq(Jobs) /\ Len(js) = Len(w.jobs) /\ Kept(w.jobs, js) /\ Detached(js)
  BY <1>0, RenewedKeeps
<1>2. /\ StateOK(v1) /\ v1.page = w.page /\ v1.jobs = w.jobs /\ v1.list = NewListPage
      /\ v1.onTab = w.onTab /\ v1.crashed = w.crashed /\ v1.awaits = w.awaits
      /\ v1.timers = w.timers
  <2>1. v1.timers = w.timers
    BY DEF StateOK, StateTypes
  <2> QED
    BY <2>1, NewListPageOK, StateWithList
<1>3. Renew(w) = Post(v3, job)
  BY <1>0, <1>2 DEF Renew, RenewedJobs, StateOK, StateTypes
<1> HIDE DEF js, v1
<1>4. /\ StateOK(v2) /\ v2.page = w.page /\ v2.jobs = w.jobs /\ v2.list = NewListPage
      /\ v2.onTab = w.onTab /\ v2.crashed = w.crashed /\ v2.awaits = w.awaits
  BY <1>2 DEF StateOK, StateTypes
<1> HIDE DEF v2
<1>5. OfPage(js, w.page)
  BY <1>1 DEF OfPage, Detached
<1>6. /\ StateOK(v3) /\ v3.page = w.page /\ v3.jobs = js /\ v3.list = NewListPage
      /\ v3.onTab = w.onTab /\ v3.crashed = w.crashed /\ v3.awaits = w.awaits
  BY <1>1, <1>4, <1>5, StateWithJobs
<1> HIDE DEF v3
<1>7. job \in Jobs /\ job.by = "list"
  BY NewJobs DEF Kinds, Names, Pages
<1> HIDE DEF job
<1> DEFINE v == Post(v3, job)
<1>8. /\ StateOK(v) /\ v.jobs = Append(js, job) /\ Kept(js, v.jobs)
      /\ Len(v.jobs) = Len(w.jobs) + 1
      /\ v.page = w.page /\ v.list = NewListPage
      /\ v.onTab = w.onTab /\ v.crashed = w.crashed /\ v.awaits = w.awaits
  <2>1. job.by \notin {"details", "create"}
    BY <1>7
  <2> HIDE DEF v
  <2>2. /\ StateOK(v) /\ v.jobs = Append(v3.jobs, job) /\ Kept(v3.jobs, v.jobs)
        /\ Len(v.jobs) = Len(v3.jobs) + 1 /\ v.page = v3.page /\ v.list = v3.list
        /\ v.onTab = v3.onTab /\ v.crashed = v3.crashed /\ v.awaits = v3.awaits
    BY <1>6, <1>7, <2>1, PostKeeps DEF v
  <2> QED
    BY <1>1, <1>6, <2>2
<1> HIDE DEF v
<1>9. Kept(w.jobs, v.jobs)
  <2>1. v.jobs \in Seq(Jobs)
    BY <1>8 DEF StateOK, StateTypes
  <2> QED
    BY <1>0, <1>1, <1>8, <2>1, KeptTransitive
<1>10. Detached(v.jobs)
  BY <1>1, <1>7, <1>8 DEF Detached
<1> QED
  BY <1>3, <1>8, <1>9, <1>10 DEF Follows, v, js, job

IsOther == IsListMessage(Message("other")) /\ Message("other").type = "other"
LEMMA OtherIsMessage == IsOther
BY DEF IsOther, IsListMessage, IsMessage, Message

LEMMA BackKeeps ==
  ASSUME NEW w, StateOK(w), NEW refresh
  PROVE  LET v == Back(w, refresh)
             p == IF refresh /\ w.page # "list" THEN NewListPage ELSE w.list
         IN  /\ Follows(w, v) /\ v.page = "list"
             /\ v.list = ListUpdate(p, Message("other"), NoSubject).next
             /\ \/ Len(v.jobs) = Len(w.jobs)
                \/ /\ Len(v.jobs) = Len(w.jobs) + 1
                   /\ v.jobs[Len(v.jobs)].at = "sent"
<1> DEFINE left == Leave(w)
           u == IF refresh /\ w.page # "list" THEN Renew(left) ELSE left
           p == IF refresh /\ w.page # "list" THEN NewListPage ELSE w.list
           q == ListUpdate(u.list, Message("other"), NoSubject).next
           u1 == [u EXCEPT !.page = "list"]
           v == [u1 EXCEPT !.list = q]
<1>1. Follows(w, left) /\ left.list = w.list /\ Len(left.jobs) = Len(w.jobs)
      /\ Detached(left.jobs) /\ StateOK(left)
  BY LeaveKeeps DEF Follows
<1> HIDE DEF left
<1>2. /\ Follows(w, u) /\ u.list = p /\ Detached(u.jobs)
      /\ \/ Len(u.jobs) = Len(w.jobs)
         \/ Len(u.jobs) = Len(w.jobs) + 1 /\ u.jobs[Len(u.jobs)].at = "sent"
  <2>1. CASE refresh /\ w.page # "list"
    <3> DEFINE job == Job("list", NoItem, "list")
               js == RenewedJobs(left.list, left.jobs)
    <3>1. /\ Follows(left, Renew(left)) /\ Renew(left).list = NewListPage
          /\ Len(Renew(left).jobs) = Len(w.jobs) + 1 /\ Detached(Renew(left).jobs)
          /\ Renew(left).jobs = Append(js, job)
      BY <1>1, RenewKeeps
    <3>2. js \in Seq(Jobs) /\ job.at = "sent"
      <4>1. left.jobs \in Seq(Jobs) /\ left.list \in Lists
        BY <1>1 DEF StateOK, StateTypes
      <4> QED
        BY <1>1, <4>1, RenewedKeeps DEF Job
    <3> HIDE DEF js, job
    <3>3. Renew(left).jobs[Len(Renew(left).jobs)] = job
      BY <3>1, <3>2
    <3> QED
      BY <1>1, <2>1, <3>1, <3>2, <3>3, FollowsTransitive
  <2>2. CASE ~(refresh /\ w.page # "list")
    BY <1>1, <2>2
  <2> QED
    BY <2>1, <2>2
<1>3. Back(w, refresh) = v
  <2>1. u \in StateTypes(u)
    BY <1>2 DEF Follows, StateOK
  <2> HIDE DEF u
  <2>2. u1.list = u.list
    BY <2>1 DEF StateTypes
  <2> QED
    BY <2>2 DEF Back, left, u
<1> HIDE DEF u
<1>4. /\ StateOK(u1) /\ u1.page = "list" /\ u1.jobs = u.jobs /\ u1.list = u.list
      /\ u1.onTab = w.onTab /\ u1.crashed = w.crashed /\ u1.awaits = w.awaits
  <2>1. OfPage(u.jobs, "list") /\ "list" \in Pages
    BY <1>2 DEF OfPage, Detached, Pages
  <2> QED
    BY <1>2, <2>1, StateWithPage DEF Follows
<1>5. q \in Lists /\ Quiet(q)
  <2>1. u.list \in Lists /\ Quiet(u.list)
    BY <1>2 DEF Follows, StateOK, StateTypes
  <2> QED
    BY <2>1, OtherIsMessage, ListUpdateKeeps DEF IsOther, Selectable
<1> HIDE DEF u1
<1>6. q = ListUpdate(p, Message("other"), NoSubject).next
  BY <1>2
<1> HIDE DEF q, p
<1>7. /\ StateOK(v) /\ v.page = "list" /\ v.jobs = u.jobs /\ v.list = q
      /\ v.onTab = w.onTab /\ v.crashed = w.crashed /\ v.awaits = w.awaits
  BY <1>4, <1>5, StateWithList
<1> QED
  BY <1>2, <1>3, <1>6, <1>7 DEF Follows, p

(* The page of a subject stays the page of that subject. *)
LEMMA SubjectKept ==
  ASSUME NEW d, HasSubject(d), NEW x
  PROVE  /\ HasSubject([d EXCEPT !.selected = x]) /\ HasSubject([d EXCEPT !.shown = x])
         /\ HasSubject([d EXCEPT !.schemas = x]) /\ HasSubject([d EXCEPT !.updated = x])
         /\ HasSubject([d EXCEPT !.chips = x]) /\ HasSubject([d EXCEPT !.drawn = x])
         /\ HasSubject([d EXCEPT !.anyDeleted = x]) /\ HasSubject([d EXCEPT !.bar = x])
         /\ HasSubject([d EXCEPT !.stray = x])
BY DEF HasSubject

LEMMA WithChipsKeeps ==
  ASSUME NEW d, HasSubject(d)
  PROVE  HasSubject(WithChips(d))
<1> DEFINE labels == ChipsOf(d.schemas)
           at == SelectInSeq(labels, LAMBDA v : v = d.shown.version)
           selected == IF at = 0 THEN 1 ELSE at
           e == [d EXCEPT !.chips = labels]
<1>1. WithChips(d) = [e EXCEPT !.selected = selected]
  BY DEF WithChips
<1>2. HasSubject(e)
  BY SubjectKept
<1> HIDE DEF e, selected
<1>3. HasSubject([e EXCEPT !.selected = selected])
  BY <1>2, SubjectKept
<1> QED
  BY <1>1, <1>3, Zenon

LEMMA DrawnKeeps ==
  ASSUME NEW d, HasSubject(d)
  PROVE  HasSubject(Drawn(d))
<1> DEFINE drawn == [d EXCEPT !.drawn = TRUE]
           first == IF d.drawn THEN d ELSE WithChips(drawn)
           e == [d EXCEPT !.chips = <<>>]
           f == [first EXCEPT !.schemas = d.updated]
<1>1. HasSubject(drawn) /\ HasSubject(e)
  BY SubjectKept
<1> HIDE DEF drawn
<1>2. HasSubject(first)
  BY <1>1, WithChipsKeeps
<1>3. HasSubject(f)
  BY <1>2, SubjectKept
<1>4. HasSubject([e EXCEPT !.selected = 1])
  BY <1>1, SubjectKept
<1>5. HasSubject(WithChips(f))
  BY <1>3, WithChipsKeeps
<1>6. Drawn(d) \in {[e EXCEPT !.selected = 1], WithChips(f), first}
  BY DEF Drawn, drawn
<1> HIDE DEF first, e, f
<1> QED
  BY <1>2, <1>4, <1>5, <1>6

LEMMA WithoutKeeps ==
  ASSUME NEW d, HasSubject(d), NEW v
  PROVE  HasSubject(Without(d, v))
<1> DEFINE at == SelectInSeq(d.schemas, LAMBDA s : s.version = v)
           left == RemoveAt(d.schemas, at)
           e == [d EXCEPT !.updated = left]
           f == IF at = 0 THEN d ELSE [e EXCEPT !.schemas = Append(left, NoSchema)]
<1>1. HasSubject(e)
  BY SubjectKept
<1>2. Without(d, v) = [f EXCEPT !.anyDeleted = TRUE]
  BY DEF Without, Shortened
<1> HIDE DEF e, at, left
<1>3. HasSubject(f)
  BY <1>1, SubjectKept
<1> HIDE DEF f
<1>4. HasSubject([f EXCEPT !.anyDeleted = TRUE])
  BY <1>3, SubjectKept
<1> QED
  BY <1>2, <1>4, Zenon

LEMMA DetailsUpdateKeeps ==
  ASSUME NEW d, HasSubject(d), NEW msg
  PROVE  HasSubject(DetailsUpdate(d, msg).next)
<1> DEFINE c == Chosen(d, msg)
           r == DetailsReceived(c, msg)
           o == BarUpdate(r.bar, msg, Label(r))
           e == [r EXCEPT !.bar = o.next]
<1>1. HasSubject(c)
  BY SubjectKept DEF Chosen
<1>2. DetailsUpdate(d, msg) = AfterChoice(c, msg)
  BY DEF DetailsUpdate
<1> HIDE DEF c
<1>3. HasSubject(r)
  <2>1. CASE msg.type = "removed"
    BY <1>1, <2>1, WithoutKeeps DEF DetailsReceived, IsKey
  <2>2. CASE IsKey(msg, "enter") /\ c.bar.active = "none"
    BY <1>1, <2>2, SubjectKept DEF DetailsReceived
  <2>3. CASE ~IsKey(msg, "enter") /\ msg.type = "versionsListed"
    <3> DEFINE x == ByVersion(msg.schemas)
               y == IF msg.schemas = <<>> THEN NoSchema ELSE Last(x)
               l == [c EXCEPT !.schemas = x]
    <3>1. r = [l EXCEPT !.shown = y]
      BY <2>3 DEF DetailsReceived
    <3>2. HasSubject(l)
      BY <1>1, SubjectKept
    <3> HIDE DEF l, y, r
    <3> QED
      BY <3>1, <3>2, SubjectKept
  <2>4. CASE r = c
    BY <1>1, <2>4
  <2> QED
    BY <2>1, <2>2, <2>3, <2>4 DEF DetailsReceived, IsKey
<1>4. DetailsUpdate(d, msg).next \in {c, e, Drawn(e)}
  BY <1>2 DEF AfterChoice, ToDetailsBar, WithBar, Does
<1> HIDE DEF r, o
<1>5. HasSubject(e)
  BY <1>3, SubjectKept
<1> HIDE DEF e
<1> QED
  BY <1>1, <1>4, <1>5, DrawnKeeps

(* The rows change only as the message says.  *)
SubjectsAfter(p, msg) ==
  IF IsKey(msg, "f5") THEN {}
  ELSE IF msg.type = "listed" /\ msg.found # {} THEN msg.found
  ELSE IF msg.type = "deleted" THEN {s \in p.subjects : s.name # msg.name}
  ELSE p.subjects

LEMMA ReceivedSubjects ==
  ASSUME NEW p \in Lists, NEW msg, ~IsKey(msg, "f5")
  PROVE  Received(p, msg).subjects = SubjectsAfter(p, msg)
<1>1. p \in [state : ListStates, subjects : SUBSET Subjects, visible : SUBSET Subjects,
             tab : Tabs, bars : Bars, hard : DelType]
  BY ListFields
<1>2. CASE IsKey(msg, "tab")
  <2> DEFINE q == [p EXCEPT !.tab = IF p.tab = "active" THEN "deleted" ELSE "active"]
             r == [q EXCEPT !.bars = HideBars(ResetSearch(q.bars))]
             s == [r EXCEPT !.hard = [r.hard EXCEPT !.active = FALSE]]
  <2>1. Received(p, msg) = s
    BY <1>2 DEF Received, NextTab, ResetTcb
  <2>2. s.subjects = p.subjects
    BY <1>1
  <2> QED
    BY <1>2, <2>1, <2>2 DEF SubjectsAfter, IsKey
<1>3. CASE ~IsKey(msg, "tab") /\ msg.type = "listed"
  BY <1>1, <1>3 DEF Received, Listed, SubjectsAfter
<1>4. CASE ~IsKey(msg, "tab") /\ msg.type = "deleted"
  BY <1>1, <1>4 DEF Received, Removed, SubjectsAfter
<1>5. CASE ~IsKey(msg, "tab") /\ msg.type \notin {"listed", "deleted"}
  BY <1>1, <1>5 DEF Received, SubjectsAfter
<1> QED
  BY <1>2, <1>3, <1>4, <1>5

LEMMA ListUpdateSubjects ==
  ASSUME NEW p \in Lists, Quiet(p), NEW msg, IsListMessage(msg), NEW sel \in Selectable
  PROVE  ListUpdate(p, msg, sel).next.subjects = SubjectsAfter(p, msg)
<1>1. CASE IsKey(msg, "f5")
  <2>1. p \in [state : ListStates, subjects : SUBSET Subjects, visible : SUBSET Subjects,
               tab : Tabs, bars : Bars, hard : DelType]
    BY ListFields
  <2> QED
    BY <1>1, <2>1 DEF ListUpdate, Refresh, Does, SubjectsAfter
<1>2. CASE ~IsKey(msg, "f5") /\ ListUpdate(p, msg, sel).next = p /\ msg.type = "key"
  BY <1>2 DEF SubjectsAfter
<1>3. CASE ~IsKey(msg, "f5") /\ ListUpdate(p, msg, sel) = ToBarsAndRows(p, msg, sel)
  <2> DEFINE r == Received(p, msg)
             o == TcbUpdate(r, msg, sel)
             q == [o.next EXCEPT !.visible = Visible(o.next)]
  <2>1. r \in Lists /\ Quiet(r) /\ r.subjects = SubjectsAfter(p, msg)
    BY <1>3, ReceivedKeeps, ReceivedSubjects
  <2>2. ListUpdate(p, msg, sel).next = q
    BY <1>3 DEF ToBarsAndRows, WithRows, Does
  <2> HIDE DEF r
  <2>3. o.next \in Lists /\ o.next.subjects = r.subjects
    BY <2>1, TcbUpdateKeeps DEF IsListMessage
  <2> HIDE DEF o
  <2>4. q.subjects = o.next.subjects
    BY <2>3, ListFields
  <2> QED
    BY <2>1, <2>2, <2>3, <2>4
<1> QED
  BY <1>1, <1>2, <1>3 DEF ListUpdate, Does, IsKey

-----------------------------------------------------------------------------
(* The commands performed.                                                 *)

LEMMA OpenKeeps ==
  ASSUME NEW w, StateOK(w), w.page = "list", NEW s \in Subjects
  PROVE  LET v == Open(w, s)
         IN  /\ Follows(w, v) /\ v.list = w.list /\ Len(v.jobs) = Len(w.jobs) + 1
             /\ v.jobs[Len(v.jobs)].at = "sent"
<1> DEFINE found == {Schema(s.name, v) : v \in s.versions}
           plain == Job("versions", s.name, "details")
           job == [plain EXCEPT !.found = found]
           w1 == [w EXCEPT !.page = "details"]
           w2 == [w1 EXCEPT !.details = DetailsPage(s)]
<1>1. found \subseteq Schemas
  BY DEF Subjects, Schema, Schemas
<1> HIDE DEF found
<1>2. job \in Jobs /\ job.by = "details" /\ job.at = "sent"
  <2>1. s.name \in Names
    BY DEF Names, Subjects
  <2>2. plain \in Jobs /\ plain.by = "details" /\ plain.at = "sent"
    BY <2>1, NewJobs DEF Kinds, Pages
  <2>3. plain.kind = "versions"
    BY DEF Job
  <2> HIDE DEF plain
  <2> QED
    BY <1>1, <2>2, <2>3 DEF Jobs, JobTypes, JobOK
<1>3. Open(w, s) = Post(w2, job)
  BY DEF Open, found
<1> HIDE DEF job
<1>4. OfPage(w.jobs, "details")
  BY DEF StateOK, OfPage
<1>5. /\ StateOK(w1) /\ w1.page = "details" /\ w1.jobs = w.jobs /\ w1.list = w.list
      /\ w1.onTab = w.onTab /\ w1.crashed = w.crashed /\ w1.awaits = w.awaits
  BY <1>4, StateWithPage DEF Pages
<1> HIDE DEF w1
<1>6. HasSubject(DetailsPage(s))
  BY DEF HasSubject, DetailsPage, Selectable
<1>7. /\ StateOK(w2) /\ w2.page = "details" /\ w2.jobs = w.jobs /\ w2.list = w.list
      /\ w2.onTab = w.onTab /\ w2.crashed = w.crashed /\ w2.awaits = w.awaits
  BY <1>5, <1>6, StateWithDetails
<1> HIDE DEF w2
<1> QED
  BY <1>2, <1>3, <1>7, PostKeeps DEF Follows

(* What a command makes of the state: it may end the program, post a job or *)
(* show another page.                                                       *)
Performed(w, v) ==
  /\ StateOK(v) /\ v.onTab = w.onTab /\ Kept(w.jobs, v.jobs)
  /\ Len(v.jobs) \in {Len(w.jobs), Len(w.jobs) + 1}

LEMMA FollowsPerformed ==
  ASSUME NEW w, NEW v, Follows(w, v), Len(v.jobs) \in {Len(w.jobs), Len(w.jobs) + 1}
  PROVE  Performed(w, v)
BY DEF Follows, Performed

LEMMA PostFollows ==
  ASSUME NEW w, StateOK(w), NEW job \in Jobs,
         job.by \in {"details", "create"} => w.page = job.by
  PROVE  LET v == Post(w, job)
         IN  /\ Follows(w, v) /\ v.list = w.list /\ v.page = w.page
             /\ Len(v.jobs) = Len(w.jobs) + 1 /\ v.jobs[Len(v.jobs)] = job
BY PostKeeps DEF Follows

LEMMA StateFollows ==
  ASSUME NEW w, StateOK(w)
  PROVE  Follows(w, w)
<1>1. w.jobs \in Seq(Jobs)
  BY DEF StateOK, StateTypes
<1> QED
  BY <1>1, KeptSelf DEF Follows

(* The prompt that a deletion comes from. *)
PromptedBy(p, job) ==
  IF job.prompt = "hard"
  THEN p.hard.active /\ p.hard.affirmed /\ p.hard.value = job.name
  ELSE /\ p.bars.active = "delete" /\ ~p.hard.active
       /\ p.bars.del.affirmed /\ p.bars.del.value = job.name
       /\ job.prompt = p.tab

(* A new job is that of a deletion to be run only if a prompt asked for it. *)
Issued(w, v) == Len(v.jobs) > Len(w.jobs) /\ v.jobs[Len(v.jobs)].at = "issued"

LEMMA BackPerformed ==
  ASSUME NEW w, StateOK(w), NEW refresh
  PROVE  LET v == Back(w, refresh)
         IN  Performed(w, v) /\ v.crashed = w.crashed /\ ~Issued(w, v)
<1> DEFINE v == Back(w, refresh)
<1>1. /\ Follows(w, v)
      /\ \/ Len(v.jobs) = Len(w.jobs)
         \/ Len(v.jobs) = Len(w.jobs) + 1 /\ v.jobs[Len(v.jobs)].at = "sent"
  BY BackKeeps
<1>2. Len(w.jobs) \in Nat
  BY DEF StateOK, StateTypes
<1> QED
  BY <1>1, <1>2 DEF Follows, Performed, Issued

(* The deletion a prompt asks for. *)
Deletion(t, prompt) ==
  [Job("delete", t, "list") EXCEPT !.at = "issued", !.prompt = prompt]

LEMMA DeletionPosted ==
  ASSUME NEW w, StateOK(w), NEW t \in Items, NEW prompt \in Tabs \cup {"hard"}
  PROVE  LET v == Post(w, Deletion(t, prompt))
         IN  /\ Performed(w, v) /\ v.crashed = w.crashed /\ v.list = w.list
             /\ v.jobs[Len(v.jobs)].name = t /\ v.jobs[Len(v.jobs)].prompt = prompt
<1> DEFINE job == Deletion(t, prompt)
<1>1. job \in Jobs /\ job.by = "list" /\ job.name = t /\ job.prompt = prompt
  <2> DEFINE plain == Job("delete", t, "list")
             sent == [plain EXCEPT !.at = "issued"]
  <2>1. plain \in JobTypes
    BY DEF Job, JobTypes, Kinds, Names, Pages
  <2>2. /\ plain.kind = "delete" /\ plain.result = "open" /\ ~plain.permanent
        /\ plain.by = "list" /\ plain.name = t
    BY DEF Job
  <2>3. job = [sent EXCEPT !.prompt = prompt]
    BY DEF Deletion
  <2> HIDE DEF plain
  <2>4. /\ sent \in JobTypes /\ sent.kind = "delete" /\ sent.result = "open"
        /\ ~sent.permanent /\ sent.by = "list" /\ sent.name = t /\ sent.at = "issued"
    BY <2>1, <2>2 DEF JobTypes
  <2> HIDE DEF sent, job
  <2> QED
    BY <2>3, <2>4 DEF Jobs, JobTypes, JobOK
<1>2. job.by \notin {"details", "create"}
  BY <1>1
<1> HIDE DEF job
<1>3. LET v == Post(w, job)
      IN  /\ Follows(w, v) /\ v.list = w.list /\ v.page = w.page
          /\ Len(v.jobs) = Len(w.jobs) + 1 /\ v.jobs[Len(v.jobs)] = job
  BY <1>1, <1>2, PostFollows
<1> QED
  BY <1>1, <1>3 DEF Follows, Performed, job

LEMMA SentPosted ==
  ASSUME NEW w, StateOK(w), NEW job \in Jobs, job.at = "sent",
         job.by \in {"details", "create"} => w.page = job.by
  PROVE  LET v == Post(w, job)
         IN  Performed(w, v) /\ v.crashed = w.crashed /\ ~Issued(w, v) /\ v.list = w.list
<1>1. LET v == Post(w, job)
      IN  /\ Follows(w, v) /\ v.list = w.list /\ v.page = w.page
          /\ Len(v.jobs) = Len(w.jobs) + 1 /\ v.jobs[Len(v.jobs)] = job
  BY PostFollows
<1> QED
  BY <1>1 DEF Follows, Performed, Issued

LEMMA PerformList ==
  ASSUME NEW w, StateOK(w), w.page = "list", NEW p, p.tab = w.list.tab,
         NEW sel \in Selectable, NEW c, ListCommand(p, sel, c)
  PROVE  LET v == Perform(w, c)
         IN  /\ Performed(w, v) /\ v.list = w.list
             /\ Issued(w, v) => PromptedBy(p, v.jobs[Len(v.jobs)])
<1>0. w.jobs \in Seq(Jobs) /\ w.list.tab \in Tabs
  <2>1. w.list \in Lists /\ w.jobs \in Seq(Jobs)
    BY DEF StateOK, StateTypes
  <2> QED
    BY <2>1, ListFields
<1>1. CASE c = Cmd("list", NoItem)
  <2> DEFINE job == Job("list", NoItem, "list")
  <2>1. job \in Jobs /\ job.at = "sent" /\ job.by = "list"
    BY NewJobs DEF Kinds, Names, Pages
  <2>2. Perform(w, c) = Post(w, job)
    BY <1>1 DEF Perform, Cmd
  <2>3. job.by \notin {"details", "create"}
    BY <2>1
  <2> HIDE DEF job
  <2> QED
    BY <2>1, <2>2, <2>3, SentPosted
<1>2. CASE c = Cmd("create", NoItem)
  <2> DEFINE v == [w EXCEPT !.page = "create"]
  <2>1. Perform(w, c) = v
    BY <1>2 DEF Perform, Cmd
  <2>2. OfPage(w.jobs, "create")
    BY DEF OfPage, StateOK
  <2>3. /\ StateOK(v) /\ v.jobs = w.jobs /\ v.onTab = w.onTab /\ v.crashed = w.crashed
        /\ v.list = w.list
    BY <2>2, StateWithPage DEF Pages
  <2> HIDE DEF v
  <2> QED
    BY <1>0, <2>1, <2>3, KeptSelf DEF Performed, Issued
<1>3. CASE c = Cmd("open", sel) /\ sel # NoSubject
  <2>1. Perform(w, c) = Open(w, sel)
    BY <1>3 DEF Perform, Cmd
  <2>2. sel \in Subjects
    BY <1>3 DEF Selectable
  <2>3. LET v == Open(w, sel)
        IN  /\ Follows(w, v) /\ v.list = w.list /\ Len(v.jobs) = Len(w.jobs) + 1
            /\ v.jobs[Len(v.jobs)].at = "sent"
    BY <2>2, OpenKeeps
  <2> QED
    BY <2>1, <2>3 DEF Follows, Performed, Issued
<1>4. CASE c = Cmd("crash", NoItem) /\ CanOpen(p) /\ sel = NoSubject
  <2> DEFINE v == [w EXCEPT !.crashed = TRUE]
  <2>1. Perform(w, c) = v
    BY <1>4 DEF Perform, Cmd
  <2>2. StateOK(v) /\ v.jobs = w.jobs /\ v.onTab = w.onTab /\ v.list = w.list
    BY StateWithFlags DEF StateOK, StateTypes
  <2> HIDE DEF v
  <2> QED
    BY <1>0, <1>4, <2>1, <2>2, KeptSelf DEF Performed, Issued
<1>5. ASSUME NEW t \in Items, Deletes(p, c, t)
      PROVE  LET v == Perform(w, c)
             IN  /\ Performed(w, v) /\ v.list = w.list /\ v.crashed = w.crashed
                 /\ PromptedBy(p, v.jobs[Len(v.jobs)])
  <2>1. CASE c = Cmd("delete", t)
    <3>1. Perform(w, c) = Post(w, Deletion(t, w.list.tab))
      BY <2>1 DEF Perform, Cmd, Deletion
    <3>2. /\ ~p.hard.active /\ p.bars.active = "delete"
          /\ p.bars.del.affirmed /\ p.bars.del.value = t
      BY <1>5, <2>1 DEF Deletes, Cmd
    <3>3. w.list.tab # "hard"
      BY <1>0 DEF Tabs
    <3>4. LET v == Perform(w, c)
          IN  /\ Performed(w, v) /\ v.crashed = w.crashed /\ v.list = w.list
              /\ v.jobs[Len(v.jobs)].name = t /\ v.jobs[Len(v.jobs)].prompt = w.list.tab
      BY <1>0, <3>1, DeletionPosted
    <3> QED
      BY <3>2, <3>3, <3>4 DEF PromptedBy
  <2>2. CASE c = Cmd("hardDelete", t)
    <3>1. Perform(w, c) = Post(w, Deletion(t, "hard"))
      BY <2>2 DEF Perform, Cmd, Deletion
    <3>2. p.hard.active /\ p.hard.affirmed /\ p.hard.value = t
      BY <1>5, <2>2 DEF Deletes, Cmd
    <3>4. LET v == Perform(w, c)
          IN  /\ Performed(w, v) /\ v.crashed = w.crashed /\ v.list = w.list
              /\ v.jobs[Len(v.jobs)].name = t /\ v.jobs[Len(v.jobs)].prompt = "hard"
      BY <3>1, DeletionPosted
    <3> QED
      BY <3>2, <3>4 DEF PromptedBy
  <2> QED
    BY <1>5, <2>1, <2>2 DEF Deletes
<1> QED
  BY <1>1, <1>2, <1>3, <1>4, <1>5 DEF ListCommand

(* What the page of a subject and the form ask for. *)
LEMMA PerformDetails ==
  ASSUME NEW w, StateOK(w), w.page = "details", NEW d, NEW c, DetailsCommand(d, c)
  PROVE  LET v == Perform(w, c)
         IN  /\ Performed(w, v) /\ ~Issued(w, v)
<1>0. w.jobs \in Seq(Jobs)
  BY DEF StateOK, StateTypes
<1>1. CASE c = Cmd("crash", 0)
  <2> DEFINE v == [w EXCEPT !.crashed = TRUE]
  <2>1. Perform(w, c) = v /\ c.cmd = "crash"
    BY <1>1 DEF Perform, Cmd
  <2>2. StateOK(v) /\ v.jobs = w.jobs /\ v.onTab = w.onTab
    BY StateWithFlags DEF StateOK, StateTypes
  <2> HIDE DEF v
  <2> QED
    BY <1>0, <2>1, <2>2, KeptSelf DEF Performed, Issued
<1>2. CASE c = Cmd("copy", 0)
  <2> DEFINE job == Job("copy", NoItem, "details")
  <2>1. job \in Jobs /\ job.at = "sent" /\ job.by = "details"
    BY NewJobs DEF Kinds, Names, Pages
  <2>2. Perform(w, c) = Post(w, job)
    BY <1>2 DEF Perform, Cmd
  <2> HIDE DEF job
  <2> QED
    BY <2>1, <2>2, SentPosted
<1>3. ASSUME NEW on, c = Cmd("back", on)
      PROVE  LET v == Perform(w, c)
             IN  Performed(w, v) /\ ~Issued(w, v) /\ v.crashed = w.crashed
  <2>1. Perform(w, c) = Back(w, on)
    BY <1>3 DEF Perform, Cmd
  <2> QED
    BY <2>1, BackPerformed
<1>4. ASSUME NEW n \in Int, c = Cmd("remove", n)
      PROVE  LET v == Perform(w, c)
             IN  Performed(w, v) /\ ~Issued(w, v) /\ v.crashed = w.crashed
  <2> DEFINE plain == Job("remove", w.details.subject.name, "details")
             job == [plain EXCEPT !.version = n]
  <2>1. Perform(w, c) = Post(w, job)
    BY <1>4 DEF Perform, Cmd
  <2>2. w.details.subject.name \in Names
    <3>1. w.details.subject \in Selectable
      BY DEF StateOK, HasSubject
    <3> QED
      BY <3>1 DEF Selectable, Names, Subjects
  <2>3. /\ plain \in Jobs /\ plain.by = "details" /\ plain.at = "sent" /\ plain.kind = "remove"
    <3>1. plain \in Jobs /\ plain.by = "details" /\ plain.at = "sent"
      BY <2>2, NewJobs DEF Kinds, Pages
    <3> QED
      BY <3>1 DEF Job
  <2> HIDE DEF plain
  <2>4. job \in Jobs /\ job.by = "details" /\ job.at = "sent"
    BY <2>3 DEF Jobs, JobTypes, JobOK
  <2> HIDE DEF job
  <2> QED
    BY <2>1, <2>4, SentPosted
<1> QED
  BY <1>1, <1>2, <1>3, <1>4 DEF DetailsCommand

LEMMA PerformRegister ==
  ASSUME NEW w, StateOK(w), w.page = "create", NEW t \in Items
  PROVE  LET v == Perform(w, Cmd("register", t))
         IN  Performed(w, v) /\ ~Issued(w, v) /\ v.crashed = w.crashed
<1> DEFINE job == Job("register", t, "create")
<1>1. job \in Jobs /\ job.at = "sent" /\ job.by = "create"
  BY NewJobs DEF Kinds, Names, Pages
<1>2. Perform(w, Cmd("register", t)) = Post(w, job)
  BY DEF Perform, Cmd
<1> HIDE DEF job
<1> QED
  BY <1>1, <1>2, SentPosted

LEMMA PerformBack ==
  ASSUME NEW w, StateOK(w), NEW on
  PROVE  LET v == Perform(w, Cmd("back", on))
         IN  Performed(w, v) /\ ~Issued(w, v) /\ v.crashed = w.crashed
<1>1. Perform(w, Cmd("back", on)) = Back(w, on)
  BY DEF Perform, Cmd
<1> QED
  BY <1>1, BackPerformed

LEMMA PerformAwait ==
  ASSUME NEW w, StateOK(w), NEW x
  PROVE  LET v == Perform(w, Cmd("await", x))
         IN  /\ StateOK(v) /\ v.jobs = w.jobs /\ v.onTab = w.onTab /\ v.page = w.page
             /\ v.crashed = w.crashed /\ v.list = w.list /\ v.awaits
<1> DEFINE v == [w EXCEPT !.awaits = TRUE]
<1>1. Perform(w, Cmd("await", x)) = v
  BY DEF Perform, Cmd
<1>2. StateOK(v)
  BY StateWithFlags
<1>3. /\ v.jobs = w.jobs /\ v.onTab = w.onTab /\ v.page = w.page
      /\ v.crashed = w.crashed /\ v.list = w.list /\ v.awaits
  BY DEF StateOK, StateTypes
<1> HIDE DEF v
<1> QED
  BY <1>1, <1>2, <1>3

LEMMA PerformReturn ==
  ASSUME NEW w, StateOK(w), w.page = "details", NEW x
  PROVE  LET v == Perform(w, Cmd("return", x))
         IN  Follows(w, v) /\ v.list = w.list /\ v.page = w.page /\ Len(v.jobs) = Len(w.jobs) + 1
<1> DEFINE job == Job("return", NoItem, "details")
<1>1. job \in Jobs /\ job.by = "details"
  BY NewJobs DEF Kinds, Names, Pages
<1>2. Perform(w, Cmd("return", x)) = Post(w, job)
  BY DEF Perform, Cmd
<1> HIDE DEF job
<1> QED
  BY <1>1, <1>2, PostFollows

-----------------------------------------------------------------------------
(* What the tab makes of a message that is no key: it changes the page it  *)
(* is for, posts at most the message that leaves a page five seconds after *)
(* its last version was deleted, and ends nothing.                         *)
Heard(w, v) ==
  /\ StateOK(v) /\ v.onTab = w.onTab /\ v.page = w.page /\ v.crashed = w.crashed
  /\ Kept(w.jobs, v.jobs) /\ (w.awaits => v.awaits)

OnList(w, msg) == w.page = "list" \/ msg.type = "listed"

LEMMA ToTabHeard ==
  ASSUME NEW w, StateOK(w), NEW msg, IsListMessage(msg), msg.type # "key",
         NEW sel \in Selectable
  PROVE  LET v == ToTab(w, msg, sel)
         IN  /\ Heard(w, v)
             /\ Len(v.jobs) \in {Len(w.jobs), Len(w.jobs) + 1}
             /\ Len(v.jobs) = Len(w.jobs) \/ msg.type = "removed"
             /\ v.list = IF OnList(w, msg) THEN ListUpdate(w.list, msg, sel).next ELSE w.list
             /\ w.page = "list" /\ msg.type \in Started => v.awaits
<1>0. w.jobs \in Seq(Jobs) /\ w.list \in Lists /\ Quiet(w.list) /\ HasSubject(w.details)
  BY DEF StateOK, StateTypes
<1>1. CASE OnList(w, msg)
  <2> DEFINE o == ListUpdate(w.list, msg, sel)
             u == [w EXCEPT !.list = o.next]
             a == Does(u, o.cmds)
  <2>1. ToTab(w, msg, sel) = PerformAll(a)
    BY <1>1 DEF ToTab, ToPage, WithList, OnList
  <2>2. o.next \in Lists /\ Quiet(o.next)
    BY <1>0, ListUpdateKeeps
  <2>3. /\ msg.type \in Started => o.cmds = <<Cmd("await", NoItem)>>
        /\ msg.type \notin Started => o.cmds = <<>>
    BY <1>0, ListSilent
  <2>4. a.next = u /\ a.cmds = o.cmds
    BY DEF Does
  <2> HIDE DEF a
  <2>5. /\ StateOK(u) /\ u.list = o.next /\ u.page = w.page /\ u.jobs = w.jobs
        /\ u.onTab = w.onTab /\ u.crashed = w.crashed /\ u.awaits = w.awaits
    BY <2>2, StateWithList
  <2>6. Heard(w, u)
    BY <1>0, <2>5, KeptSelf DEF Heard
  <2> HIDE DEF o, u
  <2>7. CASE msg.type \in Started
    <3> DEFINE v == Perform(u, Cmd("await", NoItem))
    <3>1. PerformAll(a) = v
      BY <2>3, <2>4, <2>7, PerformOne
    <3>2. /\ StateOK(v) /\ v.jobs = u.jobs /\ v.onTab = u.onTab /\ v.page = u.page
          /\ v.crashed = u.crashed /\ v.list = u.list /\ v.awaits
      BY <2>5, PerformAwait
    <3> HIDE DEF v
    <3> QED
      BY <1>0, <1>1, <2>1, <2>5, <2>6, <3>1, <3>2 DEF Heard, o
  <2>8. CASE msg.type \notin Started
    <3>1. PerformAll(a) = u
      BY <2>3, <2>4, <2>8, PerformNone
    <3> QED
      BY <1>0, <1>1, <2>1, <2>5, <2>6, <2>8, <3>1 DEF o
  <2> QED
    BY <2>7, <2>8
<1>2. CASE ~OnList(w, msg) /\ w.page = "details"
  <2> DEFINE o == DetailsUpdate(w.details, msg)
             u == [w EXCEPT !.details = o.next]
             a == Does(u, o.cmds)
  <2>1. ToTab(w, msg, sel) = PerformAll(a)
    BY <1>2 DEF ToTab, ToPage, WithDetails, OnList
  <2>2. HasSubject(o.next)
    BY <1>0, DetailsUpdateKeeps
  <2>3. \/ o.cmds = <<Cmd("await", 0)>>
        \/ o.cmds = <<Cmd("return", 0)>> /\ msg.type = "removed"
        \/ o.cmds = <<>>
    BY DetailsSilent
  <2>4. a.next = u /\ a.cmds = o.cmds
    BY DEF Does
  <2> HIDE DEF a
  <2>5. /\ StateOK(u) /\ u.list = w.list /\ u.page = w.page /\ u.jobs = w.jobs
        /\ u.onTab = w.onTab /\ u.crashed = w.crashed /\ u.awaits = w.awaits
    BY <2>2, StateWithDetails
  <2>6. Heard(w, u)
    BY <1>0, <2>5, KeptSelf DEF Heard
  <2> HIDE DEF o, u
  <2>7. CASE o.cmds = <<Cmd("await", 0)>>
    <3> DEFINE v == Perform(u, Cmd("await", 0))
    <3>1. PerformAll(a) = v
      BY <2>4, <2>7, PerformOne
    <3>2. /\ StateOK(v) /\ v.jobs = u.jobs /\ v.onTab = u.onTab /\ v.page = u.page
          /\ v.crashed = u.crashed /\ v.list = u.list /\ v.awaits
      BY <2>5, PerformAwait
    <3> HIDE DEF v
    <3> QED
      BY <1>0, <1>2, <2>1, <2>5, <2>6, <3>1, <3>2 DEF Heard
  <2>8. CASE o.cmds = <<Cmd("return", 0)>> /\ msg.type = "removed"
    <3> DEFINE v == Perform(u, Cmd("return", 0))
    <3>1. PerformAll(a) = v
      BY <2>4, <2>8, PerformOne
    <3>2. Follows(u, v) /\ v.list = u.list /\ v.page = u.page /\ Len(v.jobs) = Len(u.jobs) + 1
      BY <1>2, <2>5, PerformReturn
    <3> HIDE DEF v
    <3> QED
      BY <1>0, <1>2, <2>1, <2>5, <2>8, <3>1, <3>2 DEF Heard, Follows, Started
  <2>9. CASE o.cmds = <<>>
    <3>1. PerformAll(a) = u
      BY <2>4, <2>9, PerformNone
    <3> QED
      BY <1>0, <1>2, <2>1, <2>5, <2>6, <3>1
  <2> QED
    BY <2>3, <2>7, <2>8, <2>9
<1>3. CASE ~OnList(w, msg) /\ w.page # "details"
  <2> DEFINE o == CreateUpdate(w.create, msg)
             u == [w EXCEPT !.create = o.next]
             a == Does(u, o.cmds)
  <2>1. ToTab(w, msg, sel) = PerformAll(a)
    BY <1>3 DEF ToTab, ToPage, WithCreate, OnList
  <2>3. o.cmds = <<Cmd("await", 0)>> \/ o.cmds = <<>>
    BY CreateSilent
  <2>4. a.next = u /\ a.cmds = o.cmds
    BY DEF Does
  <2> HIDE DEF a
  <2>5. /\ StateOK(u) /\ u.list = w.list /\ u.page = w.page /\ u.jobs = w.jobs
        /\ u.onTab = w.onTab /\ u.crashed = w.crashed /\ u.awaits = w.awaits
    BY StateWithCreate
  <2>6. Heard(w, u)
    BY <1>0, <2>5, KeptSelf DEF Heard
  <2> HIDE DEF o, u
  <2>7. CASE o.cmds = <<Cmd("await", 0)>>
    <3> DEFINE v == Perform(u, Cmd("await", 0))
    <3>1. PerformAll(a) = v
      BY <2>4, <2>7, PerformOne
    <3>2. /\ StateOK(v) /\ v.jobs = u.jobs /\ v.onTab = u.onTab /\ v.page = u.page
          /\ v.crashed = u.crashed /\ v.list = u.list /\ v.awaits
      BY <2>5, PerformAwait
    <3> HIDE DEF v
    <3> QED
      BY <1>0, <1>3, <2>1, <2>5, <2>6, <3>1, <3>2 DEF Heard
  <2>9. CASE o.cmds = <<>>
    <3>1. PerformAll(a) = u
      BY <2>4, <2>9, PerformNone
    <3> QED
      BY <1>0, <1>3, <2>1, <2>5, <2>6, <3>1 DEF OnList
  <2> QED
    BY <2>3, <2>7, <2>9
<1> QED
  BY <1>1, <1>2, <1>3

-----------------------------------------------------------------------------
(* What the tab makes of a key.                                            *)
Pressed(w, v) ==
  /\ StateOK(v) /\ Kept(w.jobs, v.jobs)
  /\ Len(v.jobs) \in {Len(w.jobs), Len(w.jobs) + 1}
  /\ Issued(w, v) => PromptedBy(w.list, v.jobs[Len(v.jobs)])
  /\ w.page = "list" => v.list.subjects \in {{}, w.list.subjects}

LEMMA ToTabPressed ==
  ASSUME NEW w, StateOK(w), NEW msg, IsListMessage(msg), msg.type = "key",
         msg.key = "submit" => msg.term \in Items, NEW sel \in Selectable
  PROVE  Pressed(w, ToTab(w, msg, sel))
<1>0. w.jobs \in Seq(Jobs) /\ w.list \in Lists /\ Quiet(w.list) /\ HasSubject(w.details)
      /\ w.page \in Pages
  BY DEF StateOK, StateTypes
<1>1. CASE w.page = "list"
  <2> DEFINE o == ListUpdate(w.list, msg, sel)
             u == [w EXCEPT !.list = o.next]
             a == Does(u, o.cmds)
  <2>1. ToTab(w, msg, sel) = PerformAll(a)
    BY <1>1 DEF ToTab, ToPage, WithList
  <2>2. o.next \in Lists /\ Quiet(o.next) /\ o.next.subjects \in {{}, w.list.subjects}
    <3>1. o.next \in Lists /\ Quiet(o.next)
      BY <1>0, ListUpdateKeeps
    <3>2. o.next.subjects = SubjectsAfter(w.list, msg)
      BY <1>0, ListUpdateSubjects
    <3> HIDE DEF o
    <3> QED
      BY <3>1, <3>2 DEF SubjectsAfter
  <2>3. \/ o.cmds = <<>>
        \/ \E c : o.cmds = <<c>> /\ ListCommand(w.list, sel, c) /\ o.next.tab = w.list.tab
    BY <1>0, ListCommands
  <2>4. a.next = u /\ a.cmds = o.cmds
    BY DEF Does
  <2> HIDE DEF a
  <2>5. /\ StateOK(u) /\ u.list = o.next /\ u.page = w.page /\ u.jobs = w.jobs
        /\ u.onTab = w.onTab /\ u.crashed = w.crashed /\ u.awaits = w.awaits
    BY <2>2, StateWithList
  <2> HIDE DEF o, u
  <2>6. CASE o.cmds = <<>>
    <3>1. PerformAll(a) = u
      BY <2>4, <2>6, PerformNone
    <3> QED
      BY <1>0, <2>1, <2>2, <2>5, <3>1, KeptSelf DEF Pressed, Issued
  <2>7. ASSUME NEW c, o.cmds = <<c>>, ListCommand(w.list, sel, c), o.next.tab = w.list.tab
        PROVE  Pressed(w, ToTab(w, msg, sel))
    <3> DEFINE v == Perform(u, c)
    <3>1. PerformAll(a) = v
      BY <2>4, <2>7, PerformOne
    <3>2. /\ Performed(u, v) /\ v.list = u.list
          /\ Issued(u, v) => PromptedBy(w.list, v.jobs[Len(v.jobs)])
      BY <1>1, <2>5, <2>7, PerformList
    <3> HIDE DEF v
    <3> QED
      BY <1>1, <2>1, <2>2, <2>5, <3>1, <3>2 DEF Pressed, Performed, Issued
  <2> QED
    BY <2>3, <2>6, <2>7
<1>2. CASE w.page = "details"
  <2> DEFINE o == DetailsUpdate(w.details, msg)
             u == [w EXCEPT !.details = o.next]
             a == Does(u, o.cmds)
  <2>1. ToTab(w, msg, sel) = PerformAll(a)
    BY <1>2 DEF ToTab, ToPage, WithDetails
  <2>2. HasSubject(o.next)
    BY <1>0, DetailsUpdateKeeps
  <2>3. \/ o.cmds = <<>>
        \/ \E c : o.cmds = <<c>> /\ DetailsCommand(w.details, c)
    BY DetailsCommands
  <2>4. a.next = u /\ a.cmds = o.cmds
    BY DEF Does
  <2> HIDE DEF a
  <2>5. /\ StateOK(u) /\ u.list = w.list /\ u.page = w.page /\ u.jobs = w.jobs
        /\ u.onTab = w.onTab /\ u.crashed = w.crashed /\ u.awaits = w.awaits
    BY <2>2, StateWithDetails
  <2> HIDE DEF o, u
  <2>6. CASE o.cmds = <<>>
    <3>1. PerformAll(a) = u
      BY <2>4, <2>6, PerformNone
    <3> QED
      BY <1>0, <2>1, <2>5, <3>1, KeptSelf DEF Pressed, Issued
  <2>7. ASSUME NEW c, o.cmds = <<c>>, DetailsCommand(w.details, c)
        PROVE  Pressed(w, ToTab(w, msg, sel))
    <3> DEFINE v == Perform(u, c)
    <3>1. PerformAll(a) = v
      BY <2>4, <2>7, PerformOne
    <3>2. /\ Performed(u, v) /\ ~Issued(u, v)
      BY <1>2, <2>5, <2>7, PerformDetails
    <3> HIDE DEF v
    <3> QED
      BY <1>2, <2>1, <2>5, <2>7, <3>1, <3>2 DEF Pressed, Performed, Issued
  <2> QED
    BY <2>3, <2>6, <2>7
<1>3. CASE w.page = "create"
  <2> DEFINE o == CreateUpdate(w.create, msg)
             u == [w EXCEPT !.create = o.next]
             a == Does(u, o.cmds)
  <2>1. ToTab(w, msg, sel) = PerformAll(a)
    BY <1>3 DEF ToTab, ToPage, WithCreate
  <2>3. \/ o.cmds = <<>>
        \/ o.cmds = <<Cmd("register", msg.term)>> /\ msg.key = "submit"
        \/ \E on : o.cmds = <<Cmd("back", on)>>
    BY CreateCommands
  <2>4. a.next = u /\ a.cmds = o.cmds
    BY DEF Does
  <2> HIDE DEF a
  <2>5. /\ StateOK(u) /\ u.list = w.list /\ u.page = w.page /\ u.jobs = w.jobs
        /\ u.onTab = w.onTab /\ u.crashed = w.crashed /\ u.awaits = w.awaits
    BY StateWithCreate
  <2> HIDE DEF o, u
  <2>6. CASE o.cmds = <<>>
    <3>1. PerformAll(a) = u
      BY <2>4, <2>6, PerformNone
    <3> QED
      BY <1>0, <2>1, <2>5, <3>1, KeptSelf DEF Pressed, Issued
  <2>7. ASSUME NEW c, o.cmds = <<c>>,
               LET v == Perform(u, c) IN Performed(u, v) /\ ~Issued(u, v) /\ v.crashed = u.crashed
        PROVE  Pressed(w, ToTab(w, msg, sel))
    <3> DEFINE v == Perform(u, c)
    <3>1. PerformAll(a) = v
      BY <2>4, <2>7, PerformOne
    <3>2. Performed(u, v) /\ ~Issued(u, v) /\ v.crashed = u.crashed
      BY <2>7
    <3> HIDE DEF v
    <3> QED
      BY <1>3, <2>1, <2>5, <3>1, <3>2 DEF Pressed, Performed, Issued
  <2>8. CASE o.cmds = <<Cmd("register", msg.term)>> /\ msg.key = "submit"
    <3>1. msg.term \in Items
      BY <2>8
    <3> QED
      BY <1>3, <2>5, <2>7, <2>8, <3>1, PerformRegister
  <2>9. ASSUME NEW on, o.cmds = <<Cmd("back", on)>>
        PROVE  Pressed(w, ToTab(w, msg, sel))
    BY <2>5, <2>7, <2>9, PerformBack
  <2> QED
    BY <2>3, <2>6, <2>8, <2>9
<1> QED
  BY <1>0, <1>1, <1>2, <1>3 DEF Pages

-----------------------------------------------------------------------------
(* main: what this tab is told, and what it makes of it.                   *)

LEMMA HandleTells ==
  ASSUME NEW w, NEW msg, NEW sel
  PROVE  Handle(w, msg, sel)
           = Tell([w EXCEPT !.onTab = Focus(w.onTab, msg)], Told(w, msg), sel)
BY DEF Handle, Tell

LEMMA StateOnTab ==
  ASSUME NEW w, StateOK(w), NEW on \in BOOLEAN
  PROVE  LET v == [w EXCEPT !.onTab = on]
         IN  /\ StateOK(v) /\ v.onTab = on /\ v.page = w.page /\ v.jobs = w.jobs
             /\ v.list = w.list /\ v.details = w.details
             /\ v.crashed = w.crashed /\ v.awaits = w.awaits
<1> DEFINE v == [w EXCEPT !.onTab = on]
<1>1. StateOK(v)
  BY StateWithFlags
<1>2. /\ v.onTab = on /\ v.page = w.page /\ v.jobs = w.jobs /\ v.list = w.list
      /\ v.details = w.details /\ v.crashed = w.crashed /\ v.awaits = w.awaits
  BY DEF StateOK, StateTypes
<1> QED
  BY <1>1, <1>2

(* A message that is no key. *)
HandledAs(w, msg, sel, v) ==
  /\ Heard(w, v)
  /\ Len(v.jobs) \in {Len(w.jobs), Len(w.jobs) + 1}
  /\ Len(v.jobs) = Len(w.jobs) \/ msg.type = "removed"
  /\ w.page = "list" /\ w.onTab =>
       /\ v.list.subjects = SubjectsAfter(w.list, msg)
       /\ msg.type \in Started => v.awaits

LEMMA HandleHeard ==
  ASSUME NEW w, StateOK(w), NEW msg, IsListMessage(msg), msg.type # "key",
         NEW sel \in Selectable
  PROVE  HandledAs(w, msg, sel, Handle(w, msg, sel))
<1>0. w.jobs \in Seq(Jobs) /\ w.list \in Lists /\ Quiet(w.list) /\ w.onTab \in BOOLEAN
  BY DEF StateOK, StateTypes
<1>1. [w EXCEPT !.onTab = Focus(w.onTab, msg)] = w
  <2>1. Focus(w.onTab, msg) = w.onTab
    BY <1>0 DEF Focus, IsKey
  <2>2. [w EXCEPT !.onTab = w.onTab] = w
    BY DEF StateOK, StateTypes
  <2> QED
    BY <2>1, <2>2
<1>2. Handle(w, msg, sel) = Tell(w, Told(w, msg), sel)
  BY <1>1, HandleTells
<1>3. CASE w.onTab \/ msg.type \in Routed
  <2> DEFINE v == ToTab(w, msg, sel)
  <2>1. Told(w, msg) = <<msg>>
    BY <1>3 DEF Told, IsKey
  <2>2. Handle(w, msg, sel) = v
    BY <1>2, <2>1, TellOne
  <2>3. /\ Heard(w, v)
        /\ Len(v.jobs) \in {Len(w.jobs), Len(w.jobs) + 1}
        /\ Len(v.jobs) = Len(w.jobs) \/ msg.type = "removed"
        /\ v.list = IF OnList(w, msg) THEN ListUpdate(w.list, msg, sel).next ELSE w.list
        /\ w.page = "list" /\ msg.type \in Started => v.awaits
    BY ToTabHeard
  <2> HIDE DEF v
  <2>4. ListUpdate(w.list, msg, sel).next.subjects = SubjectsAfter(w.list, msg)
    BY <1>0, ListUpdateSubjects
  <2> QED
    BY <2>2, <2>3, <2>4 DEF HandledAs, OnList
<1>4. CASE ~(w.onTab \/ msg.type \in Routed)
  <2>1. Told(w, msg) = <<>>
    BY <1>4 DEF Told, IsKey
  <2>2. Handle(w, msg, sel) = w
    BY <1>2, <2>1, TellNone
  <2> QED
    BY <1>0, <1>4, <2>2, KeptSelf DEF HandledAs, Heard
<1> QED
  BY <1>3, <1>4

(* A key pressed: those that move between the tabs end nothing. *)
LEMMA HandlePressed ==
  ASSUME NEW w, StateOK(w), NEW msg, IsListMessage(msg), msg.type = "key",
         msg.key = "submit" => msg.term \in Items, NEW sel \in Selectable,
         w.onTab = ~IsKey(msg, "ctrl+right")
  PROVE  LET v == Handle(w, msg, sel)
         IN  /\ StateOK(v) /\ Kept(w.jobs, v.jobs)
             /\ Issued(w, v) => PromptedBy(w.list, v.jobs[Len(v.jobs)])
             /\ w.page = "list" /\ w.onTab => v.list.subjects \in {{}, w.list.subjects}
<1>0. w.jobs \in Seq(Jobs) /\ w.list \in Lists /\ Quiet(w.list) /\ w.onTab \in BOOLEAN
  BY DEF StateOK, StateTypes
<1> DEFINE u == [w EXCEPT !.onTab = Focus(w.onTab, msg)]
<1>1. /\ StateOK(u) /\ u.page = w.page /\ u.jobs = w.jobs
      /\ u.list = w.list /\ u.details = w.details /\ u.crashed = w.crashed
  <2>1. Focus(w.onTab, msg) \in BOOLEAN
    BY DEF Focus
  <2> QED
    BY <2>1, StateOnTab
<1>2. Handle(w, msg, sel) = Tell(u, Told(w, msg), sel)
  BY HandleTells
<1> HIDE DEF u
<1>3. CASE IsKey(msg, "ctrl+left")
  <2>1. Told(w, msg) = <<>>
    BY <1>3 DEF Told
  <2>2. Handle(w, msg, sel) = u
    BY <1>2, <2>1, TellNone
  <2> QED
    BY <1>0, <1>1, <2>2, KeptSelf DEF Issued
<1>4. CASE ~IsKey(msg, "ctrl+left") /\ IsKey(msg, "ctrl+right")
  <2> DEFINE m1 == Message("regainedFocus")
             m2 == Message("other")
             v1 == ToTab(u, m1, sel)
             v2 == ToTab(v1, m2, sel)
  <2>1. Told(w, msg) = <<m1, m2>>
    BY <1>4 DEF Told
  <2>2. Handle(w, msg, sel) = v2
    BY <1>2, <2>1, TellTwo
  <2>3. /\ IsListMessage(m1) /\ m1.type = "regainedFocus"
        /\ IsListMessage(m2) /\ m2.type = "other"
    BY DEF IsListMessage, IsMessage, Message
  <2> HIDE DEF m1, m2
  <2>4. Heard(u, v1) /\ Len(v1.jobs) = Len(u.jobs)
    BY <1>1, <2>3, ToTabHeard
  <2> HIDE DEF v1
  <2>5. Heard(v1, v2) /\ Len(v2.jobs) = Len(v1.jobs)
    BY <2>3, <2>4, ToTabHeard DEF Heard
  <2> HIDE DEF v2
  <2>6. Kept(w.jobs, v2.jobs)
    <3>1. v1.jobs \in Seq(Jobs) /\ v2.jobs \in Seq(Jobs)
      BY <2>4, <2>5 DEF Heard, StateOK, StateTypes
    <3> QED
      BY <1>0, <1>1, <2>4, <2>5, <3>1, KeptTransitive DEF Heard
  <2>7. ~w.onTab
    BY <1>4
  <2>8. ~Issued(w, v2)
    <3>1. Len(v2.jobs) = Len(w.jobs) /\ Len(w.jobs) \in Nat
      BY <1>0, <1>1, <2>4, <2>5
    <3> QED
      BY <3>1 DEF Issued
  <2>9. StateOK(v2) /\ v2.crashed = w.crashed
    BY <1>1, <2>4, <2>5 DEF Heard
  <2> QED
    BY <2>2, <2>6, <2>7, <2>8, <2>9
<1>5. CASE ~IsKey(msg, "ctrl+left") /\ ~IsKey(msg, "ctrl+right")
  <2>1. Told(w, msg) = <<msg>>
    BY <1>5 DEF Told
  <2>2. Handle(w, msg, sel) = ToTab(u, msg, sel)
    BY <1>2, <2>1, TellOne
  <2>3. Pressed(u, ToTab(u, msg, sel))
    BY <1>1, ToTabPressed
  <2> QED
    BY <1>1, <2>2, <2>3 DEF Pressed, Issued
<1> QED
  BY <1>3, <1>4, <1>5

-----------------------------------------------------------------------------
(* The state of the program as it changes.                                 *)

Inv == /\ user \in Sessions
       /\ registry \in [Items -> Held]
       /\ StateOK(Now)

LEMMA NowFields ==
  /\ Now.page = page /\ Now.list = list /\ Now.details = details /\ Now.create = create
  /\ Now.onTab = onTab /\ Now.jobs = jobs /\ Now.timers = timers /\ Now.crashed = crashed
  /\ ~Now.awaits
BY DEF Now

LEMMA BecomeKeeps ==
  ASSUME Inv, NEW w, StateOK(w), Become(w), registry' \in [Items -> Held]
  PROVE  /\ Inv' /\ page' = w.page /\ list' = w.list /\ onTab' = w.onTab
         /\ jobs' = w.jobs /\ crashed' = w.crashed
<1> DEFINE now == [page |-> w.page, list |-> w.list, details |-> w.details,
                   create |-> w.create, onTab |-> w.onTab, jobs |-> w.jobs,
                   timers |-> w.timers, crashed |-> w.crashed, awaits |-> FALSE]
<1>1. Now' = now
  BY DEF Now, Become
<1>2. now \in StateTypes(now) /\ Quiet(now.list) /\ HasSubject(now.details)
      /\ OfPage(now.jobs, now.page)
  BY DEF StateOK, StateTypes
<1>3. StateOK(now)
  BY <1>2 DEF StateOK
<1> HIDE DEF now
<1>4. StateOK(Now)'
  BY <1>1, <1>3 DEF StateOK, StateTypes, Quiet, HasSubject, OfPage
<1> QED
  BY <1>4 DEF Inv, Become

LEMMA SelectionsTyped ==
  ASSUME NEW p \in Lists, NEW sel \in Selections(p)
  PROVE  sel \in Selectable
BY ListFields DEF Selections, Selectable

(* The first state has it. *)
LEMMA InitInv == Init => Inv
<1> SUFFICES ASSUME Init PROVE Inv
  OBVIOUS
<1>1. user \in Sessions /\ registry \in [Items -> Held]
  BY SessionsAssumption DEF Init
<1> DEFINE job == Job("list", NoItem, "list")
<1>2. job \in Jobs /\ job.by = "list"
  BY NewJobs DEF Kinds, Names, Pages
<1>3. jobs = <<job>> /\ page = "list"
  BY DEF Init
<1> HIDE DEF job
<1>4. jobs \in Seq(Jobs) /\ OfPage(jobs, page)
  BY <1>2, <1>3 DEF OfPage
<1>5. /\ page \in Pages /\ list \in Lists /\ Quiet(list) /\ HasSubject(details)
      /\ onTab \in BOOLEAN /\ crashed \in BOOLEAN
  BY NewListPageOK, NoDetailsHasSubject DEF Init, Pages
<1>6. Now \in StateTypes(Now)
  BY <1>4, <1>5 DEF Now, StateTypes
<1>7. StateOK(Now)
  BY <1>4, <1>5, <1>6, NowFields DEF StateOK
<1> QED
  BY <1>1, <1>7 DEF Inv

(* A key. *)
LEMMA PressStep ==
  ASSUME Inv, NEW sel \in Selections(list), NEW msg \in user.inputs[page], Press(msg, sel)
  PROVE  /\ Inv' /\ registry' = registry /\ Kept(jobs, jobs')
         /\ Confirms => Prompted(Last(jobs'))
         /\ page = "list" /\ onTab => list'.subjects \in {{}, list.subjects}
<1> DEFINE v == Handle(Now, msg, sel)
<1>0. /\ StateOK(Now) /\ page \in Pages /\ list \in Lists /\ jobs \in Seq(Jobs)
      /\ ~crashed
  BY DEF Inv, StateOK, StateTypes, Now, Press
<1>1. sel \in Selectable
  BY <1>0, SelectionsTyped
<1>2. IsListMessage(msg) /\ msg.type = "key" /\ (msg.key = "submit" => msg.term \in Items)
  <2>1. Pressable(msg)
    BY <1>0, SessionsAssumption DEF Inv, Pages
  <2> QED
    BY <2>1 DEF Pressable, IsListMessage, IsMessage
<1>3. onTab = ~IsKey(msg, "ctrl+right")
  BY DEF Press
<1>4. /\ StateOK(v) /\ Kept(jobs, v.jobs)
      /\ Issued(Now, v) => PromptedBy(list, v.jobs[Len(v.jobs)])
      /\ page = "list" /\ onTab => v.list.subjects \in {{}, list.subjects}
  BY <1>0, <1>1, <1>2, <1>3, NowFields, HandlePressed
<1>5. Become(v) /\ registry' = registry
  BY DEF Press
<1> HIDE DEF v
<1>6. /\ Inv' /\ list' = v.list /\ jobs' = v.jobs /\ crashed' = v.crashed
  BY <1>4, <1>5, BecomeKeeps DEF Inv
<1>8. Confirms => Prompted(Last(jobs'))
  <2>1. Last(jobs') = v.jobs[Len(v.jobs)]
    BY <1>6 DEF Last
  <2>2. Confirms => Issued(Now, v)
    BY <1>6, <2>1, NowFields DEF Confirms, Issued
  <2> QED
    BY <1>4, <2>1, <2>2 DEF Prompted, PromptedBy
<1> QED
  BY <1>4, <1>5, <1>6, <1>8

(* A job done with, and a job changed. *)
LEMMA RemoveAtJobs ==
  ASSUME NEW js \in Seq(Jobs), NEW i \in DOMAIN js
  PROVE  LET ks == RemoveAt(js, i)
         IN  /\ ks \in Seq(Jobs) /\ Len(ks) = Len(js) - 1
             /\ \A k \in DOMAIN ks : \E j \in DOMAIN js : ks[k] = js[j]
             /\ \A j \in DOMAIN js : j # i => \E k \in DOMAIN ks : ks[k] = js[j]
<1> DEFINE a == SubSeq(js, 1, i - 1)
           b == SubSeq(js, i + 1, Len(js))
           ks == a \o b
<1>1. RemoveAt(js, i) = ks
  BY DEF RemoveAt
<1>2. i \in Nat /\ 1 <= i /\ i <= Len(js) /\ Len(js) \in Nat
  OBVIOUS
<1>3. /\ a \in Seq(Jobs) /\ Len(a) = i - 1 /\ \A k \in 1..(i - 1) : a[k] = js[k]
      /\ b \in Seq(Jobs) /\ Len(b) = Len(js) - i
      /\ \A k \in 1..(Len(js) - i) : b[k] = js[k + i]
  BY <1>2
<1> HIDE DEF a, b
<1>4. /\ ks \in Seq(Jobs) /\ Len(ks) = Len(js) - 1
      /\ \A k \in 1..(i - 1) : ks[k] = js[k]
      /\ \A k \in i..(Len(js) - 1) : ks[k] = js[k + 1]
  BY <1>2, <1>3
<1> HIDE DEF ks
<1>5. DOMAIN ks = 1..(Len(js) - 1) /\ DOMAIN js = 1..Len(js)
  BY <1>2, <1>4
<1>6. ASSUME NEW k \in DOMAIN ks PROVE \E j \in DOMAIN js : ks[k] = js[j]
  <2>1. CASE k < i
    BY <1>2, <1>4, <1>5, <2>1
  <2>2. CASE k >= i
    <3>1. k + 1 \in DOMAIN js /\ ks[k] = js[k + 1]
      BY <1>2, <1>4, <1>5, <2>2
    <3> QED
      BY <3>1
  <2> QED
    BY <1>2, <1>5, <2>1, <2>2
<1>7. ASSUME NEW j \in DOMAIN js, j # i PROVE \E k \in DOMAIN ks : ks[k] = js[j]
  <2>1. CASE j < i
    <3>1. j \in DOMAIN ks /\ ks[j] = js[j]
      BY <1>2, <1>4, <1>5, <2>1
    <3> QED
      BY <3>1
  <2>2. CASE j > i
    <3>1. j - 1 \in DOMAIN ks /\ ks[j - 1] = js[j]
      BY <1>2, <1>4, <1>5, <2>2
    <3> QED
      BY <3>1
  <2> QED
    BY <1>2, <1>5, <1>7, <2>1, <2>2
<1> QED
  BY <1>1, <1>4, <1>6, <1>7

(* Every job of the one, but perhaps the one at i, is alike in the other.  *)
Others(js, i, ks) ==
  \A j \in DOMAIN js : j # i => \E k \in DOMAIN ks : Alike(js[j], ks[k])

LEMMA WithoutJobOK ==
  ASSUME NEW w, StateOK(w), NEW i \in DOMAIN w.jobs
  PROVE  LET v == [w EXCEPT !.jobs = RemoveAt(w.jobs, i)]
         IN  /\ StateOK(v) /\ v.page = w.page /\ v.list = w.list /\ v.details = w.details
             /\ v.onTab = w.onTab /\ v.crashed = w.crashed /\ v.awaits = w.awaits
             /\ Len(v.jobs) = Len(w.jobs) - 1 /\ Others(w.jobs, i, v.jobs)
<1> DEFINE js == RemoveAt(w.jobs, i)
           v == [w EXCEPT !.jobs = js]
<1>1. w.jobs \in Seq(Jobs) /\ OfPage(w.jobs, w.page)
  BY DEF StateOK, StateTypes
<1>2. /\ js \in Seq(Jobs) /\ Len(js) = Len(w.jobs) - 1
      /\ \A k \in DOMAIN js : \E j \in DOMAIN w.jobs : js[k] = w.jobs[j]
      /\ \A j \in DOMAIN w.jobs : j # i => \E k \in DOMAIN js : js[k] = w.jobs[j]
  BY <1>1, RemoveAtJobs
<1> HIDE DEF js
<1>3. OfPage(js, w.page)
  BY <1>1, <1>2 DEF OfPage
<1>4. Others(w.jobs, i, js)
  BY <1>2 DEF Others, Alike
<1>5. /\ StateOK(v) /\ v.jobs = js /\ v.page = w.page /\ v.list = w.list
      /\ v.details = w.details /\ v.onTab = w.onTab /\ v.crashed = w.crashed
      /\ v.awaits = w.awaits
  BY <1>2, <1>3, StateWithJobs
<1> QED
  BY <1>2, <1>4, <1>5 DEF js, v

LEMMA WithJobOK ==
  ASSUME NEW w, StateOK(w), NEW i \in DOMAIN w.jobs, NEW job \in Jobs, job.by = w.jobs[i].by
  PROVE  LET v == [w EXCEPT !.jobs = [w.jobs EXCEPT ![i] = job]]
         IN  /\ StateOK(v) /\ v.page = w.page /\ v.list = w.list /\ v.details = w.details
             /\ v.onTab = w.onTab /\ v.crashed = w.crashed /\ v.awaits = w.awaits
             /\ Len(v.jobs) = Len(w.jobs) /\ Others(w.jobs, i, v.jobs) /\ v.jobs[i] = job
             /\ i \in DOMAIN v.jobs
<1> DEFINE js == [w.jobs EXCEPT ![i] = job]
           v == [w EXCEPT !.jobs = js]
<1>1. w.jobs \in Seq(Jobs) /\ OfPage(w.jobs, w.page)
  BY DEF StateOK, StateTypes
<1>2. /\ js \in Seq(Jobs) /\ Len(js) = Len(w.jobs) /\ DOMAIN js = DOMAIN w.jobs /\ js[i] = job
      /\ \A j \in DOMAIN w.jobs : j # i => js[j] = w.jobs[j]
  BY <1>1
<1> HIDE DEF js
<1>3. OfPage(js, w.page)
  <2> SUFFICES ASSUME NEW j \in DOMAIN js, js[j].by \in {"details", "create"}
               PROVE  w.page = js[j].by
    BY DEF OfPage
  <2>1. js[j].by = w.jobs[j].by
    BY <1>2
  <2> QED
    BY <1>1, <1>2, <2>1 DEF OfPage
<1>4. Others(w.jobs, i, js)
  BY <1>2 DEF Others, Alike
<1>5. /\ StateOK(v) /\ v.jobs = js /\ v.page = w.page /\ v.list = w.list
      /\ v.details = w.details /\ v.onTab = w.onTab /\ v.crashed = w.crashed
      /\ v.awaits = w.awaits
  BY <1>2, <1>3, StateWithJobs
<1> QED
  BY <1>2, <1>4, <1>5 DEF js, v

LEMMA OthersKept ==
  ASSUME NEW js \in Seq(Jobs), NEW ks \in Seq(Jobs), NEW ls \in Seq(Jobs), NEW i,
         Others(js, i, ks), Kept(ks, ls)
  PROVE  Others(js, i, ls)
<1> SUFFICES ASSUME NEW j \in DOMAIN js, j # i
             PROVE  \E k \in DOMAIN ls : Alike(js[j], ls[k])
  BY DEF Others
<1>1. PICK k \in DOMAIN ks : Alike(js[j], ks[k])
  BY DEF Others
<1>2. k \in DOMAIN ls /\ Alike(ks[k], ls[k])
  BY DEF Kept
<1>3. Alike(js[j], ls[k])
  BY <1>1, <1>2 DEF Alike
<1> QED
  BY <1>2, <1>3

LEMMA KeptOthers ==
  ASSUME NEW js \in Seq(Jobs), NEW ks \in Seq(Jobs), NEW ls \in Seq(Jobs), NEW i,
         Kept(js, ks), Others(ks, i, ls)
  PROVE  Others(js, i, ls)
<1> SUFFICES ASSUME NEW j \in DOMAIN js, j # i
             PROVE  \E k \in DOMAIN ls : Alike(js[j], ls[k])
  BY DEF Others
<1>1. j \in DOMAIN ks /\ Alike(js[j], ks[j])
  BY DEF Kept
<1>2. PICK k \in DOMAIN ls : Alike(ks[j], ls[k])
  BY <1>1 DEF Others
<1>3. Alike(js[j], ls[k])
  BY <1>1, <1>2 DEF Alike
<1> QED
  BY <1>3

(* The least of some versions is one of them. *)
LEMMA MinOfVersions ==
  ASSUME NEW vs, vs \subseteq Nat, vs # {}
  PROVE  Min(vs) \in vs
<1> DEFINE Less == {p \in Nat \X Nat : p[1] < p[2]}
<1>1. IsWellFoundedOn(Less, Nat)
  BY NatLessThanWellFounded, Zenon DEF OpToRel
<1> HIDE DEF Less
<1>2. PICK x \in vs : \A y \in vs : <<y, x>> \notin Less
  BY <1>1, WFMin
<1>3. ASSUME NEW y \in vs PROVE x =< y
  <2>1. <<y, x>> \in Nat \X Nat /\ <<y, x>> \notin Less
    BY <1>2
  <2>2. ~(y < x)
    BY <2>1 DEF Less
  <2> QED
    BY <2>1, <2>2
<1> QED
  BY <1>3 DEF Min

(* The registry keeps its type, whatever it is asked. *)
LEMMA AfterTyped ==
  ASSUME NEW r \in [Items -> Held], NEW job
  PROVE  /\ After(r, job) \in [Items -> Held]
         /\ \A s \in Items : s # job.name => After(r, job)[s] = r[s]
         /\ job.kind \notin {"delete", "remove", "register"} => After(r, job) = r
<1>1. CASE job.kind = "delete"
  <2> DEFINE h == IF job.permanent THEN Gone ELSE [r[job.name] EXCEPT !.soft = TRUE]
  <2>1. After(r, job) = [r EXCEPT ![job.name] = h]
    BY <1>1 DEF After
  <2>2. job.name \in Items => h \in Held
    BY DEF Held, Gone
  <2> HIDE DEF h
  <2> QED
    BY <1>1, <2>1, <2>2
<1>2. CASE job.kind = "remove"
  <2> DEFINE h == [r[job.name] EXCEPT !.live = r[job.name].live \ {job.version}]
  <2>1. After(r, job) = [r EXCEPT ![job.name] = h]
    BY <1>2 DEF After
  <2>2. job.name \in Items => h \in Held
    BY DEF Held
  <2> HIDE DEF h
  <2> QED
    BY <1>2, <2>1, <2>2
<1>3. CASE job.kind = "register"
  <2> DEFINE old == r[job.name].live
             live == IF old = Versions THEN old ELSE old \cup {Min(Versions \ old)}
             h == [live |-> live, soft |-> FALSE]
  <2>1. After(r, job) = [r EXCEPT ![job.name] = h]
    BY <1>3 DEF After
  <2>2. job.name \in Items => h \in Held
    <3>1. SUFFICES ASSUME job.name \in Items PROVE live \subseteq Versions
      BY DEF Held
    <3>2. old \subseteq Versions
      BY <3>1 DEF Held
    <3>3. CASE old # Versions
      <4>1. Versions \ old \subseteq Nat /\ Versions \ old # {}
        BY <3>2, <3>3, SubjectsAssumption
      <4>2. Min(Versions \ old) \in Versions
        BY <4>1, MinOfVersions
      <4> QED
        BY <3>2, <4>2
    <3> QED
      BY <3>2, <3>3
  <2> HIDE DEF h
  <2> QED
    BY <1>3, <2>1, <2>2
<1>4. CASE job.kind \notin {"delete", "remove", "register"}
  BY <1>4 DEF After
<1> QED
  BY <1>1, <1>2, <1>3, <1>4

(* A schema registered makes its subject active, if there are versions.    *)
LEMMA RegisteredActive ==
  ASSUME NEW r \in [Items -> Held], NEW job, job.kind = "register", NEW s \in Items,
         IsActive(r[s])
  PROVE  IsActive(After(r, job)[s])
<1>1. CASE s = job.name
  <2> DEFINE old == r[s].live
             live == IF old = Versions THEN old ELSE old \cup {Min(Versions \ old)}
  <2>1. After(r, job)[s] = [live |-> live, soft |-> FALSE]
    BY <1>1 DEF After
  <2>2. live # {}
    BY DEF IsActive
  <2> HIDE DEF live
  <2> QED
    BY <2>1, <2>2 DEF IsActive
<1>2. CASE s # job.name
  BY <1>2, AfterTyped
<1> QED
  BY <1>1, <1>2

LEMMA SubjectsTyped ==
  ASSUME NEW r \in [Items -> Held]
  PROVE  SubjectsOf(r) \in SUBSET Subjects
<1> SUFFICES ASSUME NEW s \in Items PROVE SubjectOf(r, s) \in Subjects
  BY DEF SubjectsOf
<1>1. r[s].live \subseteq Versions /\ r[s].soft \in BOOLEAN
  BY DEF Held
<1> QED
  BY <1>1 DEF SubjectOf, Subjects

(* A deletion run. *)
LEMMA RunDeletionStep ==
  ASSUME Inv, NEW i \in DOMAIN jobs, RunDeletion(i)
  PROVE  /\ Inv' /\ registry' = registry /\ crashed' = crashed /\ list' = list
         /\ Len(jobs') = Len(jobs) /\ Others(jobs, i, jobs')
         /\ \E k \in DOMAIN jobs' : Alike(jobs[i], jobs'[k])
<1> DEFINE job == Run(list, jobs[i])
           w == [Now EXCEPT !.jobs = [Now.jobs EXCEPT ![i] = job]]
<1>1. Become(w) /\ registry' = registry
  BY NowFields DEF RunDeletion
<1>2. StateOK(Now) /\ jobs \in Seq(Jobs) /\ list \in Lists
  BY DEF Inv, StateOK, StateTypes, Now
<1>3. jobs[i] \in Jobs /\ jobs[i].at = "issued"
  BY <1>2 DEF RunDeletion
<1>4. job \in Jobs /\ Alike(jobs[i], job) /\ job.by = jobs[i].by
  BY <1>2, <1>3, RunKeeps
<1> HIDE DEF job
<1>5. /\ StateOK(w) /\ w.list = list /\ w.crashed = crashed
      /\ Len(w.jobs) = Len(jobs) /\ Others(jobs, i, w.jobs) /\ w.jobs[i] = job
      /\ i \in DOMAIN w.jobs
  <2>1. i \in DOMAIN Now.jobs /\ job.by = Now.jobs[i].by
    BY <1>4, NowFields
  <2> HIDE DEF w
  <2>2. /\ StateOK(w) /\ w.list = Now.list /\ w.crashed = Now.crashed
        /\ Len(w.jobs) = Len(Now.jobs) /\ Others(Now.jobs, i, w.jobs) /\ w.jobs[i] = job
        /\ i \in DOMAIN w.jobs
    BY <1>2, <1>4, <2>1, WithJobOK DEF w
  <2> QED
    BY <2>2, NowFields
<1> HIDE DEF w
<1>6. /\ Inv' /\ list' = w.list /\ jobs' = w.jobs /\ crashed' = w.crashed
  BY <1>1, <1>5, BecomeKeeps DEF Inv
<1> QED
  BY <1>1, <1>4, <1>5, <1>6

(* The registry's answer to a request. *)
LEMMA ServedStep ==
  ASSUME Inv, NEW i \in DOMAIN jobs, NEW result \in {"ok", "err"}, CanServe(i),
         Served(i, result), registry' \in [Items -> Held]
  PROVE  /\ Inv' /\ crashed' = crashed /\ list' = list /\ page' = page
         /\ Len(jobs') <= Len(jobs) /\ Others(jobs, i, jobs')
         /\ jobs[i].at # "lost" =>
              \E k \in DOMAIN jobs' :
                /\ jobs'[k].kind = jobs[i].kind /\ jobs'[k].name = jobs[i].name
                /\ jobs'[k].at = jobs[i].at /\ jobs'[k].result = result
<1> DEFINE found == IF jobs[i].kind = "list" THEN SubjectsOf(registry) ELSE jobs[i].found
           j1 == [jobs[i] EXCEPT !.result = result]
           job == [j1 EXCEPT !.found = found]
           w1 == [Now EXCEPT !.jobs = RemoveAt(Now.jobs, i)]
           w2 == [Now EXCEPT !.jobs = [Now.jobs EXCEPT ![i] = job]]
<1>1. StateOK(Now) /\ jobs \in Seq(Jobs)
  BY DEF Inv, StateOK, StateTypes, Now
<1>2. /\ jobs[i] \in Jobs /\ jobs[i].at # "issued" /\ jobs[i].kind \in Requests
      /\ jobs[i].result = "open"
  BY <1>1 DEF CanServe
<1>3. found \in SUBSET (Subjects \cup Schemas) /\ (jobs[i].kind = "list" => found \in SUBSET Subjects)
  BY <1>2, SubjectsTyped DEF Inv, Jobs, JobTypes
<1> HIDE DEF found
<1>4. /\ j1 \in Jobs /\ j1.at = jobs[i].at /\ j1.kind = jobs[i].kind /\ j1.name = jobs[i].name
      /\ j1.by = jobs[i].by /\ j1.result = result
  BY <1>2 DEF Jobs, JobTypes, JobOK
<1> HIDE DEF j1
<1>5. /\ job \in Jobs /\ job.at = jobs[i].at /\ job.kind = jobs[i].kind /\ job.name = jobs[i].name
      /\ job.by = jobs[i].by /\ job.result = result
  BY <1>2, <1>3, <1>4 DEF Jobs, JobTypes, JobOK
<1>6. Become(IF job.at = "lost" THEN w1 ELSE w2)
  <2>1. Served(i, result) =
          Become(IF job.at = "lost" THEN WithoutJob(i)
                 ELSE [Now EXCEPT !.jobs = [@ EXCEPT ![i] = job]])
    BY DEF Served, job, j1, found
  <2>2. WithoutJob(i) = w1
    BY DEF WithoutJob
  <2> QED
    BY <2>1, <2>2
<1> HIDE DEF job
<1>7. CASE job.at = "lost"
  <2>1. /\ StateOK(w1) /\ w1.page = page /\ w1.list = list /\ w1.crashed = crashed
        /\ Len(w1.jobs) = Len(jobs) - 1 /\ Others(jobs, i, w1.jobs)
    BY <1>1, NowFields, WithoutJobOK
  <2>2. Become(w1)
    BY <1>6, <1>7
  <2> HIDE DEF w1
  <2>3. /\ Inv' /\ list' = w1.list /\ jobs' = w1.jobs /\ crashed' = w1.crashed /\ page' = w1.page
    BY <2>1, <2>2, BecomeKeeps
  <2> QED
    BY <1>1, <1>5, <1>7, <2>1, <2>3
<1>8. CASE job.at # "lost"
  <2>1. /\ StateOK(w2) /\ w2.page = page /\ w2.list = list /\ w2.crashed = crashed
        /\ Len(w2.jobs) = Len(jobs) /\ Others(jobs, i, w2.jobs) /\ w2.jobs[i] = job
        /\ i \in DOMAIN w2.jobs
    BY <1>1, <1>5, NowFields, WithJobOK
  <2>2. Become(w2)
    BY <1>6, <1>8
  <2> HIDE DEF w2
  <2>3. /\ Inv' /\ list' = w2.list /\ jobs' = w2.jobs /\ crashed' = w2.crashed /\ page' = w2.page
    BY <2>1, <2>2, BecomeKeeps
  <2> QED
    BY <1>1, <1>5, <1>8, <2>1, <2>3
<1> QED
  BY <1>7, <1>8

(* A request's started message: whoever gets it awaits the answer. *)
LEMMA BegunKeeps ==
  ASSUME NEW w, StateOK(w), NEW i \in DOMAIN w.jobs,
         w.jobs[i].at \notin {"issued", "lost"}
  PROVE  LET v == Begun(w, i)
         IN  /\ StateOK(v) /\ v.page = w.page /\ v.list = w.list /\ v.onTab = w.onTab
             /\ v.crashed = w.crashed /\ Len(v.jobs) <= Len(w.jobs)
             /\ Others(w.jobs, i, v.jobs)
             /\ w.awaits => \E k \in DOMAIN v.jobs : Alike(w.jobs[i], v.jobs[k])
<1>0. w.jobs \in Seq(Jobs) /\ w.jobs[i] \in Jobs
  BY DEF StateOK, StateTypes
<1> DEFINE job(at) == [w.jobs[i] EXCEPT !.at = at]
           v(at) == [w EXCEPT !.jobs = [w.jobs EXCEPT ![i] = job(at)]]
           u == [w EXCEPT !.jobs = RemoveAt(w.jobs, i)]
<1>1. ASSUME NEW at \in {"awaited", "lost"}
      PROVE  /\ job(at) \in Jobs /\ job(at).by = w.jobs[i].by
             /\ at = "awaited" => Alike(w.jobs[i], job(at))
  BY <1>0 DEF Jobs, JobTypes, JobOK, Alike
<1>2. ASSUME NEW at \in {"awaited", "lost"}
      PROVE  /\ StateOK(v(at)) /\ v(at).page = w.page /\ v(at).list = w.list
             /\ v(at).onTab = w.onTab /\ v(at).crashed = w.crashed
             /\ Len(v(at).jobs) = Len(w.jobs) /\ Others(w.jobs, i, v(at).jobs)
             /\ at = "awaited" => \E k \in DOMAIN v(at).jobs : Alike(w.jobs[i], v(at).jobs[k])
  <2> DEFINE k == job(at)
             x == [w EXCEPT !.jobs = [w.jobs EXCEPT ![i] = k]]
  <2>1. k \in Jobs /\ k.by = w.jobs[i].by /\ (at = "awaited" => Alike(w.jobs[i], k))
    BY <1>1
  <2>2. v(at) = x
    OBVIOUS
  <2> HIDE DEF k, v
  <2> HIDE DEF x
  <2>3. /\ StateOK(x) /\ x.page = w.page /\ x.list = w.list /\ x.onTab = w.onTab
        /\ x.crashed = w.crashed /\ Len(x.jobs) = Len(w.jobs) /\ Others(w.jobs, i, x.jobs)
        /\ x.jobs[i] = k /\ i \in DOMAIN x.jobs
    BY <2>1, WithJobOK DEF x
  <2> QED
    BY <2>1, <2>2, <2>3
<1>3. /\ StateOK(u) /\ u.page = w.page /\ u.list = w.list /\ u.onTab = w.onTab
      /\ u.crashed = w.crashed /\ Len(u.jobs) = Len(w.jobs) - 1 /\ Others(w.jobs, i, u.jobs)
  BY WithoutJobOK
<1>4. Begun(w, i) = IF w.awaits THEN v("awaited")
                    ELSE IF w.jobs[i].result = "open" THEN v("lost") ELSE u
  BY <1>0 DEF Begun, Unawaited
<1> HIDE DEF v, u, job
<1>5. w.awaits \in BOOLEAN /\ Len(w.jobs) \in Nat
  BY <1>0 DEF StateOK, StateTypes
<1>6. CASE w.awaits
  BY <1>2, <1>4, <1>5, <1>6
<1>7. CASE ~w.awaits /\ w.jobs[i].result = "open"
  BY <1>2, <1>4, <1>5, <1>7
<1>8. CASE ~w.awaits /\ w.jobs[i].result # "open"
  BY <1>3, <1>4, <1>5, <1>8
<1> QED
  BY <1>5, <1>6, <1>7, <1>8

LEMMA RequestStartedStep ==
  ASSUME Inv, NEW sel \in Selections(list), NEW i \in DOMAIN jobs, RequestStarted(i, sel)
  PROVE  /\ Inv' /\ registry' = registry /\ crashed' = crashed
         /\ Len(jobs') <= Len(jobs) /\ Others(jobs, i, jobs')
         /\ page = "list" /\ onTab =>
              /\ list'.subjects = list.subjects
              /\ jobs[i].kind = "delete" => \E k \in DOMAIN jobs' : Alike(jobs[i], jobs'[k])
<1> DEFINE msg == Message(StartedOf(jobs[i].kind))
           v == Handle(Now, msg, sel)
           w == Begun(v, i)
<1>0. /\ StateOK(Now) /\ list \in Lists /\ jobs \in Seq(Jobs) /\ sel \in Selectable
      /\ jobs[i].kind \in Requests /\ jobs[i].at = "sent" /\ Become(w) /\ registry' = registry
  BY SelectionsTyped DEF Inv, StateOK, StateTypes, Now, RequestStarted
<1>1. /\ msg.type \in {"listingStarted", "deletionStarted", "versionsStarted",
                       "removalStarted", "creationStarted"}
      /\ jobs[i].kind = "delete" => msg.type = "deletionStarted"
  BY <1>0 DEF Message, StartedOf, Requests
<1>2. IsListMessage(msg) /\ msg.type # "key"
  BY <1>1 DEF IsListMessage, IsMessage
<1> HIDE DEF msg
<1>3. HandledAs(Now, msg, sel, v)
  BY <1>0, <1>2, HandleHeard
<1> HIDE DEF v
<1>4. /\ StateOK(v) /\ Kept(jobs, v.jobs) /\ Len(v.jobs) = Len(jobs) /\ v.crashed = crashed
      /\ page = "list" /\ onTab =>
           /\ v.list.subjects = list.subjects
           /\ jobs[i].kind = "delete" => v.awaits
  <2>1. SubjectsAfter(list, msg) = list.subjects
    BY <1>1 DEF SubjectsAfter, IsKey
  <2>2. Len(v.jobs) = Len(jobs)
    BY <1>1, <1>3, NowFields DEF HandledAs
  <2> QED
    BY <1>1, <1>3, <2>1, <2>2, NowFields DEF HandledAs, Heard, Started
<1>5. v.jobs \in Seq(Jobs) /\ i \in DOMAIN v.jobs /\ Alike(jobs[i], v.jobs[i])
  BY <1>4 DEF Kept, StateOK, StateTypes
<1>6. v.jobs[i].at \notin {"issued", "lost"}
  BY <1>0, <1>5 DEF Alike
<1>7. /\ StateOK(w) /\ w.list = v.list /\ w.crashed = crashed
      /\ Len(w.jobs) <= Len(jobs) /\ Others(v.jobs, i, w.jobs)
      /\ v.awaits => \E k \in DOMAIN w.jobs : Alike(v.jobs[i], w.jobs[k])
  BY <1>4, <1>5, <1>6, BegunKeeps
<1> HIDE DEF w
<1>8. /\ Inv' /\ list' = w.list /\ jobs' = w.jobs /\ crashed' = w.crashed
  BY <1>0, <1>7, BecomeKeeps DEF Inv
<1>9. Others(jobs, i, w.jobs)
  <2>1. w.jobs \in Seq(Jobs)
    BY <1>7 DEF StateOK, StateTypes
  <2> QED
    BY <1>0, <1>4, <1>5, <1>7, <2>1, KeptOthers
<1>10. v.awaits => \E k \in DOMAIN w.jobs : Alike(jobs[i], w.jobs[k])
  <2> SUFFICES ASSUME v.awaits PROVE \E k \in DOMAIN w.jobs : Alike(jobs[i], w.jobs[k])
    OBVIOUS
  <2>1. PICK k \in DOMAIN w.jobs : Alike(v.jobs[i], w.jobs[k])
    BY <1>7
  <2>2. Alike(jobs[i], w.jobs[k])
    BY <1>5, <2>1 DEF Alike
  <2> QED
    BY <2>2
<1> QED
  BY <1>0, <1>4, <1>7, <1>8, <1>9, <1>10

(* The answer to a request. *)
LEMMA AnswerTyped ==
  ASSUME NEW job \in Jobs, job.result # "open"
  PROVE  /\ IsListMessage(Answer(job)) /\ Answer(job).type # "key"
         /\ Answer(job).type = "listed" => job.kind = "list" /\ job.result = "ok"
                                           /\ Answer(job).found = job.found
         /\ job.kind = "delete" /\ job.result = "ok" =>
              Answer(job).type = "deleted" /\ Answer(job).name = job.name
<1>1. job.kind \in Requests /\ job.result \in {"ok", "err"}
      /\ (job.kind = "list" => job.found \in SUBSET Subjects)
  BY DEF Jobs, JobTypes, JobOK
<1>2. CASE job.kind = "list" /\ job.result = "ok"
  BY <1>1, <1>2 DEF Answer, IsListMessage, IsMessage
<1>3. CASE job.kind = "list" /\ job.result = "err"
  BY <1>3 DEF Answer, IsListMessage, IsMessage, Message
<1>4. CASE job.kind = "delete" /\ job.result = "ok"
  BY <1>4 DEF Answer, IsListMessage, IsMessage
<1>5. CASE job.kind = "delete" /\ job.result = "err"
  BY <1>5 DEF Answer, IsListMessage, IsMessage, Message
<1>6. CASE job.kind = "versions"
  BY <1>6 DEF Answer, IsListMessage, IsMessage
<1>7. CASE job.kind = "remove" /\ job.result = "ok"
  BY <1>7 DEF Answer, IsListMessage, IsMessage
<1>8. CASE job.kind = "remove" /\ job.result = "err"
  BY <1>8 DEF Answer, IsListMessage, IsMessage, Message
<1>9. CASE job.kind = "register"
  BY <1>9 DEF Answer, IsListMessage, IsMessage, Message
<1> QED
  BY <1>1, <1>2, <1>3, <1>4, <1>5, <1>6, <1>7, <1>8, <1>9 DEF Requests

LEMMA MarkedKeeps ==
  ASSUME NEW w, StateOK(w), NEW job
  PROVE  LET v == Marked(w, job)
         IN  /\ StateOK(v) /\ v.page = w.page /\ v.list = w.list /\ v.onTab = w.onTab
             /\ v.crashed = w.crashed /\ v.jobs = w.jobs
<1> DEFINE d == [w.details EXCEPT !.stray = TRUE]
           v == [w EXCEPT !.details = d]
<1>1. HasSubject(d)
  BY SubjectKept DEF StateOK
<1>2. Marked(w, job) = v \/ Marked(w, job) = w
  BY DEF Marked
<1> HIDE DEF d
<1>3. /\ StateOK(v) /\ v.page = w.page /\ v.list = w.list /\ v.onTab = w.onTab
      /\ v.crashed = w.crashed /\ v.jobs = w.jobs
  BY <1>1, StateWithDetails
<1> HIDE DEF v
<1> QED
  BY <1>2, <1>3

LEMMA AnsweredStep ==
  ASSUME Inv, NEW sel \in Selections(list), NEW i \in DOMAIN jobs, Answered(i, sel)
  PROVE  /\ Inv' /\ registry' = registry /\ crashed' = crashed
         /\ Len(jobs') <= Len(jobs) /\ Others(jobs, i, jobs') /\ jobs[i] \in Jobs
         /\ jobs[i].result # "open"
         /\ page = "list" /\ onTab => list'.subjects = SubjectsAfter(list, Answer(jobs[i]))
<1> DEFINE u == [Now EXCEPT !.jobs = RemoveAt(Now.jobs, i)]
           v == Marked(u, jobs[i])
           w == Handle(v, Answer(jobs[i]), sel)
<1>0. /\ StateOK(Now) /\ list \in Lists /\ jobs \in Seq(Jobs) /\ sel \in Selectable
      /\ jobs[i].result # "open" /\ registry' = registry
  BY SelectionsTyped DEF Inv, StateOK, StateTypes, Now, Answered
<1>1. Become(w)
  BY DEF Answered, WithoutJob
<1>2. /\ StateOK(u) /\ u.page = page /\ u.list = list /\ u.onTab = onTab /\ u.crashed = crashed
      /\ Len(u.jobs) = Len(jobs) - 1 /\ Others(jobs, i, u.jobs)
  BY <1>0, NowFields, WithoutJobOK
<1> HIDE DEF u
<1>3. /\ StateOK(v) /\ v.page = page /\ v.list = list /\ v.onTab = onTab
      /\ v.crashed = crashed /\ v.jobs = u.jobs
  BY <1>2, MarkedKeeps
<1> HIDE DEF v
<1>4. HandledAs(v, Answer(jobs[i]), sel, w)
  BY <1>0, <1>3, AnswerTyped, HandleHeard
<1> HIDE DEF w
<1>5. StateOK(w) /\ Kept(u.jobs, w.jobs) /\ Len(w.jobs) <= Len(jobs) /\ w.crashed = crashed
  <2>1. Len(jobs) \in Nat
    BY <1>0
  <2> QED
    BY <1>2, <1>3, <1>4, <2>1 DEF HandledAs, Heard
<1>6. Others(jobs, i, w.jobs)
  <2>1. u.jobs \in Seq(Jobs) /\ w.jobs \in Seq(Jobs)
    BY <1>2, <1>5 DEF StateOK, StateTypes
  <2> QED
    BY <1>0, <1>2, <1>5, <2>1, OthersKept
<1>7. /\ Inv' /\ list' = w.list /\ jobs' = w.jobs /\ crashed' = w.crashed
  BY <1>0, <1>1, <1>5, BecomeKeeps DEF Inv
<1> QED
  BY <1>0, <1>3, <1>4, <1>5, <1>6, <1>7 DEF HandledAs

(* The messages the page of a subject posts. *)
LEMMA CopiedStep ==
  ASSUME Inv, NEW i \in DOMAIN jobs, NEW type \in {"copied", "copyErr"}, Copied(i, type)
  PROVE  /\ Inv' /\ registry' = registry /\ crashed' = crashed /\ jobs[i].kind = "copy"
         /\ Len(jobs') <= Len(jobs) /\ Others(jobs, i, jobs')
         /\ page = "list" /\ onTab => list'.subjects = list.subjects
<1> DEFINE u == [Now EXCEPT !.jobs = RemoveAt(Now.jobs, i)]
           msg == Message(type)
           w == Handle(u, msg, NoSubject)
<1>0. /\ StateOK(Now) /\ jobs \in Seq(Jobs) /\ NoSubject \in Selectable
      /\ jobs[i].kind = "copy" /\ registry' = registry
  BY DEF Inv, StateOK, StateTypes, Now, Copied, Selectable
<1>1. Become(w)
  BY DEF Copied, WithoutJob
<1>2. /\ StateOK(u) /\ u.page = page /\ u.list = list /\ u.onTab = onTab /\ u.crashed = crashed
      /\ Len(u.jobs) = Len(jobs) - 1 /\ Others(jobs, i, u.jobs)
  BY <1>0, NowFields, WithoutJobOK
<1> HIDE DEF u
<1>3. IsListMessage(msg) /\ msg.type \in {"copied", "copyErr"}
  BY DEF IsListMessage, IsMessage, Message
<1> HIDE DEF msg
<1>4. HandledAs(u, msg, NoSubject, w)
  BY <1>0, <1>2, <1>3, HandleHeard
<1> HIDE DEF w
<1>5. StateOK(w) /\ Kept(u.jobs, w.jobs) /\ Len(w.jobs) <= Len(jobs) /\ w.crashed = crashed
  <2>1. Len(jobs) \in Nat
    BY <1>0
  <2> QED
    BY <1>2, <1>4, <2>1 DEF HandledAs, Heard
<1>6. Others(jobs, i, w.jobs)
  <2>1. u.jobs \in Seq(Jobs) /\ w.jobs \in Seq(Jobs)
    BY <1>2, <1>5 DEF StateOK, StateTypes
  <2> QED
    BY <1>0, <1>2, <1>5, <2>1, OthersKept
<1>7. /\ Inv' /\ list' = w.list /\ jobs' = w.jobs /\ crashed' = w.crashed
  BY <1>0, <1>1, <1>5, BecomeKeeps DEF Inv
<1>8. SubjectsAfter(list, msg) = list.subjects
  BY <1>3 DEF SubjectsAfter, IsKey
<1> QED
  BY <1>0, <1>2, <1>4, <1>5, <1>6, <1>7, <1>8 DEF HandledAs

LEMMA ReturnStep ==
  ASSUME Inv, NEW i \in DOMAIN jobs, Return(i)
  PROVE  /\ Inv' /\ registry' = registry /\ crashed' = crashed /\ jobs[i].kind = "return"
         /\ Len(jobs') <= Len(jobs) /\ Others(jobs, i, jobs')
         /\ page = "list" => list'.subjects = list.subjects
<1> DEFINE u == [Now EXCEPT !.jobs = RemoveAt(Now.jobs, i)]
           v == Back(u, TRUE)
           w == IF onTab THEN v ELSE u
<1>0. /\ StateOK(Now) /\ jobs \in Seq(Jobs) /\ Len(jobs) \in Nat /\ list \in Lists /\ Quiet(list)
      /\ jobs[i].kind = "return" /\ registry' = registry
  BY DEF Inv, StateOK, StateTypes, Now, Return
<1>1. Become(w)
  BY DEF Return, WithoutJob
<1>2. /\ StateOK(u) /\ u.page = page /\ u.list = list /\ u.onTab = onTab /\ u.crashed = crashed
      /\ Len(u.jobs) = Len(jobs) - 1 /\ Others(jobs, i, u.jobs)
  BY <1>0, NowFields, WithoutJobOK
<1> HIDE DEF u
<1>3. /\ Follows(u, v) /\ Len(v.jobs) <= Len(jobs)
      /\ page = "list" => v.list.subjects = list.subjects
  <2>1. /\ Follows(u, v)
        /\ v.list = ListUpdate(IF TRUE /\ u.page # "list" THEN NewListPage ELSE u.list,
                               Message("other"), NoSubject).next
        /\ Len(v.jobs) = Len(u.jobs) \/ Len(v.jobs) = Len(u.jobs) + 1
    BY <1>2, BackKeeps
  <2>2. page = "list" => v.list = ListUpdate(list, Message("other"), NoSubject).next
    BY <1>2, <2>1
  <2>3. NoSubject \in Selectable
    BY DEF Selectable
  <2>4. ListUpdate(list, Message("other"), NoSubject).next.subjects
          = SubjectsAfter(list, Message("other"))
    BY <1>0, <2>3, OtherIsMessage, ListUpdateSubjects DEF IsOther
  <2>5. SubjectsAfter(list, Message("other")) = list.subjects
    BY DEF SubjectsAfter, IsKey, Message
  <2> HIDE DEF v
  <2> QED
    BY <1>0, <1>2, <2>1, <2>2, <2>4, <2>5
<1> HIDE DEF v
<1>4. StateOK(w) /\ Kept(u.jobs, w.jobs) /\ Len(w.jobs) <= Len(jobs) /\ w.crashed = crashed
      /\ (page = "list" => w.list.subjects = list.subjects)
  <2>1. u.jobs \in Seq(Jobs)
    BY <1>2 DEF StateOK, StateTypes
  <2> QED
    BY <1>0, <1>2, <1>3, <2>1, KeptSelf DEF Follows
<1> HIDE DEF w
<1>5. Others(jobs, i, w.jobs)
  <2>1. u.jobs \in Seq(Jobs) /\ w.jobs \in Seq(Jobs)
    BY <1>2, <1>4 DEF StateOK, StateTypes
  <2> QED
    BY <1>0, <1>2, <1>4, <2>1, OthersKept
<1>6. /\ Inv' /\ list' = w.list /\ jobs' = w.jobs /\ crashed' = w.crashed
  BY <1>0, <1>1, <1>4, BecomeKeeps DEF Inv
<1> QED
  BY <1>0, <1>4, <1>5, <1>6

(* A spinner's frame and a notification's hiding. *)
LEMMA QuietStep ==
  ASSUME Inv, NEW u, StateOK(u), u.page = page, u.list = list, u.onTab = onTab,
         u.crashed = crashed, u.jobs = jobs,
         NEW msg \in {Tick, Hide}, Become(Handle(u, msg, NoSubject)), registry' = registry
  PROVE  /\ Inv' /\ crashed' = crashed /\ Len(jobs') = Len(jobs) /\ Kept(jobs, jobs')
         /\ page = "list" /\ onTab => list'.subjects = list.subjects
<1> DEFINE w == Handle(u, msg, NoSubject)
<1>1. IsListMessage(msg) /\ msg.type \in {"tick", "hide"}
  BY DEF IsListMessage, IsMessage, Tick, Hide
<1>2. NoSubject \in Selectable /\ Become(w)
  BY DEF Selectable
<1>3. HandledAs(u, msg, NoSubject, w)
  BY <1>1, <1>2, HandleHeard
<1> HIDE DEF w
<1>4. SubjectsAfter(list, msg) = list.subjects
  BY <1>1 DEF SubjectsAfter, IsKey
<1>5. StateOK(w) /\ Kept(jobs, w.jobs) /\ Len(w.jobs) = Len(jobs) /\ w.crashed = crashed
      /\ (page = "list" /\ onTab => w.list.subjects = list.subjects)
  BY <1>1, <1>3, <1>4 DEF HandledAs, Heard
<1>6. /\ Inv' /\ list' = w.list /\ jobs' = w.jobs /\ crashed' = w.crashed
  BY <1>2, <1>5, BecomeKeeps DEF Inv
<1> QED
  BY <1>5, <1>6

LEMMA HideStep ==
  ASSUME Inv, NEW left \in BOOLEAN, HideNotification(left)
  PROVE  /\ Inv' /\ registry' = registry /\ crashed' = crashed /\ Len(jobs') = Len(jobs)
         /\ Kept(jobs, jobs')
         /\ page = "list" /\ onTab => list'.subjects = list.subjects
<1> DEFINE u == [Now EXCEPT !.timers[page] = @ /\ ~left]
           kept == [timers EXCEPT ![page] = @ /\ ~left]
           v == [Now EXCEPT !.timers = kept]
<1>1. Become(Handle(u, Hide, NoSubject)) /\ registry' = registry
  BY DEF HideNotification
<1>2. u = v
  BY NowFields
<1> HIDE DEF kept, u
<1>3. /\ StateOK(v) /\ v.page = page /\ v.list = list /\ v.onTab = onTab
      /\ v.crashed = crashed /\ v.jobs = jobs
  BY NowFields DEF Inv, StateOK, StateTypes
<1> HIDE DEF v
<1> QED
  BY <1>1, <1>2, <1>3, QuietStep

LEMMA TickStep ==
  ASSUME Inv, SpinnerTick
  PROVE  /\ Inv' /\ registry' = registry /\ crashed' = crashed /\ Len(jobs') = Len(jobs)
         /\ Kept(jobs, jobs')
         /\ page = "list" /\ onTab => list'.subjects = list.subjects
<1>1. Become(Handle(Now, Tick, NoSubject)) /\ registry' = registry
  BY DEF SpinnerTick
<1>2. StateOK(Now)
  BY DEF Inv
<1> QED
  BY <1>1, <1>2, NowFields, QuietStep

LEMMA StutterStep ==
  ASSUME Inv, UNCHANGED vars
  PROVE  Inv'
<1>1. Now' = Now
  BY DEF vars, Now
<1>2. StateOK(Now)'
  BY <1>1 DEF Inv, StateOK, StateTypes, Quiet, HasSubject, OfPage
<1> QED
  BY <1>2 DEF Inv, vars

-----------------------------------------------------------------------------
(* The theorems.                                                           *)

(* Every step but that of a key leaves the program running, and asks for   *)
(* nothing new.                                                            *)
LEMMA OtherSteps ==
  ASSUME Inv, Next,
         ~ \E sel \in Selections(list) : \E msg \in user.inputs[page] : Press(msg, sel)
  PROVE  Inv' /\ crashed' = crashed /\ Len(jobs') <= Len(jobs)
<1>1. Len(jobs) \in Nat
  BY DEF Inv, StateOK, StateTypes, Now
<1>2. ASSUME NEW i \in DOMAIN jobs, RequestDone(i)
      PROVE  Inv' /\ crashed' = crashed /\ Len(jobs') <= Len(jobs)
  <2>1. CanServe(i) /\ Served(i, "ok") /\ registry' \in [Items -> Held]
    BY <1>2, AfterTyped DEF RequestDone, Inv
  <2> QED
    BY <2>1, ServedStep
<1>3. ASSUME NEW i \in DOMAIN jobs, RequestFails(i)
      PROVE  Inv' /\ crashed' = crashed /\ Len(jobs') <= Len(jobs)
  <2>1. CanServe(i) /\ Served(i, "err") /\ registry' \in [Items -> Held]
    BY <1>3 DEF RequestFails, Inv
  <2> QED
    BY <2>1, ServedStep
<1>4. ASSUME NEW i \in DOMAIN jobs,
             \/ \E sel \in Selections(list) : RequestStarted(i, sel) \/ Answered(i, sel)
             \/ RunDeletion(i)
             \/ \E type \in {"copied", "copyErr"} : Copied(i, type)
             \/ Return(i)
      PROVE  Inv' /\ crashed' = crashed /\ Len(jobs') <= Len(jobs)
  BY <1>1, <1>4, RequestStartedStep, AnsweredStep, RunDeletionStep, CopiedStep, ReturnStep
<1>5. ASSUME SpinnerTick \/ \E left \in BOOLEAN : HideNotification(left)
      PROVE  Inv' /\ crashed' = crashed /\ Len(jobs') <= Len(jobs)
  BY <1>1, <1>5, TickStep, HideStep
<1> QED
  BY <1>2, <1>3, <1>4, <1>5 DEF Next

LEMMA NextInv == Inv /\ [Next]_vars => Inv'
<1> SUFFICES ASSUME Inv, [Next]_vars PROVE Inv'
  OBVIOUS
<1>1. CASE UNCHANGED vars
  BY <1>1, StutterStep
<1>2. CASE \E sel \in Selections(list) : \E msg \in user.inputs[page] : Press(msg, sel)
  BY <1>2, PressStep
<1>3. CASE Next /\ ~ \E sel \in Selections(list) : \E msg \in user.inputs[page] : Press(msg, sel)
  BY <1>3, OtherSteps
<1> QED
  BY <1>1, <1>2, <1>3

THEOREM Invariant == Spec => []Inv
<1> QED
  BY InitInv, NextInv, PTL DEF Spec

(* Two prompts never have the keys at once. *)
THEOREM PromptsApart == Spec => []OnePrompt
<1>1. Inv => OnePrompt
  BY NowFields DEF Inv, StateOK, Quiet, OnePrompt
<1> QED
  BY <1>1, Invariant, PTL

(* A subject is deleted only if the prompt names it and says so, and for   *)
(* good only if it was so asked, or the tab was changed.                   *)
THEOREM DeletionsAreAsked == Spec => PermanentIsAsked
<1> DEFINE A == /\ Confirms => Prompted(Last(jobs'))
                /\ \A i \in DOMAIN jobs :
                     /\ jobs[i].kind = "delete" /\ jobs[i].permanent
                     /\ registry'[jobs[i].name] # registry[jobs[i].name]
                     => jobs[i].prompt # "active" \/ jobs[i].moved
<1>1. ASSUME Inv, [Next]_vars PROVE [A]_vars
  <2> SUFFICES ASSUME Next PROVE A
    BY <1>1
  <2>1. jobs \in Seq(Jobs) /\ Len(jobs) \in Nat
    BY <1>1 DEF Inv, StateOK, StateTypes, Now
  <2>2. Confirms => Prompted(Last(jobs'))
    <3>1. CASE \E sel \in Selections(list) : \E msg \in user.inputs[page] : Press(msg, sel)
      BY <1>1, <3>1, PressStep
    <3>2. CASE ~ \E sel \in Selections(list) : \E msg \in user.inputs[page] : Press(msg, sel)
      <4>1. Len(jobs') <= Len(jobs) /\ Inv'
        BY <1>1, <3>2, OtherSteps
      <4>2. Len(jobs') \in Nat
        BY <4>1 DEF Inv, StateOK, StateTypes, Now
      <4> QED
        BY <2>1, <4>1, <4>2 DEF Confirms
    <3> QED
      BY <3>1, <3>2
  <2>3. ASSUME NEW i \in DOMAIN jobs, jobs[i].permanent
        PROVE  jobs[i].prompt # "active" \/ jobs[i].moved
    BY <2>1, <2>3 DEF Jobs, JobOK
  <2> QED
    BY <2>2, <2>3
<1> QED
  BY <1>1, Invariant, PTL DEF Spec, PermanentIsAsked

-----------------------------------------------------------------------------
(* The list and the registry.                                              *)

Settled(s) == IsActive(registry[s]) \/ Coming(s)

LEMMA SettledTruthful ==
  ASSUME NEW s, Truthful(s), list'.subjects \subseteq list.subjects, Settled(s) => Settled(s)'
  PROVE  Truthful(s)'
BY DEF Truthful, Settled

(* The news of a deletion stay under way while no step hands them over.    *)
LEMMA ComingKept ==
  ASSUME NEW s, NEW i, Others(jobs, i, jobs'),
         i \in DOMAIN jobs =>
           \/ jobs[i].kind # "delete" \/ jobs[i].name # s \/ jobs[i].result # "ok"
           \/ \E k \in DOMAIN jobs' : Alike(jobs[i], jobs'[k])
  PROVE  Coming(s) => Coming(s)'
<1> SUFFICES ASSUME NEW j \in DOMAIN jobs, jobs[j].kind = "delete", jobs[j].name = s,
                    jobs[j].at # "lost", jobs[j].result = "ok"
             PROVE  \E k \in DOMAIN jobs' : /\ jobs'[k].kind = "delete" /\ jobs'[k].name = s
                                            /\ jobs'[k].at # "lost" /\ jobs'[k].result = "ok"
  BY DEF Coming
<1>1. PICK k \in DOMAIN jobs' : Alike(jobs[j], jobs'[k])
  BY DEF Others
<1> QED
  BY <1>1 DEF Alike

LEMMA KeptIsOthers ==
  ASSUME NEW i, Kept(jobs, jobs'), jobs \in Seq(Jobs), jobs' \in Seq(Jobs)
  PROVE  Others(jobs, i, jobs') /\ \A j \in DOMAIN jobs : \E k \in DOMAIN jobs' : Alike(jobs[j], jobs'[k])
<1>1. DOMAIN jobs \subseteq DOMAIN jobs'
  BY DEF Kept
<1> QED
  BY <1>1 DEF Kept, Others

(* What the step of a request says to the list.                            *)
LEMMA DoneFollows ==
  ASSUME Inv, NEW s \in Items, Truthful(s), page = "list", ~Unheard,
         NEW i \in DOMAIN jobs, RequestDone(i)
  PROVE  Truthful(s)'
<1>1. /\ jobs \in Seq(Jobs) /\ jobs[i] \in Jobs /\ OfPage(jobs, page)
      /\ jobs[i].result = "open" /\ registry' = After(registry, jobs[i])
      /\ registry \in [Items -> Held] /\ CanServe(i) /\ Served(i, "ok")
  BY DEF Inv, StateOK, StateTypes, Now, RequestDone, CanServe
<1>2. registry' \in [Items -> Held]
  BY <1>1, AfterTyped
<1>3. /\ list' = list /\ Others(jobs, i, jobs')
      /\ jobs[i].at # "lost" =>
           \E k \in DOMAIN jobs' :
             /\ jobs'[k].kind = jobs[i].kind /\ jobs'[k].name = jobs[i].name
             /\ jobs'[k].at = jobs[i].at /\ jobs'[k].result = "ok"
  BY <1>1, <1>2, ServedStep
<1>4. Coming(s) => Coming(s)'
  BY <1>1, <1>3, ComingKept
<1>5. IsActive(registry[s]) => Settled(s)'
  <2>1. CASE jobs[i].kind = "delete" /\ jobs[i].name = s
    BY <1>3, <2>1 DEF Unheard, Settled, Coming
  <2>2. CASE jobs[i].kind = "remove"
    <3>1. jobs[i].by = "details"
      BY <2>2 DEF Unheard
    <3> QED
      BY <1>1, <3>1 DEF OfPage
  <2>3. CASE jobs[i].kind = "register"
    BY <1>1, <2>3, RegisteredActive DEF Settled
  <2>4. CASE jobs[i].kind = "delete" /\ jobs[i].name # s
    BY <1>1, <2>4, AfterTyped DEF Settled
  <2>5. CASE jobs[i].kind \notin {"delete", "remove", "register"}
    BY <1>1, <2>5, AfterTyped DEF Settled
  <2> QED
    BY <2>1, <2>2, <2>3, <2>4, <2>5
<1> QED
  BY <1>3, <1>4, <1>5, SettledTruthful DEF Settled

LEMMA AnsweredFollows ==
  ASSUME Inv, NEW s \in Items, Truthful(s), page = "list", onTab, ~Outdated,
         NEW sel \in Selections(list), NEW i \in DOMAIN jobs, Answered(i, sel)
  PROVE  Truthful(s)'
<1> DEFINE msg == Answer(jobs[i])
<1>1. /\ registry' = registry /\ Others(jobs, i, jobs')
      /\ jobs[i] \in Jobs /\ jobs[i].result # "open"
      /\ list'.subjects = SubjectsAfter(list, msg)
  BY AnsweredStep
<1>2. /\ msg.type # "key"
      /\ msg.type = "listed" => jobs[i].kind = "list" /\ jobs[i].result = "ok"
                                /\ msg.found = jobs[i].found
      /\ jobs[i].kind = "delete" /\ jobs[i].result = "ok" =>
           msg.type = "deleted" /\ msg.name = jobs[i].name
  BY <1>1, AnswerTyped
<1>3. ~IsKey(msg, "f5")
  BY <1>2 DEF IsKey
<1> HIDE DEF msg
<1>4. CASE msg.type = "listed" /\ msg.found # {}
  <2>1. list'.subjects = SubjectsOf(registry)
    BY <1>1, <1>2, <1>3, <1>4 DEF Outdated, SubjectsAfter
  <2>2. ASSUME NEW x \in SubjectsOf(registry), x.name = s, ~x.deleted
        PROVE  IsActive(registry[s])
    BY <2>2 DEF SubjectsOf, SubjectOf, IsActive
  <2> QED
    BY <1>1, <2>1, <2>2 DEF Truthful
<1>5. CASE jobs[i].kind = "delete" /\ jobs[i].name = s /\ jobs[i].result = "ok"
  <2>1. list'.subjects = {x \in list.subjects : x.name # s}
    BY <1>1, <1>2, <1>3, <1>5 DEF SubjectsAfter
  <2> QED
    BY <2>1 DEF Truthful
<1>6. CASE /\ ~(msg.type = "listed" /\ msg.found # {})
           /\ ~(jobs[i].kind = "delete" /\ jobs[i].name = s /\ jobs[i].result = "ok")
  <2>1. list'.subjects \subseteq list.subjects
    BY <1>1, <1>3, <1>6 DEF SubjectsAfter
  <2>2. Coming(s) => Coming(s)'
    BY <1>1, <1>6, ComingKept
  <2> QED
    BY <1>1, <2>1, <2>2, SettledTruthful DEF Settled
<1> QED
  BY <1>4, <1>5, <1>6

(* The other steps keep the registry, and the jobs or all but one that is  *)
(* not the news of a deletion.                                             *)
LEMMA RestFollows ==
  ASSUME Inv, Inv', NEW s \in Items, Truthful(s), registry' = registry,
         list'.subjects \subseteq list.subjects,
         \/ Kept(jobs, jobs')
         \/ \E i \in DOMAIN jobs :
              /\ Others(jobs, i, jobs')
              /\ \/ jobs[i].kind # "delete" \/ jobs[i].result # "ok"
                 \/ \E k \in DOMAIN jobs' : Alike(jobs[i], jobs'[k])
  PROVE  Truthful(s)'
<1>1. jobs \in Seq(Jobs) /\ jobs' \in Seq(Jobs)
  BY DEF Inv, StateOK, StateTypes, Now
<1>2. Coming(s) => Coming(s)'
  BY <1>1, KeptIsOthers, ComingKept
<1> QED
  BY <1>2, SettledTruthful DEF Settled

(* The list comes to show as active a subject that was deleted only for    *)
(* one of the reasons named: each step of the program keeps it truthful.   *)
THEOREM ListIsTruthful == Spec => ListFollows
<1> DEFINE A == \A s \in Items : Truthful(s) /\ ~Truthful(s)' =>
                  page # "list" \/ ~onTab \/ Outdated \/ Unheard
<1>1. ASSUME Inv, [Next]_vars PROVE [A]_vars
  <2> SUFFICES ASSUME Next, NEW s \in Items, Truthful(s), page = "list", onTab, ~Outdated,
                      ~Unheard
               PROVE  Truthful(s)'
    BY <1>1
  <2>1. Inv /\ Inv'
    BY <1>1, NextInv
  <2>2. ASSUME NEW sel \in Selections(list), NEW msg \in user.inputs[page], Press(msg, sel)
        PROVE  Truthful(s)'
    BY <2>1, <2>2, PressStep, RestFollows
  <2>3. ASSUME NEW sel \in Selections(list), NEW i \in DOMAIN jobs, RequestStarted(i, sel)
        PROVE  Truthful(s)'
    BY <2>1, <2>3, RequestStartedStep, RestFollows
  <2>4. ASSUME NEW sel \in Selections(list), NEW i \in DOMAIN jobs, Answered(i, sel)
        PROVE  Truthful(s)'
    BY <2>1, <2>4, AnsweredFollows
  <2>5. ASSUME NEW i \in DOMAIN jobs, RunDeletion(i) PROVE Truthful(s)'
    BY <2>1, <2>5, RunDeletionStep, RestFollows
  <2>6. ASSUME NEW i \in DOMAIN jobs, RequestDone(i) PROVE Truthful(s)'
    BY <2>1, <2>6, DoneFollows
  <2>7. ASSUME NEW i \in DOMAIN jobs, RequestFails(i) PROVE Truthful(s)'
    <3>1. CanServe(i) /\ Served(i, "err") /\ registry' = registry /\ registry' \in [Items -> Held]
      BY <2>1, <2>7 DEF RequestFails, Inv
    <3>2. jobs[i].result = "open"
      BY <3>1 DEF CanServe
    <3> QED
      BY <2>1, <3>1, <3>2, ServedStep, RestFollows
  <2>8. ASSUME NEW i \in DOMAIN jobs, \E type \in {"copied", "copyErr"} : Copied(i, type)
        PROVE  Truthful(s)'
    BY <2>1, <2>8, CopiedStep, RestFollows
  <2>9. ASSUME NEW i \in DOMAIN jobs, Return(i) PROVE Truthful(s)'
    BY <2>1, <2>9, ReturnStep, RestFollows
  <2>10. ASSUME SpinnerTick \/ \E left \in BOOLEAN : HideNotification(left)
         PROVE  Truthful(s)'
    BY <2>1, <2>10, TickStep, HideStep, RestFollows
  <2> QED
    BY <2>2, <2>3, <2>4, <2>5, <2>6, <2>7, <2>8, <2>9, <2>10 DEF Next
<1> QED
  BY <1>1, Invariant, PTL DEF Spec, ListFollows
=============================================================================
