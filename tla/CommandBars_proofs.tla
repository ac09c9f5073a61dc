-------------------------- MODULE CommandBars_proofs --------------------------
(***************************************************************************)
(* Lemmas about the Update operators of CommandBars, for any items, search *)
(* terms and handlers: what they return, so that the steps of the pages    *)
(* with such bars are proved without looking into them again.              *)
(***************************************************************************)
EXTENDS CommandBars, TLAPS

NoteStates == {"idle", "error", "success", "spinning"}

(* The messages the bars may get (a key that types leaves a search term),   *)
(* and the handlers a page may bind.                                        *)
IsMessage(msg) == msg.type = "key" /\ msg.key \in TypedKeys => msg.term \in Terms
IsHandler(h) == h \in [state : NoteStates \cup {"keep"}, active : BOOLEAN, autoHide : BOOLEAN]
AreHandlers(handlers) == \A t \in DOMAIN handlers : IsHandler(handlers[t])

(* The active bar is open, of any state of the bars. *)
IsOpen(b) == /\ b.active = "delete" => b.del.active
             /\ b.active = "sort" => b.sort.active

DelType == [active : BOOLEAN, affirmed : BOOLEAN, value : Items \cup {NoItem}]
SearchType == [state : {"hidden", "searching", "searched"}, term : Terms]
SortType == [active : BOOLEAN]
NoteType == [active : BOOLEAN, autoHide : BOOLEAN, state : NoteStates]

(* Bars as a record of the types above. *)
LEMMA BarsFields ==
  ASSUME NEW b
  PROVE  b \in Bars <=>
           b \in [active : {"none", "notifier", "delete", "search", "sort"},
                  searchPrevActive : BOOLEAN, del : DelType, search : SearchType,
                  sort : SortType, note : NoteType]
BY DEF Bars, DelType, SearchType, SortType, NoteType, NoteStates

(* Clearing a flag of one bar leaves the other bars as they are. *)
LEMMA WithoutDelete ==
  ASSUME NEW b \in Bars
  PROVE  /\ [b EXCEPT !.del.active = FALSE] \in Bars
         /\ [b EXCEPT !.del.active = FALSE].active = b.active
<1> DEFINE d == [b.del EXCEPT !.active = FALSE]
<1>1. d \in DelType
  <2>1. b.del \in DelType
    BY BarsFields
  <2> QED
    BY <2>1 DEF DelType
<1>2. [b EXCEPT !.del.active = FALSE] = [b EXCEPT !.del = d]
  BY Zenon
<1> HIDE DEF d
<1> QED
  BY <1>1, <1>2, BarsFields

LEMMA WithoutSort ==
  ASSUME NEW b \in Bars
  PROVE  LET c == [b EXCEPT !.sort.active = FALSE]
         IN  c \in Bars /\ c.active = b.active /\ c.del = b.del
<1> DEFINE d == [b.sort EXCEPT !.active = FALSE]
<1>1. d \in SortType
  <2>1. b.sort \in SortType
    BY BarsFields
  <2> QED
    BY <2>1 DEF SortType
<1>2. [b EXCEPT !.sort.active = FALSE] = [b EXCEPT !.sort = d]
  BY Zenon
<1> HIDE DEF d
<1> QED
  BY <1>1, <1>2, BarsFields

LEMMA WithoutSearch ==
  ASSUME NEW b \in Bars
  PROVE  LET c == [b EXCEPT !.search.state = "hidden"]
         IN  c \in Bars /\ c.active = b.active /\ c.del = b.del /\ c.sort = b.sort
<1> DEFINE d == [b.search EXCEPT !.state = "hidden"]
<1>1. d \in SearchType
  <2>1. b.search \in SearchType
    BY BarsFields
  <2> QED
    BY <2>1 DEF SearchType
<1>2. [b EXCEPT !.search.state = "hidden"] = [b EXCEPT !.search = d]
  BY Zenon
<1> HIDE DEF d
<1> QED
  BY <1>1, <1>2, BarsFields

LEMMA WithPrevActive ==
  ASSUME NEW b \in Bars, NEW on \in BOOLEAN
  PROVE  LET c == [b EXCEPT !.searchPrevActive = on]
         IN  /\ c \in Bars
             /\ c.active = b.active /\ c.del = b.del
             /\ c.sort = b.sort /\ c.search = b.search
BY BarsFields

(* The prompt keeps its type, and reports as active what its flag says. *)
LEMMA DeleteUpdateReturns ==
  ASSUME NEW d \in DelType, NEW msg, NEW key, NEW valid
  PROVE  /\ DeleteUpdate(d, msg, key, valid).next \in DelType
         /\ DeleteUpdate(d, msg, key, valid).active
              = DeleteUpdate(d, msg, key, valid).next.active
BY DEF DelType, DeleteUpdate, Enter, Closed, Outcome

LEMMA SearchUpdateReturns ==
  ASSUME NEW s \in SearchType, NEW msg, IsMessage(msg)
  PROVE  SearchUpdate(s, msg).next \in SearchType
<1>1. AfterSearchKey(s, msg) \in SearchType
  BY BarsAssumption DEF SearchType, AfterSearchKey, NoSearch, IsMessage, IsKey
<1> QED
  BY <1>1 DEF SearchUpdate, Outcome

LEMMA SortUpdateReturns ==
  ASSUME NEW s \in SortType, NEW msg
  PROVE  /\ SortUpdate(s, msg).next \in SortType
         /\ SortUpdate(s, msg).active = SortUpdate(s, msg).next.active
BY DEF SortType, SortUpdate, Outcome

(* The notifier changes nothing but its own state. *)
LEMMA NotifierUpdateReturns ==
  ASSUME NEW b \in Bars, NEW msg, NEW handlers, AreHandlers(handlers)
  PROVE  \E note \in NoteType :
           NotifierUpdate(b, msg, handlers).next = [b EXCEPT !.note = note]
<1>0. b.note \in NoteType
  BY BarsFields
<1>1. CASE msg.type = "tick"
  <2>1. NotifierUpdate(b, msg, handlers).next = [b EXCEPT !.note = b.note]
    BY <1>1, BarsFields DEF NotifierUpdate, Outcome
  <2> QED BY <1>0, <2>1
<1>2. CASE msg.type = "hide"
  <2> DEFINE note == [b.note EXCEPT !.state = "idle", !.autoHide = FALSE]
  <2>1. note \in NoteType
    BY <1>0, Zenon DEF NoteType, NoteStates
  <2>2. NotifierUpdate(b, msg, handlers).next = [b EXCEPT !.note = note]
    BY <1>2, BarsFields DEF NotifierUpdate, Outcome
  <2> QED BY <2>1, <2>2
<1>3. CASE msg.type \notin {"tick", "hide"} /\ msg.type \in DOMAIN handlers
  <2> DEFINE h == handlers[msg.type]
             note == IF h.state = "keep"
                     THEN [b.note EXCEPT !.active = h.active]
                     ELSE [state |-> h.state, active |-> h.active, autoHide |-> h.autoHide]
  <2>1. IsHandler(h)
    BY <1>3 DEF AreHandlers
  <2>2. note \in NoteType
    BY <1>0, <2>1 DEF NoteType, NoteStates, IsHandler
  <2>3. NotifierUpdate(b, msg, handlers).next = [b EXCEPT !.note = note]
    BY <1>3, BarsFields DEF NotifierUpdate, Notify, Outcome
  <2> QED BY <2>2, <2>3
<1>4. CASE msg.type \notin {"tick", "hide"} /\ msg.type \notin DOMAIN handlers
  <2>1. NotifierUpdate(b, msg, handlers).next = [b EXCEPT !.note = b.note]
    BY <1>4, BarsFields DEF NotifierUpdate, Outcome
  <2> QED BY <1>0, <2>1
<1> QED BY <1>1, <1>2, <1>3, <1>4

(* Each way a message may take through TableCmdsBar keeps the bars typed   *)
(* and the active one open.                                                *)
LEMMA DeleteStepKeeps ==
  ASSUME NEW b \in Bars, NEW msg, NEW valid, b.active = "delete"
  PROVE  LET o == DeleteStep(b, msg, valid)
         IN  o.next \in Bars /\ (o.active => IsOpen(o.next))
<1> DEFINE o == DeleteUpdate(b.del, msg, "f2", valid)
<1>1. b.del \in DelType
  BY BarsFields
<1>2. o.next \in DelType /\ o.active = o.next.active
  BY <1>1, DeleteUpdateReturns
<1> HIDE DEF o
<1>3. [b EXCEPT !.del = o.next] \in Bars
  BY <1>2, BarsFields
<1>4. /\ DeleteStep(b, msg, valid).next = [b EXCEPT !.del = o.next]
      /\ DeleteStep(b, msg, valid).active = o.active
  BY DEF DeleteStep, o, DeleteUpdate, Enter, Closed, Outcome
<1> QED
  BY <1>2, <1>3, <1>4, BarsFields DEF IsOpen, DelType

LEMMA SearchStepKeeps ==
  ASSUME NEW b \in Bars, NEW msg, IsMessage(msg), b.active = "search"
  PROVE  LET o == SearchStep(b, msg)
         IN  o.next \in Bars /\ IsOpen(o.next)
<1> DEFINE o == SearchUpdate(b.search, msg)
<1>1. b.search \in SearchType
  BY BarsFields
<1>2. o.next \in SearchType
  BY <1>1, SearchUpdateReturns
<1> HIDE DEF o
<1>3. SearchStep(b, msg).next = [b EXCEPT !.search = o.next]
  BY DEF SearchStep, o, SearchUpdate, Outcome
<1> QED
  BY <1>2, <1>3, BarsFields DEF IsOpen

LEMMA SortStepKeeps ==
  ASSUME NEW b \in Bars, NEW msg, b.active = "sort"
  PROVE  LET o == SortStep(b, msg)
         IN  o.next \in Bars /\ (o.active => IsOpen(o.next))
<1> DEFINE o == SortUpdate(b.sort, msg)
<1>1. b.sort \in SortType
  BY BarsFields
<1>2. o.next \in SortType /\ o.active = o.next.active
  BY <1>1, SortUpdateReturns
<1> HIDE DEF o
<1>3. /\ SortStep(b, msg).next = [b EXCEPT !.sort = o.next]
      /\ SortStep(b, msg).active = o.active
  BY DEF SortStep, o, SortUpdate, Outcome
<1> QED
  BY <1>2, <1>3, BarsFields DEF IsOpen, SortType

LEMMA GiveWayKeeps ==
  ASSUME NEW b \in Bars
  PROVE  GiveWay(b) \in Bars /\ IsOpen(GiveWay(b))
<1>1. CASE b.searchPrevActive
  <2> DEFINE c == [b EXCEPT !.active = "search"]
  <2>1. c \in Bars /\ c.active = "search"
    BY BarsFields
  <2>2. GiveWay(b) = [c EXCEPT !.searchPrevActive = FALSE]
    BY <1>1, BarsFields DEF GiveWay
  <2> HIDE DEF c
  <2>3. [c EXCEPT !.searchPrevActive = FALSE] \in Bars
    BY <2>1, WithPrevActive
  <2>4. [c EXCEPT !.searchPrevActive = FALSE].active = "search"
    BY <2>1, WithPrevActive
  <2> QED
    BY <2>2, <2>3, <2>4, Zenon DEF IsOpen
<1>2. CASE ~b.searchPrevActive
  BY <1>2, BarsFields DEF GiveWay, IsOpen
<1> QED
  BY <1>1, <1>2

LEMMA ToActiveKeeps ==
  ASSUME NEW b \in Bars, IsOpen(b), NEW msg, IsMessage(msg),
         NEW handlers, AreHandlers(handlers), NEW valid
  PROVE  LET o == ToActive(b, msg, handlers, valid)
         IN  o.next \in Bars /\ IsOpen(o.next)
<1> DEFINE o == ActiveUpdate(b, msg, handlers, valid)
<1>1. ASSUME b.active # "none"
      PROVE  o.next \in Bars /\ (o.active => IsOpen(o.next))
  <2>1. CASE b.active = "notifier"
    <3>1. PICK note \in NoteType :
            NotifierUpdate(b, msg, handlers).next = [b EXCEPT !.note = note]
      BY NotifierUpdateReturns
    <3> QED
      BY <2>1, <3>1, BarsFields DEF ActiveUpdate, IsOpen
  <2>2. CASE b.active = "delete"
    BY <2>2, DeleteStepKeeps DEF ActiveUpdate
  <2>3. CASE b.active = "search"
    BY <2>3, SearchStepKeeps DEF ActiveUpdate
  <2>4. CASE b.active = "sort"
    BY <2>4, SortStepKeeps DEF ActiveUpdate
  <2> QED
    BY <1>1, <2>1, <2>2, <2>3, <2>4, BarsFields
<1> QED
  BY <1>1, GiveWayKeeps DEF ToActive, Outcome

LEMMA HandleSlashKeeps ==
  ASSUME NEW b \in Bars, IsOpen(b), NEW msg, IsMessage(msg)
  PROVE  LET o == HandleSlash(b, msg)
         IN  o.next \in Bars /\ IsOpen(o.next)
<1> DEFINE o == SearchUpdate(b.search, msg)
           c == [b EXCEPT !.search = o.next]
<1>1. o.next \in SearchType
  BY BarsFields, SearchUpdateReturns
<1>2. c \in Bars
  <2> HIDE DEF o
  <2> QED BY <1>1, BarsFields
<1>3. CASE o.active
  <2> DEFINE c1 == [c EXCEPT !.active = "search"]
             c2 == [c1 EXCEPT !.del.active = FALSE]
             c3 == [c2 EXCEPT !.sort.active = FALSE]
  <2>1. HandleSlash(b, msg).next = c3
    BY <1>3 DEF HandleSlash, SearchUpdate, Outcome
  <2> HIDE DEF c
  <2>2. c1 \in Bars /\ c1.active = "search"
    BY <1>2, BarsFields
  <2> HIDE DEF c1
  <2>3. c2 \in Bars /\ c2.active = "search"
    BY <2>2, WithoutDelete
  <2> HIDE DEF c2
  <2>4. c3 \in Bars /\ c3.active = "search"
    BY <2>3, WithoutSort
  <2> QED
    BY <2>1, <2>4 DEF IsOpen
<1>4. CASE ~o.active
  <2>1. HandleSlash(b, msg).next = [c EXCEPT !.active = "none"]
    BY <1>4 DEF HandleSlash, SearchUpdate, Outcome
  <2> HIDE DEF c
  <2> QED
    BY <1>2, <2>1, BarsFields DEF IsOpen
<1> QED
  BY <1>3, <1>4

LEMMA HandleF2Keeps ==
  ASSUME NEW b \in Bars, IsOpen(b), NEW msg, NEW selection \in Items \cup {NoItem}, NEW valid
  PROVE  LET o == HandleF2(b, msg, selection, valid)
         IN  o.next \in Bars /\ IsOpen(o.next)
<1> DEFINE o == DeleteUpdate(b.del, msg, "f2", valid)
           d == [o.next EXCEPT !.value = selection]
<1>1. o.next \in DelType /\ o.active = o.next.active
  BY BarsFields, DeleteUpdateReturns
<1>2. o.active \in BOOLEAN
  <2> HIDE DEF o
  <2> QED BY <1>1 DEF DelType
<1>3. CASE o.active
  <2> DEFINE c1 == [b EXCEPT !.del = d]
             c2 == [c1 EXCEPT !.active = "delete"]
             c3 == [c2 EXCEPT !.search.state = "hidden"]
             c4 == [c3 EXCEPT !.sort.active = FALSE]
  <2>1. HandleF2(b, msg, selection, valid).next = c4
    BY <1>3 DEF HandleF2, DeleteUpdate, Enter, Closed, Outcome
  <2> HIDE DEF o
  <2>2. d \in DelType /\ d.active
    BY <1>1, <1>3 DEF DelType
  <2> HIDE DEF d
  <2>3. c1 \in Bars /\ c1.del.active
    BY <2>2, BarsFields
  <2> HIDE DEF c1
  <2>4. c2 \in Bars /\ c2.del.active /\ c2.active = "delete"
    BY <2>3, BarsFields
  <2> HIDE DEF c2
  <2>5. c3 \in Bars /\ c3.del.active /\ c3.active = "delete"
    BY <2>4, WithoutSearch
  <2> HIDE DEF c3
  <2>6. c4 \in Bars /\ c4.del.active /\ c4.active = "delete"
    BY <2>5, WithoutSort
  <2> QED
    BY <2>1, <2>6 DEF IsOpen
<1>4. CASE ~o.active
  <2> DEFINE c == [b EXCEPT !.del = o.next]
  <2>1. HandleF2(b, msg, selection, valid).next = [c EXCEPT !.active = "none"]
    BY <1>4 DEF HandleF2, DeleteUpdate, Enter, Closed, Outcome
  <2>2. c \in Bars
    <3> HIDE DEF o
    <3> QED BY <1>1, BarsFields
  <2> HIDE DEF c
  <2> QED
    BY <2>1, <2>2, BarsFields DEF IsOpen
<1> QED
  BY <1>3, <1>4

LEMMA HandleF3Keeps ==
  ASSUME NEW b \in Bars, IsOpen(b), NEW msg
  PROVE  LET o == HandleF3(b, msg)
         IN  o.next \in Bars /\ IsOpen(o.next)
<1> DEFINE o == SortUpdate(b.sort, msg)
           c == [b EXCEPT !.sort = o.next]
<1>1. o.next \in SortType /\ o.active = o.next.active
  BY BarsFields, SortUpdateReturns
<1>2. c \in Bars /\ c.sort = o.next
  <2> HIDE DEF o
  <2> QED BY <1>1, BarsFields
<1>3. CASE o.active
  <2> DEFINE c1 == [c EXCEPT !.active = "sort"]
             c2 == [c1 EXCEPT !.search.state = "hidden"]
             c3 == [c2 EXCEPT !.del.active = FALSE]
  <2>1. HandleF3(b, msg).next = c3
    BY <1>3 DEF HandleF3, SortUpdate, Outcome
  <2>2. c.sort.active
    <3> HIDE DEF o, c
    <3> QED BY <1>1, <1>2, <1>3
  <2> HIDE DEF c
  <2>3. c1 \in Bars /\ c1.active = "sort" /\ c1.sort = c.sort
    BY <1>2, BarsFields
  <2> HIDE DEF c1
  <2>4. c2 \in Bars /\ c2.active = "sort" /\ c2.sort = c.sort
    BY <2>3, WithoutSearch
  <2> HIDE DEF c2
  <2>5. c3 \in Bars /\ c3.active = "sort" /\ c3.sort = c.sort
    BY <2>4, WithoutDelete
  <2> QED
    BY <2>1, <2>2, <2>5 DEF IsOpen
<1>4. CASE ~o.active
  <2>1. HandleF3(b, msg).next = [c EXCEPT !.active = "none"]
    BY <1>4 DEF HandleF3, SortUpdate, Outcome
  <2> HIDE DEF c
  <2> QED
    BY <1>2, <2>1, BarsFields DEF IsOpen
<1> QED
  BY <1>3, <1>4

(* The same of TableCmdsBar as a whole. *)
LEMMA TableUpdateKeeps ==
  ASSUME NEW b \in Bars, IsOpen(b), NEW msg, IsMessage(msg),
         NEW selection \in Items \cup {NoItem},
         NEW handlers, AreHandlers(handlers), NEW valid
  PROVE  LET o == TableUpdate(b, msg, selection, handlers, valid)
         IN  o.next \in Bars /\ IsOpen(o.next)
<1> DEFINE n == NotifierUpdate(b, msg, handlers)
           rest == [n.next EXCEPT !.searchPrevActive = @ \/ b.active = "search"]
<1>1. /\ n.next \in Bars
      /\ n.next.active = b.active /\ n.next.del = b.del /\ n.next.sort = b.sort
  <2>1. PICK note \in NoteType : n.next = [b EXCEPT !.note = note]
    BY NotifierUpdateReturns
  <2> HIDE DEF n
  <2> QED
    BY <2>1, BarsFields
<1>2. CASE b.active = "notifier" /\ HasPriority(b)
  <2>1. TableUpdate(b, msg, selection, handlers, valid).next
          = [n.next EXCEPT !.active = IF n.active THEN @ ELSE "none"]
    BY <1>2 DEF TableUpdate, NotifierUpdate, Notify, Outcome
  <2> HIDE DEF n
  <2> QED
    BY <1>1, <1>2, <2>1, BarsFields DEF IsOpen
<1>3. CASE ~(b.active = "notifier" /\ HasPriority(b)) /\ n.active /\ n.handled
  <2>1. TableUpdate(b, msg, selection, handlers, valid).next
          = [n.next EXCEPT !.active = "notifier"]
    BY <1>3 DEF TableUpdate, NotifierUpdate, Notify, Outcome
  <2> HIDE DEF n
  <2> QED
    BY <1>1, <2>1, BarsFields DEF IsOpen
<1>4. CASE ~(b.active = "notifier" /\ HasPriority(b)) /\ ~(n.active /\ n.handled)
  <2>1. TableUpdate(b, msg, selection, handlers, valid)
          = ToBars(rest, msg, selection, handlers, valid)
    BY <1>4 DEF TableUpdate
  <2>2. rest \in Bars /\ IsOpen(rest)
    <3> HIDE DEF n
    <3>1. (n.next.searchPrevActive \/ b.active = "search") \in BOOLEAN
      OBVIOUS
    <3> QED
      BY <1>1, <3>1, WithPrevActive DEF IsOpen
  <2> HIDE DEF rest
  <2> QED
    BY <2>1, <2>2, HandleSlashKeeps, HandleF2Keeps, HandleF3Keeps, ToActiveKeeps
       DEF ToBars, Outcome
<1> QED
  BY <1>2, <1>3, <1>4

(* A field the search reset changes is the search alone. *)
LEMMA ResetSearchKeeps ==
  ASSUME NEW b \in Bars, IsOpen(b)
  PROVE  ResetSearch(b) \in Bars /\ IsOpen(ResetSearch(b))
<1>1. NoSearch \in SearchType
  BY BarsAssumption DEF NoSearch, SearchType
<1> QED
  BY <1>1, BarsFields DEF ResetSearch, IsOpen

-----------------------------------------------------------------------------
(* Deletions.                                                              *)

(* A bar returns a deletion only when it is the prompt, with "Delete!"     *)
(* chosen, for the item it was opened for; and the choice is then gone.    *)
LEMMA DeleteStepConfirmed ==
  ASSUME NEW b \in Bars, NEW msg, NEW valid, NEW t,
         DeleteCmd(t) \in DeleteStep(b, msg, valid).cmds
  PROVE  /\ b.del.affirmed /\ t = b.del.value /\ IsKey(msg, "enter")
         /\ ~DeleteStep(b, msg, valid).next.del.affirmed
<1> DEFINE o == DeleteUpdate(b.del, msg, "f2", valid)
<1>1. b.del \in DelType
  BY BarsFields
<1>2. /\ DeleteStep(b, msg, valid).next = [b EXCEPT !.del = o.next]
      /\ DeleteStep(b, msg, valid).cmds = o.cmds
  BY DEF DeleteStep, DeleteUpdate, Enter, Closed, Outcome
<1>3. b.del.affirmed /\ t = b.del.value /\ ~o.next.affirmed /\ IsKey(msg, "enter")
  <2>1. DeleteCmd(t) # RefuseCmd
    BY DEF DeleteCmd, RefuseCmd
  <2>2. \A u : DeleteCmd(t) = DeleteCmd(u) => t = u
    BY DEF DeleteCmd
  <2> QED
    BY <1>1, <1>2, <2>1, <2>2 DEF DelType, DeleteUpdate, Enter, Closed, Outcome
<1> HIDE DEF o
<1>4. [b EXCEPT !.del = o.next].del = o.next
  BY BarsFields
<1> QED
  BY <1>2, <1>3, <1>4

LEMMA NotifierDeletesNothing ==
  ASSUME NEW b \in Bars, NEW msg, NEW handlers, NEW t
  PROVE  DeleteCmd(t) \notin NotifierUpdate(b, msg, handlers).cmds
<1>1. DeleteCmd(t) # SpinCmd /\ DeleteCmd(t) # AutoHideCmd
  BY DEF DeleteCmd, SpinCmd, AutoHideCmd
<1> QED
  BY <1>1 DEF NotifierUpdate, Notify, Outcome

LEMMA ToBarsConfirmed ==
  ASSUME NEW b \in Bars, NEW msg, NEW selection, NEW handlers, NEW valid, NEW t,
         DeleteCmd(t) \in ToBars(b, msg, selection, handlers, valid).cmds
  PROVE  /\ b.active = "delete" /\ b.del.affirmed /\ t = b.del.value
         /\ IsKey(msg, "enter")
         /\ ~ToBars(b, msg, selection, handlers, valid).next.del.affirmed
<1> DEFINE o == ToBars(b, msg, selection, handlers, valid)
<1>1. HandleSlash(b, msg).cmds = {}
  BY DEF HandleSlash, SearchUpdate, Outcome
<1>2. IsKey(msg, "f2") => HandleF2(b, msg, selection, valid).cmds = {}
  BY DEF HandleF2, DeleteUpdate, Outcome
<1>3. HandleF3(b, msg).cmds = {}
  BY DEF HandleF3, SortUpdate, Outcome
<1>4. o = ToActive(b, msg, handlers, valid)
  BY <1>1, <1>2, <1>3 DEF ToBars, Outcome
<1> DEFINE a == ActiveUpdate(b, msg, handlers, valid)
<1>5. /\ b.active # "none"
      /\ DeleteCmd(t) \in a.cmds
      /\ o.next = IF a.active THEN a.next ELSE GiveWay(a.next)
  <2> HIDE DEF a, o
  <2>1. b.active # "none"
    BY <1>4 DEF ToActive, Outcome, o
  <2>2. a = [next |-> a.next, active |-> a.active, handled |-> a.handled, cmds |-> a.cmds]
    BY DEF a, ActiveUpdate, NotifierUpdate, Notify, DeleteStep, DeleteUpdate, Enter, Closed,
           SearchStep, SearchUpdate, SortStep, SortUpdate, Outcome
  <2>3. ToActive(b, msg, handlers, valid)
          = [a EXCEPT !.next = IF a.active THEN a.next ELSE GiveWay(a.next)]
    BY <2>1 DEF ToActive, a
  <2>4. o.cmds = a.cmds /\ o.next = IF a.active THEN a.next ELSE GiveWay(a.next)
    BY <1>4, <2>2, <2>3
  <2> QED
    BY <2>1, <2>4 DEF o
<1>6. b.active = "delete"
  <2>1. CASE b.active = "notifier"
    BY <1>5, <2>1, NotifierDeletesNothing DEF ActiveUpdate
  <2>2. CASE b.active = "search"
    BY <1>5, <2>2 DEF ActiveUpdate, SearchStep, SearchUpdate, Outcome
  <2>3. CASE b.active = "sort"
    BY <1>5, <2>3 DEF ActiveUpdate, SortStep, SortUpdate, Outcome
  <2> QED
    BY <1>5, <2>1, <2>2, <2>3, BarsFields
<1>7. a = DeleteStep(b, msg, valid)
  BY <1>6 DEF ActiveUpdate
<1>8. /\ b.del.affirmed /\ t = b.del.value /\ ~a.next.del.affirmed
      /\ IsKey(msg, "enter")
  BY <1>5, <1>7, DeleteStepConfirmed
<1>9. a.next \in Bars
  BY <1>6, <1>7, DeleteStepKeeps
<1> HIDE DEF a, o
<1>10. GiveWay(a.next).del = a.next.del
  BY <1>9, BarsFields DEF GiveWay
<1> QED
  BY <1>5, <1>6, <1>8, <1>10 DEF o

LEMMA TableUpdateConfirmed ==
  ASSUME NEW b \in Bars, NEW msg, NEW selection, NEW handlers, AreHandlers(handlers),
         NEW valid, NEW t,
         DeleteCmd(t) \in TableUpdate(b, msg, selection, handlers, valid).cmds
  PROVE  /\ b.active = "delete" /\ b.del.affirmed /\ t = b.del.value
         /\ IsKey(msg, "enter")
         /\ ~TableUpdate(b, msg, selection, handlers, valid).next.del.affirmed
<1> DEFINE n == NotifierUpdate(b, msg, handlers)
           rest == [n.next EXCEPT !.searchPrevActive = @ \/ b.active = "search"]
<1>1. DeleteCmd(t) \notin n.cmds
  BY NotifierDeletesNothing
<1>2. n = [next |-> n.next, active |-> n.active, handled |-> n.handled, cmds |-> n.cmds]
  BY DEF NotifierUpdate, Notify, Outcome
<1>3. TableUpdate(b, msg, selection, handlers, valid) = ToBars(rest, msg, selection, handlers, valid)
  <2>1. CASE b.active = "notifier" /\ HasPriority(b)
    <3> DEFINE next == [n.next EXCEPT !.active = IF n.active THEN @ ELSE "none"]
    <3>1. TableUpdate(b, msg, selection, handlers, valid) = [n EXCEPT !.next = next]
      BY <2>1, Zenon DEF TableUpdate
    <3> HIDE DEF n, next
    <3>2. [n EXCEPT !.next = next].cmds = n.cmds
      BY <1>2
    <3> QED
      BY <1>1, <3>1, <3>2
  <2>2. CASE ~(b.active = "notifier" /\ HasPriority(b)) /\ n.active /\ n.handled
    <3> DEFINE next == [n.next EXCEPT !.active = "notifier"]
    <3>1. TableUpdate(b, msg, selection, handlers, valid) = [n EXCEPT !.next = next]
      BY <2>2, Zenon DEF TableUpdate
    <3> HIDE DEF n, next
    <3>2. [n EXCEPT !.next = next].cmds = n.cmds
      BY <1>2
    <3> QED
      BY <1>1, <3>1, <3>2
  <2>3. CASE ~(b.active = "notifier" /\ HasPriority(b)) /\ ~(n.active /\ n.handled)
    BY <2>3 DEF TableUpdate
  <2> QED
    BY <2>1, <2>2, <2>3
<1>4. /\ rest \in Bars
      /\ rest.active = b.active /\ rest.del = b.del
  <2>1. PICK note \in NoteType : n.next = [b EXCEPT !.note = note]
    BY NotifierUpdateReturns
  <2> HIDE DEF n
  <2>2. n.next \in Bars /\ n.next.active = b.active /\ n.next.del = b.del
    BY <2>1, BarsFields
  <2>3. (n.next.searchPrevActive \/ b.active = "search") \in BOOLEAN
    OBVIOUS
  <2> QED
    BY <2>2, <2>3, WithPrevActive
<1> HIDE DEF rest
<1> QED
  BY <1>3, <1>4, ToBarsConfirmed

-----------------------------------------------------------------------------
(* Notifications: what a message makes of the notifier, whatever bar is    *)
(* active and whichever of its two ways to the notifier it takes.          *)
NoteAfter(note, msg, handlers) ==
  IF msg.type = "tick" THEN note
  ELSE IF msg.type = "hide" THEN [note EXCEPT !.state = "idle", !.autoHide = FALSE]
  ELSE IF msg.type \in DOMAIN handlers
    THEN LET h == handlers[msg.type]
         IN  IF h.state = "keep"
             THEN [note EXCEPT !.active = h.active]
             ELSE [state |-> h.state, active |-> h.active, autoHide |-> h.autoHide]
  ELSE note

(* A message that reaches the notifier twice does to it what it does once. *)
LEMMA NoteAfterOnce ==
  ASSUME NEW note \in NoteType, NEW msg, NEW handlers, AreHandlers(handlers)
  PROVE  /\ NoteAfter(note, msg, handlers) \in NoteType
         /\ NoteAfter(NoteAfter(note, msg, handlers), msg, handlers)
              = NoteAfter(note, msg, handlers)
<1>1. CASE msg.type = "tick"
  BY <1>1 DEF NoteAfter
<1>2. CASE msg.type = "hide"
  <2> DEFINE idle == [note EXCEPT !.state = "idle"]
             hidden == [idle EXCEPT !.autoHide = FALSE]
  <2>1. /\ hidden \in NoteType
        /\ hidden.state = "idle" /\ ~hidden.autoHide
    BY DEF NoteType, NoteStates
  <2> HIDE DEF idle
  <2>2. NoteAfter(note, msg, handlers) = hidden
    BY <1>2, Zenon DEF NoteAfter, idle
  <2> HIDE DEF hidden
  <2>3. NoteAfter(hidden, msg, handlers)
          = [[hidden EXCEPT !.state = "idle"] EXCEPT !.autoHide = FALSE]
    BY <1>2, Zenon DEF NoteAfter
  <2>4. [[hidden EXCEPT !.state = "idle"] EXCEPT !.autoHide = FALSE] = hidden
    BY <2>1 DEF NoteType, NoteStates
  <2> QED
    BY <2>1, <2>2, <2>3, <2>4
<1>3. CASE msg.type \notin {"tick", "hide"} /\ msg.type \in DOMAIN handlers
  <2>1. IsHandler(handlers[msg.type])
    BY <1>3 DEF AreHandlers
  <2> QED
    BY <1>3, <2>1 DEF NoteAfter, NoteType, NoteStates, IsHandler
<1>4. CASE msg.type \notin {"tick", "hide"} /\ msg.type \notin DOMAIN handlers
  BY <1>4 DEF NoteAfter
<1> QED
  BY <1>1, <1>2, <1>3, <1>4

LEMMA NotifierUpdateNote ==
  ASSUME NEW b \in Bars, NEW msg, NEW handlers
  PROVE  NotifierUpdate(b, msg, handlers).next
           = [b EXCEPT !.note = NoteAfter(b.note, msg, handlers)]
BY BarsFields DEF NotifierUpdate, Notify, Outcome, NoteAfter

(* The other bars leave the notifier alone. *)
LEMMA OtherBarsKeepNote ==
  ASSUME NEW b \in Bars, NEW msg, NEW selection, NEW valid
  PROVE  /\ HandleSlash(b, msg).next.note = b.note
         /\ HandleF2(b, msg, selection, valid).next.note = b.note
         /\ HandleF3(b, msg).next.note = b.note
         /\ DeleteStep(b, msg, valid).next.note = b.note
         /\ SearchStep(b, msg).next.note = b.note
         /\ SortStep(b, msg).next.note = b.note
<1>1. ASSUME NEW v
      PROVE  /\ [b EXCEPT !.del = v].note = b.note
             /\ [b EXCEPT !.search = v].note = b.note
             /\ [b EXCEPT !.sort = v].note = b.note
  BY BarsFields
<1>2. HandleSlash(b, msg).next.note = b.note
  BY BarsFields DEF HandleSlash, SearchUpdate, Outcome
<1>3. HandleF2(b, msg, selection, valid).next.note = b.note
  <2> DEFINE o == DeleteUpdate(b.del, msg, "f2", valid)
  <2>1. HandleF2(b, msg, selection, valid).next
          = IF o.active THEN [b EXCEPT !.del = [o.next EXCEPT !.value = selection],
                                       !.active = "delete",
                                       !.search.state = "hidden", !.sort.active = FALSE]
                        ELSE [b EXCEPT !.del = o.next, !.active = "none"]
    BY DEF HandleF2, DeleteUpdate, Enter, Closed, Outcome
  <2> HIDE DEF o
  <2> QED
    BY <2>1, BarsFields
<1>4. HandleF3(b, msg).next.note = b.note
  BY BarsFields DEF HandleF3, SortUpdate, Outcome
<1>5. DeleteStep(b, msg, valid).next.note = b.note
  <2> DEFINE o == DeleteUpdate(b.del, msg, "f2", valid)
  <2>1. DeleteStep(b, msg, valid).next = [b EXCEPT !.del = o.next]
    BY DEF DeleteStep, DeleteUpdate, Enter, Closed, Outcome
  <2> HIDE DEF o
  <2> QED
    BY <1>1, <2>1
<1>6. SearchStep(b, msg).next.note = b.note
  BY <1>1 DEF SearchStep, SearchUpdate, Outcome
<1>7. SortStep(b, msg).next.note = b.note
  BY <1>1 DEF SortStep, SortUpdate, Outcome
<1> QED
  BY <1>2, <1>3, <1>4, <1>5, <1>6, <1>7

LEMMA ToActiveNote ==
  ASSUME NEW b \in Bars, IsOpen(b), NEW msg, IsMessage(msg),
         NEW handlers, AreHandlers(handlers), NEW valid
  PROVE  ToActive(b, msg, handlers, valid).next.note
           \in {b.note, NoteAfter(b.note, msg, handlers)}
<1> DEFINE o == ActiveUpdate(b, msg, handlers, valid)
<1>1. ASSUME b.active # "none"
      PROVE  o.next \in Bars /\ o.next.note \in {b.note, NoteAfter(b.note, msg, handlers)}
  <2>1. CASE b.active = "notifier"
    <3>1. b.note \in NoteType /\ NoteAfter(b.note, msg, handlers) \in NoteType
      BY BarsFields, NoteAfterOnce
    <3> DEFINE note == NoteAfter(b.note, msg, handlers)
    <3>2. o.next = [b EXCEPT !.note = note]
      BY <2>1, NotifierUpdateNote DEF ActiveUpdate
    <3> HIDE DEF o, note
    <3> QED
      BY <3>1, <3>2, BarsFields DEF note, o
  <2>2. CASE b.active = "delete"
    BY <2>2, DeleteStepKeeps, OtherBarsKeepNote DEF ActiveUpdate
  <2>3. CASE b.active = "search"
    BY <2>3, SearchStepKeeps, OtherBarsKeepNote DEF ActiveUpdate
  <2>4. CASE b.active = "sort"
    BY <2>4, SortStepKeeps, OtherBarsKeepNote DEF ActiveUpdate
  <2> QED
    BY <1>1, <2>1, <2>2, <2>3, <2>4, BarsFields
<1>2. CASE b.active = "none"
  BY <1>2 DEF ToActive, Outcome
<1>3. CASE b.active # "none"
  <2>1. o = [next |-> o.next, active |-> o.active, handled |-> o.handled, cmds |-> o.cmds]
    BY DEF ActiveUpdate, NotifierUpdate, Notify, DeleteStep, DeleteUpdate, Enter, Closed,
           SearchStep, SearchUpdate, SortStep, SortUpdate, Outcome
  <2>2. ToActive(b, msg, handlers, valid)
          = [o EXCEPT !.next = IF o.active THEN o.next ELSE GiveWay(o.next)]
    BY <1>3 DEF ToActive
  <2> HIDE DEF o
  <2>3. ToActive(b, msg, handlers, valid).next
          = IF o.active THEN o.next ELSE GiveWay(o.next)
    BY <2>1, <2>2
  <2>4. GiveWay(o.next).note = o.next.note
    BY <1>1, <1>3, BarsFields DEF GiveWay
  <2> QED
    BY <1>1, <1>3, <2>3, <2>4
<1> QED
  BY <1>2, <1>3

LEMMA TableUpdateNote ==
  ASSUME NEW b \in Bars, IsOpen(b), NEW msg, IsMessage(msg),
         NEW selection, NEW handlers, AreHandlers(handlers), NEW valid
  PROVE  TableUpdate(b, msg, selection, handlers, valid).next.note
           = NoteAfter(b.note, msg, handlers)
<1> DEFINE n == NotifierUpdate(b, msg, handlers)
           note == NoteAfter(b.note, msg, handlers)
           rest == [n.next EXCEPT !.searchPrevActive = @ \/ b.active = "search"]
           table == TableUpdate(b, msg, selection, handlers, valid)
<1>1. b.note \in NoteType /\ note \in NoteType /\ NoteAfter(note, msg, handlers) = note
  BY BarsFields, NoteAfterOnce
<1>2. n.next \in Bars /\ n.next.note = note /\ n.next.active = b.active
      /\ n.next.del = b.del /\ n.next.sort = b.sort
  <2>1. n.next = [b EXCEPT !.note = note]
    BY NotifierUpdateNote
  <2> HIDE DEF n, note
  <2> QED
    BY <1>1, <2>1, BarsFields
<1>3. CASE b.active = "notifier" /\ HasPriority(b)
  <2>1. table.next = [n.next EXCEPT !.active = IF n.active THEN @ ELSE "none"]
    BY <1>3 DEF TableUpdate, NotifierUpdate, Notify, Outcome
  <2> HIDE DEF n, note, table
  <2> QED
    BY <1>2, <2>1, BarsFields DEF note, table
<1>4. CASE ~(b.active = "notifier" /\ HasPriority(b)) /\ n.active /\ n.handled
  <2>1. table.next = [n.next EXCEPT !.active = "notifier"]
    BY <1>4 DEF TableUpdate, NotifierUpdate, Notify, Outcome
  <2> HIDE DEF n, note, table
  <2> QED
    BY <1>2, <2>1, BarsFields DEF note, table
<1>5. CASE ~(b.active = "notifier" /\ HasPriority(b)) /\ ~(n.active /\ n.handled)
  <2>1. table = ToBars(rest, msg, selection, handlers, valid)
    BY <1>5 DEF TableUpdate
  <2>2. rest \in Bars /\ IsOpen(rest) /\ rest.note = note
    <3> HIDE DEF n, note
    <3>1. (n.next.searchPrevActive \/ b.active = "search") \in BOOLEAN
      OBVIOUS
    <3>2. rest \in Bars /\ IsOpen(rest)
      BY <1>2, <3>1, WithPrevActive DEF IsOpen
    <3>3. rest.note = n.next.note
      BY <1>2, BarsFields
    <3> QED
      BY <1>2, <3>2, <3>3
  <2> HIDE DEF rest
  <2>3. /\ HandleSlash(rest, msg).next.note = note
        /\ HandleF2(rest, msg, selection, valid).next.note = note
        /\ HandleF3(rest, msg).next.note = note
        /\ ToActive(rest, msg, handlers, valid).next.note = note
    BY <1>1, <2>2, OtherBarsKeepNote, ToActiveNote
  <2> QED
    BY <2>1, <2>2, <2>3 DEF ToBars, Outcome
<1> QED
  BY <1>3, <1>4, <1>5

(* A handler that has the notification hide itself starts the timer.       *)
LEMMA TableUpdateStartsTimer ==
  ASSUME NEW b \in Bars, NEW msg, NEW selection, NEW handlers, NEW valid,
         msg.type \notin {"tick", "hide"}, msg.type \in DOMAIN handlers,
         handlers[msg.type].active, handlers[msg.type].autoHide
  PROVE  AutoHideCmd \in TableUpdate(b, msg, selection, handlers, valid).cmds
<1> DEFINE n == NotifierUpdate(b, msg, handlers)
           table == TableUpdate(b, msg, selection, handlers, valid)
<1>1. n.active /\ n.handled /\ AutoHideCmd \in n.cmds
  BY DEF NotifierUpdate, Notify, Outcome
<1>2. n = [next |-> n.next, active |-> n.active, handled |-> n.handled, cmds |-> n.cmds]
  BY DEF NotifierUpdate, Notify, Outcome
<1>3. \E next : table = [n EXCEPT !.next = next]
  BY <1>1, Zenon DEF TableUpdate
<1> HIDE DEF n, table
<1> QED
  BY <1>1, <1>2, <1>3 DEF table

-----------------------------------------------------------------------------
(* The prompt that is open was open before, for the same item and with the *)
(* same search term, or has just been opened for the row selected.         *)
PromptFrom(b, c, selection) ==
  c.active = "delete" =>
    /\ c.search.term = b.search.term
    /\ \/ b.active = "delete" /\ c.del.value = b.del.value
       \/ b.active # "delete" /\ c.del.value = selection /\ selection # NoItem

LEMMA HandleF2Prompt ==
  ASSUME NEW b \in Bars, IsOpen(b), NEW msg, IsKey(msg, "f2"),
         NEW selection \in Items, NEW valid
  PROVE  PromptFrom(b, HandleF2(b, msg, selection, valid).next, selection)
<1> DEFINE o == DeleteUpdate(b.del, msg, "f2", valid)
           d == [o.next EXCEPT !.value = selection]
<1>1. o.next \in DelType /\ (o.active => ~b.del.active)
  <2>1. o.next \in DelType /\ o.active = o.next.active /\ b.del \in DelType
    BY BarsFields, DeleteUpdateReturns
  <2>2. o.next = [b.del EXCEPT !.active = ~b.del.active]
    BY DEF DeleteUpdate, Outcome
  <2> HIDE DEF o
  <2>3. o.next.active => ~b.del.active
    BY <2>1, <2>2 DEF DelType
  <2> QED
    BY <2>1, <2>3
<1>2. CASE o.active
  <2> DEFINE c1 == [b EXCEPT !.del = d]
             c2 == [c1 EXCEPT !.active = "delete"]
             c3 == [c2 EXCEPT !.search.state = "hidden"]
             c4 == [c3 EXCEPT !.sort.active = FALSE]
  <2>1. HandleF2(b, msg, selection, valid).next = c4
    BY <1>2 DEF HandleF2, DeleteUpdate, Enter, Closed, Outcome
  <2>2. b.active # "delete"
    BY <1>1, <1>2 DEF IsOpen
  <2> HIDE DEF o
  <2>3. d \in DelType /\ d.value = selection
    BY <1>1 DEF DelType
  <2> HIDE DEF d
  <2>4. c1 \in Bars /\ c1.del = d /\ c1.search = b.search
    BY <2>3, BarsFields
  <2> HIDE DEF c1
  <2>5. c2 \in Bars /\ c2.del = d /\ c2.search = b.search
    BY <2>4, BarsFields
  <2> HIDE DEF c2
  <2>6. c3 \in Bars /\ c3.del = d /\ c3.search.term = b.search.term
    <3>1. c3.search.term = c2.search.term
      BY <2>5 DEF Bars
    <3> QED
      BY <2>5, <3>1, WithoutSearch
  <2> HIDE DEF c3
  <2>7. c4.del = c3.del /\ c4.search = c3.search
    BY <2>6, BarsFields
  <2> QED
    BY <2>1, <2>2, <2>3, <2>6, <2>7, BarsAssumption DEF PromptFrom
<1>3. CASE ~o.active
  <2> DEFINE c == [b EXCEPT !.del = o.next]
  <2>1. HandleF2(b, msg, selection, valid).next = [c EXCEPT !.active = "none"]
    BY <1>3 DEF HandleF2, DeleteUpdate, Enter, Closed, Outcome
  <2>2. c \in Bars
    <3> HIDE DEF o
    <3> QED BY <1>1, BarsFields
  <2> HIDE DEF c
  <2> QED
    BY <2>1, <2>2, BarsFields DEF PromptFrom
<1> QED
  BY <1>2, <1>3

LEMMA OtherKeysPrompt ==
  ASSUME NEW b \in Bars, IsOpen(b), NEW msg, IsMessage(msg), NEW selection
  PROVE  /\ PromptFrom(b, HandleSlash(b, msg).next, selection)
         /\ PromptFrom(b, HandleF3(b, msg).next, selection)
<1>1. HandleSlash(b, msg).next.active \in {"search", "none"}
  <2> DEFINE o == SearchUpdate(b.search, msg)
             c == [b EXCEPT !.search = o.next]
  <2>1. HandleSlash(b, msg).next
          = IF o.active THEN [b EXCEPT !.search = o.next, !.active = "search",
                                       !.del.active = FALSE, !.sort.active = FALSE]
                        ELSE [b EXCEPT !.search = o.next, !.active = "none"]
    BY DEF HandleSlash, SearchUpdate, Outcome
  <2> HIDE DEF o
  <2> QED
    BY <2>1, BarsFields
<1>2. HandleF3(b, msg).next.active \in {"sort", "none"}
  <2> DEFINE o == SortUpdate(b.sort, msg)
  <2>1. HandleF3(b, msg).next
          = IF o.active THEN [b EXCEPT !.sort = o.next, !.active = "sort",
                                       !.search.state = "hidden", !.del.active = FALSE]
                        ELSE [b EXCEPT !.sort = o.next, !.active = "none"]
    BY DEF HandleF3, SortUpdate, Outcome
  <2> HIDE DEF o
  <2> QED
    BY <2>1, BarsFields
<1> QED
  BY <1>1, <1>2 DEF PromptFrom

LEMMA ToActivePrompt ==
  ASSUME NEW b \in Bars, IsOpen(b), NEW msg, IsMessage(msg),
         NEW handlers, AreHandlers(handlers), NEW valid, NEW selection
  PROVE  PromptFrom(b, ToActive(b, msg, handlers, valid).next, selection)
<1> DEFINE o == ActiveUpdate(b, msg, handlers, valid)
<1>1. CASE b.active = "none"
  BY <1>1 DEF ToActive, Outcome, PromptFrom
<1>2. CASE b.active # "none"
  <2>1. /\ o.next \in Bars
        /\ o.next.active = b.active
        /\ b.active = "delete" => /\ o.next.del.value = b.del.value
                                  /\ o.next.search = b.search
    <3>1. CASE b.active = "notifier"
      <4>1. PICK note \in NoteType : o.next = [b EXCEPT !.note = note]
        BY <3>1, NotifierUpdateReturns DEF ActiveUpdate
      <4> HIDE DEF o
      <4> QED
        BY <3>1, <4>1, BarsFields
    <3>2. CASE b.active = "delete"
      <4> DEFINE d == DeleteUpdate(b.del, msg, "f2", valid).next
      <4>1. o.next = [b EXCEPT !.del = d]
        BY <3>2 DEF ActiveUpdate, DeleteStep, DeleteUpdate, Enter, Closed, Outcome
      <4>2. d \in DelType /\ d.value = b.del.value
        <5>1. b.del \in DelType
          BY BarsFields
        <5> QED
          BY <5>1, DeleteUpdateReturns DEF DelType, DeleteUpdate, Enter, Closed, Outcome
      <4> HIDE DEF o, d
      <4> QED
        BY <3>2, <4>1, <4>2, BarsFields
    <3>3. CASE b.active = "search"
      <4> DEFINE s == SearchUpdate(b.search, msg).next
      <4>1. o.next = [b EXCEPT !.search = s]
        BY <3>3 DEF ActiveUpdate, SearchStep, SearchUpdate, Outcome
      <4>2. s \in SearchType
        BY BarsFields, SearchUpdateReturns
      <4> HIDE DEF o, s
      <4> QED
        BY <3>3, <4>1, <4>2, BarsFields
    <3>4. CASE b.active = "sort"
      <4> DEFINE s == SortUpdate(b.sort, msg).next
      <4>1. o.next = [b EXCEPT !.sort = s]
        BY <3>4 DEF ActiveUpdate, SortStep, SortUpdate, Outcome
      <4>2. s \in SortType
        BY BarsFields, SortUpdateReturns
      <4> HIDE DEF o, s
      <4> QED
        BY <3>4, <4>1, <4>2, BarsFields
    <3> QED
      BY <1>2, <3>1, <3>2, <3>3, <3>4, BarsFields
  <2>2. o = [next |-> o.next, active |-> o.active, handled |-> o.handled, cmds |-> o.cmds]
    BY DEF ActiveUpdate, NotifierUpdate, Notify, DeleteStep, DeleteUpdate, Enter, Closed,
           SearchStep, SearchUpdate, SortStep, SortUpdate, Outcome
  <2>3. ToActive(b, msg, handlers, valid)
          = [o EXCEPT !.next = IF o.active THEN o.next ELSE GiveWay(o.next)]
    BY <1>2 DEF ToActive
  <2> HIDE DEF o
  <2>4. ToActive(b, msg, handlers, valid).next
          = IF o.active THEN o.next ELSE GiveWay(o.next)
    BY <2>2, <2>3
  <2>5. GiveWay(o.next).active # "delete"
    BY <2>1, BarsFields DEF GiveWay
  <2> QED
    BY <2>1, <2>4, <2>5 DEF PromptFrom
<1> QED
  BY <1>1, <1>2

LEMMA TableUpdatePrompt ==
  ASSUME NEW b \in Bars, IsOpen(b), NEW msg, IsMessage(msg),
         NEW selection \in Items \cup {NoItem},
         NEW handlers, AreHandlers(handlers), NEW valid
  PROVE  PromptFrom(b, TableUpdate(b, msg, selection, handlers, valid).next, selection)
<1> DEFINE n == NotifierUpdate(b, msg, handlers)
           rest == [n.next EXCEPT !.searchPrevActive = @ \/ b.active = "search"]
           table == TableUpdate(b, msg, selection, handlers, valid)
<1>1. /\ n.next \in Bars /\ n.next.active = b.active
      /\ n.next.del = b.del /\ n.next.sort = b.sort /\ n.next.search = b.search
  <2>1. PICK note \in NoteType : n.next = [b EXCEPT !.note = note]
    BY NotifierUpdateReturns
  <2> HIDE DEF n
  <2> QED
    BY <2>1, BarsFields
<1>2. CASE b.active = "notifier" /\ HasPriority(b)
  <2>1. table.next = [n.next EXCEPT !.active = IF n.active THEN @ ELSE "none"]
    BY <1>2 DEF TableUpdate, NotifierUpdate, Notify, Outcome
  <2> HIDE DEF n, table
  <2>2. table.next.active # "delete"
    BY <1>1, <1>2, <2>1, BarsFields
  <2> QED
    BY <2>2 DEF PromptFrom, table
<1>3. CASE ~(b.active = "notifier" /\ HasPriority(b)) /\ n.active /\ n.handled
  <2>1. table.next = [n.next EXCEPT !.active = "notifier"]
    BY <1>3 DEF TableUpdate, NotifierUpdate, Notify, Outcome
  <2> HIDE DEF n, table
  <2>2. table.next.active # "delete"
    BY <1>1, <2>1, BarsFields
  <2> QED
    BY <2>2 DEF PromptFrom, table
<1>4. CASE ~(b.active = "notifier" /\ HasPriority(b)) /\ ~(n.active /\ n.handled)
  <2>1. table = ToBars(rest, msg, selection, handlers, valid)
    BY <1>4 DEF TableUpdate
  <2>2. /\ rest \in Bars /\ IsOpen(rest)
        /\ rest.active = b.active /\ rest.del = b.del /\ rest.search = b.search
    <3> HIDE DEF n
    <3>1. (n.next.searchPrevActive \/ b.active = "search") \in BOOLEAN
      OBVIOUS
    <3> QED
      BY <1>1, <3>1, WithPrevActive DEF IsOpen
  <2> HIDE DEF rest, table
  <2>3. PromptFrom(rest, table.next, selection)
    <3>1. PromptFrom(rest, rest, selection)
      BY DEF PromptFrom
    <3> QED
      BY <2>1, <2>2, <3>1, OtherKeysPrompt, HandleF2Prompt, ToActivePrompt
         DEF ToBars, Outcome
  <2> QED
    BY <2>2, <2>3 DEF PromptFrom, table
<1> QED
  BY <1>2, <1>3, <1>4

(* The prompt deletes or refuses when it is open and enter is pressed, and *)
(* stays open; it deletes what its validation accepts.                     *)
Answers(cmds) == RefuseCmd \in cmds \/ \E t : DeleteCmd(t) \in cmds

LEMMA DeleteStepAnswers ==
  ASSUME NEW b \in Bars, b.del.active, NEW msg, NEW valid,
         Answers(DeleteStep(b, msg, valid).cmds)
  PROVE  LET o == DeleteStep(b, msg, valid)
         IN  /\ IsKey(msg, "enter") /\ o.active /\ o.next.active = b.active
             /\ \/ o.cmds = {RefuseCmd}
                \/ o.cmds = {DeleteCmd(b.del.value)} /\ b.del.value \in valid
<1> DEFINE o == DeleteUpdate(b.del, msg, "f2", valid)
<1>1. /\ DeleteStep(b, msg, valid).next = [b EXCEPT !.del = o.next]
      /\ DeleteStep(b, msg, valid).cmds = o.cmds
      /\ DeleteStep(b, msg, valid).active = o.active
  BY DEF DeleteStep, DeleteUpdate, Enter, Closed, Outcome
<1>2. o.cmds # {}
  BY <1>1 DEF Answers
<1>3. IsKey(msg, "enter") /\ ~IsKey(msg, "f2") /\ ~IsKey(msg, "esc")
  BY <1>2 DEF DeleteUpdate, Closed, Outcome, IsKey
<1>4. o = Enter(b.del, valid)
  BY <1>3 DEF DeleteUpdate
<1>5. /\ o.active
      /\ \/ o.cmds = {RefuseCmd}
         \/ o.cmds = {DeleteCmd(b.del.value)} /\ b.del.value \in valid
  BY <1>2, <1>4 DEF Enter, Closed, Outcome
<1> HIDE DEF o
<1>6. [b EXCEPT !.del = o.next].active = b.active
  BY BarsFields
<1> QED
  BY <1>1, <1>3, <1>5, <1>6

LEMMA TableUpdateAnswers ==
  ASSUME NEW b \in Bars, IsOpen(b), NEW msg, IsMessage(msg), NEW selection,
         NEW handlers, AreHandlers(handlers), NEW valid,
         Answers(TableUpdate(b, msg, selection, handlers, valid).cmds)
  PROVE  LET o == TableUpdate(b, msg, selection, handlers, valid)
         IN  /\ b.active = "delete" /\ IsKey(msg, "enter") /\ o.next.active = "delete"
             /\ \/ o.cmds = {RefuseCmd}
                \/ o.cmds = {DeleteCmd(b.del.value)} /\ b.del.value \in valid
<1> DEFINE n == NotifierUpdate(b, msg, handlers)
           rest == [n.next EXCEPT !.searchPrevActive = @ \/ b.active = "search"]
           table == TableUpdate(b, msg, selection, handlers, valid)
<1>1. \A t : DeleteCmd(t) \notin n.cmds
  BY NotifierDeletesNothing
<1>2. RefuseCmd \notin n.cmds
  BY DEF NotifierUpdate, Notify, Outcome, RefuseCmd, SpinCmd, AutoHideCmd
<1>3. n = [next |-> n.next, active |-> n.active, handled |-> n.handled, cmds |-> n.cmds]
  BY DEF NotifierUpdate, Notify, Outcome
<1>4. \/ table = ToBars(rest, msg, selection, handlers, valid)
      \/ \E next : table = [n EXCEPT !.next = next]
  BY Zenon DEF TableUpdate
<1>5. table = ToBars(rest, msg, selection, handlers, valid)
  <2> HIDE DEF n, table
  <2>1. ASSUME NEW next, table = [n EXCEPT !.next = next] PROVE FALSE
    <3>1. table.cmds = n.cmds
      BY <1>3, <2>1
    <3> QED
      BY <1>1, <1>2, <3>1 DEF Answers, table
  <2> QED
    BY <1>4, <2>1
<1>6. /\ rest \in Bars
      /\ rest.active = b.active /\ rest.del = b.del
  <2>1. PICK note \in NoteType : n.next = [b EXCEPT !.note = note]
    BY NotifierUpdateReturns
  <2> HIDE DEF n
  <2>2. n.next \in Bars /\ n.next.active = b.active /\ n.next.del = b.del
    BY <2>1, BarsFields
  <2>3. (n.next.searchPrevActive \/ b.active = "search") \in BOOLEAN
    OBVIOUS
  <2> QED
    BY <2>2, <2>3, WithPrevActive
<1> HIDE DEF rest
<1>7. table = ToActive(rest, msg, handlers, valid)
  <2>1. HandleSlash(rest, msg).cmds = {}
    BY DEF HandleSlash, SearchUpdate, Outcome
  <2>2. IsKey(msg, "f2") => HandleF2(rest, msg, selection, valid).cmds = {}
    BY DEF HandleF2, DeleteUpdate, Outcome
  <2>3. HandleF3(rest, msg).cmds = {}
    BY DEF HandleF3, SortUpdate, Outcome
  <2> HIDE DEF table
  <2> QED
    BY <1>5, <2>1, <2>2, <2>3 DEF ToBars, Outcome, Answers, table
<1> DEFINE a == ActiveUpdate(rest, msg, handlers, valid)
<1>8. /\ rest.active # "none" /\ table.cmds = a.cmds
      /\ table.next = IF a.active THEN a.next ELSE GiveWay(a.next)
  <2>1. a = [next |-> a.next, active |-> a.active, handled |-> a.handled, cmds |-> a.cmds]
    BY DEF ActiveUpdate, NotifierUpdate, Notify, DeleteStep, DeleteUpdate, Enter, Closed,
           SearchStep, SearchUpdate, SortStep, SortUpdate, Outcome
  <2> HIDE DEF a, table
  <2>2. rest.active # "none"
    BY <1>7 DEF ToActive, Outcome, Answers, table
  <2>3. ToActive(rest, msg, handlers, valid)
          = [a EXCEPT !.next = IF a.active THEN a.next ELSE GiveWay(a.next)]
    BY <2>2 DEF ToActive, a
  <2> QED
    BY <1>7, <2>1, <2>2, <2>3
<1>9. Answers(a.cmds)
  BY <1>8
<1>10. b.active = "delete"
  <2>1. CASE b.active = "notifier"
    <3>1. \A t : DeleteCmd(t) \notin NotifierUpdate(rest, msg, handlers).cmds
      BY <1>6, NotifierDeletesNothing
    <3>2. RefuseCmd \notin NotifierUpdate(rest, msg, handlers).cmds
      BY DEF NotifierUpdate, Notify, Outcome, RefuseCmd, SpinCmd, AutoHideCmd
    <3> QED
      BY <1>6, <1>9, <2>1, <3>1, <3>2 DEF ActiveUpdate, Answers
  <2>2. CASE b.active = "search"
    BY <1>6, <1>9, <2>2 DEF ActiveUpdate, SearchStep, SearchUpdate, Outcome, Answers
  <2>3. CASE b.active = "sort"
    BY <1>6, <1>9, <2>3 DEF ActiveUpdate, SortStep, SortUpdate, Outcome, Answers
  <2> QED
    BY <1>6, <1>8, <2>1, <2>2, <2>3, BarsFields
<1>11. a = DeleteStep(rest, msg, valid)
  BY <1>6, <1>10 DEF ActiveUpdate
<1>12. rest.del.active
  BY <1>6, <1>10 DEF IsOpen
<1>13. /\ IsKey(msg, "enter") /\ a.active /\ a.next.active = rest.active
       /\ \/ a.cmds = {RefuseCmd}
          \/ a.cmds = {DeleteCmd(rest.del.value)} /\ rest.del.value \in valid
  BY <1>6, <1>9, <1>11, <1>12, DeleteStepAnswers
<1> HIDE DEF a, table
<1> QED
  BY <1>6, <1>8, <1>10, <1>13 DEF table
=============================================================================
