------------------------- MODULE TopicsPage_proofs -------------------------
(***************************************************************************)
(* Proofs about the topics page, for any topics, search terms and numbers  *)
(* of requests.                                                            *)
(***************************************************************************)
EXTENDS TopicsPage, CommandBars_proofs, SequenceTheorems

-----------------------------------------------------------------------------
States == {"refreshing", "loading", "loaded"}

LEMMA HandlersTyped ==
  ASSUME NEW s \in States
  PROVE  AreHandlers(Handlers(s))
<1>1. IsHandler(Spin) /\ IsHandler(Idle) /\ IsHandler(Ignore)
  BY DEF IsHandler, Handler, Spin, Idle, Ignore, NoteStates
<1>2. /\ IsHandler(Handler("error", TRUE, FALSE))
      /\ IsHandler(Handler("error", TRUE, TRUE))
      /\ IsHandler(Handler("success", TRUE, TRUE))
  BY DEF IsHandler, Handler, NoteStates
<1>3. DOMAIN Handlers(s) = {"listingStarted", "listed", "listErr", "deletionStarted",
                            "deleted", "deletionErr", "regainedFocus"}
  BY DEF Handlers
<1>4. /\ IsHandler(Handlers(s)["listingStarted"])
      /\ IsHandler(Handlers(s)["listed"])
      /\ IsHandler(Handlers(s)["listErr"])
      /\ IsHandler(Handlers(s)["deletionStarted"])
      /\ IsHandler(Handlers(s)["deleted"])
      /\ IsHandler(Handlers(s)["deletionErr"])
  BY <1>1, <1>2 DEF Handlers
<1>5. IsHandler(Handlers(s)["regainedFocus"])
  <2>1. CASE s \in {"refreshing", "loading"}
    BY <1>1, <2>1 DEF Handlers
  <2>2. CASE s \notin {"refreshing", "loading"}
    BY <1>1, <2>2 DEF Handlers
  <2> QED
    BY <2>1, <2>2
<1> QED
  BY <1>3, <1>4, <1>5 DEF AreHandlers

LEMMA WithDeletionTyped ==
  ASSUME NEW reqs \in Seq(Requests), NEW cmds
  PROVE  WithDeletion(reqs, cmds) \in Seq(Requests)
<1>1. CASE Deletions(cmds) = {}
  BY <1>1 DEF WithDeletion
<1>2. CASE Deletions(cmds) # {}
  <2>1. (CHOOSE t \in Deletions(cmds) : TRUE) \in Items
    BY <1>2 DEF Deletions
  <2>2. Deletion(CHOOSE t \in Deletions(cmds) : TRUE) \in Requests
    BY <2>1 DEF Deletion, Requests
  <2> QED
    BY <1>2, <2>2 DEF WithDeletion
<1> QED
  BY <1>1, <1>2

Inv == TypeOK /\ ActiveBarIsOpen /\ RowsFollow

(* Whatever message the bars get, the page is left as the invariant wants  *)
(* it: this covers every handler that ends in the common part of Update.   *)
LEMMA BarKeeps ==
  ASSUME TypeOK,
         NEW bars \in Bars, IsOpen(bars), NEW msg, IsMessage(msg),
         NEW selection \in Items \cup {NoItem}, NEW listed \in SUBSET Items,
         NEW newState \in States, NEW reqs \in Seq(Requests),
         Bar(bars, msg, selection, listed, newState, reqs)
  PROVE  /\ topics' \subseteq Items /\ rows' \subseteq Items /\ state' \in States
         /\ tcb' \in Bars /\ requests' \in Seq(Requests)
         /\ ticking' \in BOOLEAN /\ timers' \in Nat
         /\ ActiveBarIsOpen'
         /\ rows' = RowsOf(topics', showInternal, tcb'.search.term)
<1> DEFINE o == TableUpdate(bars, msg, selection, Handlers(newState), Items)
<1>1. o.next \in Bars /\ IsOpen(o.next)
  BY HandlersTyped, TableUpdateKeeps
<1> HIDE DEF o
<1>2. /\ tcb' = o.next /\ topics' = listed /\ state' = newState
      /\ rows' = RowsOf(listed, showInternal, o.next.search.term)
      /\ requests' = WithDeletion(reqs, o.cmds)
      /\ ticking' = (ticking \/ SpinCmd \in o.cmds)
      /\ timers' = timers + (IF AutoHideCmd \in o.cmds THEN 1 ELSE 0)
  BY DEF Bar, o
<1>3. rows' \subseteq Items
  BY <1>2 DEF RowsOf
<1>4. requests' \in Seq(Requests)
  BY <1>2, WithDeletionTyped
<1>5. ticking' \in BOOLEAN
  BY <1>2
<1>6. timers' \in Nat
  BY <1>2 DEF TypeOK
<1>7. ActiveBarIsOpen'
  BY <1>1, <1>2 DEF ActiveBarIsOpen, IsOpen
<1> QED
  BY <1>1, <1>2, <1>3, <1>4, <1>5, <1>6, <1>7

LEMMA SelectionTyped ==
  ASSUME TypeOK
  PROVE  Selections \subseteq Items \cup {NoItem}
BY DEF TypeOK, Selections

LEMMA RequestsTyped ==
  ASSUME TypeOK, NEW i \in DOMAIN requests
  PROVE  /\ Finished(i) \in Seq(Requests)
         /\ [requests EXCEPT ![i].at = "awaited"] \in Seq(Requests)
         /\ Append(requests, Listing) \in Seq(Requests)
<1>1. requests \in Seq(Requests) /\ i \in 1..Len(requests)
  BY DEF TypeOK
<1>2. Finished(i) \in Seq(Requests)
  <2>1. SubSeq(requests, 1, i - 1) \in Seq(Requests)
    BY <1>1, SubSeqProperties
  <2>2. SubSeq(requests, i + 1, Len(requests)) \in Seq(Requests)
    BY <1>1, SubSeqProperties
  <2> QED
    BY <2>1, <2>2, ConcatProperties DEF Finished, RemoveAt
<1>3. [requests EXCEPT ![i].at = "awaited"] \in Seq(Requests)
  <2> DEFINE r == [requests[i] EXCEPT !.at = "awaited"]
  <2>1. r \in Requests
    <3>1. requests[i] \in Requests
      BY <1>1, ElementOfSeq
    <3> QED
      BY <3>1 DEF Requests
  <2>2. [requests EXCEPT ![i].at = "awaited"] = [requests EXCEPT ![i] = r]
    BY Zenon
  <2> HIDE DEF r
  <2> QED
    BY <1>1, <2>1, <2>2, ExceptSeq
<1>4. Append(requests, Listing) \in Seq(Requests)
  BY <1>1 DEF Listing, Requests
<1> QED
  BY <1>2, <1>3, <1>4

LEMMA InvInitially ==
  Init => Inv
<1> SUFFICES ASSUME Init PROVE Inv
  OBVIOUS
<1>1. NewBars \in Bars /\ NewBars.active = "notifier"
  BY BarsAssumption DEF NewBars, Bars
<1>2. <<Listing>> \in Seq(Requests)
  BY DEF Listing, Requests
<1>3. TypeOK
  BY <1>1, <1>2 DEF Init, TypeOK
<1>4. ActiveBarIsOpen
  BY <1>1 DEF Init, ActiveBarIsOpen
<1>5. RowsFollow
  BY DEF Init, RowsFollow, RowsOf
<1> QED
  BY <1>3, <1>4, <1>5 DEF Inv

(* The invariant from what BarKeeps says and the variables it is silent on. *)
LEMMA InvAfterBar ==
  ASSUME Inv,
         NEW bars \in Bars, IsOpen(bars), NEW msg, IsMessage(msg),
         NEW selection \in Selections, NEW listed \in SUBSET Items,
         NEW newState \in States, NEW reqs \in Seq(Requests),
         Bar(bars, msg, selection, listed, newState, reqs),
         showInternal' = showInternal, onPage' \in BOOLEAN, onTab' \in BOOLEAN,
         hides' \in Nat
  PROVE  Inv'
<1>1. selection \in Items \cup {NoItem} /\ TypeOK
  BY SelectionTyped DEF Inv
<1>2. /\ topics' \subseteq Items /\ rows' \subseteq Items /\ state' \in States
      /\ tcb' \in Bars /\ requests' \in Seq(Requests)
      /\ ticking' \in BOOLEAN /\ timers' \in Nat
      /\ ActiveBarIsOpen'
      /\ rows' = RowsOf(topics', showInternal, tcb'.search.term)
  BY <1>1, BarKeeps
<1>3. TypeOK'
  BY <1>1, <1>2 DEF TypeOK, States
<1>4. RowsFollow'
  BY <1>2 DEF RowsFollow
<1> QED
  BY <1>2, <1>3, <1>4 DEF Inv

(* A message the page does not hear ends its request and nothing else.     *)
LEMMA UnheardKeeps ==
  ASSUME Inv, NEW i \in DOMAIN requests, Unheard(i), Finished(i) \in Seq(Requests),
         showInternal' = showInternal, onPage' \in BOOLEAN, onTab' \in BOOLEAN,
         hides' \in Nat
  PROVE  Inv'
BY DEF Inv, Unheard, TypeOK, ActiveBarIsOpen, RowsFollow

LEMMA InvPreserved ==
  Inv /\ [Next]_vars => Inv'
<1> SUFFICES ASSUME Inv, [Next]_vars PROVE Inv'
  OBVIOUS
<1>1. /\ TypeOK /\ tcb \in Bars /\ IsOpen(tcb)
      /\ topics \in SUBSET Items /\ state \in States /\ requests \in Seq(Requests)
      /\ onPage \in BOOLEAN /\ onTab \in BOOLEAN /\ hides \in Nat /\ timers \in Nat
  BY DEF Inv, TypeOK, ActiveBarIsOpen, IsOpen, States
<1>2. ASSUME ToggleInternal PROVE Inv'
  <2>1. showInternal' \in BOOLEAN /\ rows' \subseteq Items
    BY <1>1, <1>2 DEF ToggleInternal, TypeOK, RowsOf
  <2> QED
    BY <1>2, <2>1 DEF Inv, ToggleInternal, TypeOK, ActiveBarIsOpen, RowsFollow
<1>3. ASSUME Refresh PROVE Inv'
  <2>1. Append(requests, Listing) \in Seq(Requests)
    BY <1>1 DEF Listing, Requests
  <2> QED
    BY <1>3, <2>1 DEF Inv, Refresh, TypeOK, ActiveBarIsOpen, RowsFollow
<1>4. ASSUME LeavePage PROVE Inv'
  BY <1>4 DEF Inv, LeavePage, TypeOK, ActiveBarIsOpen, RowsFollow
<1>5. ASSUME NEW key \in Keys, NEW term \in Terms, NEW selection \in Selections,
             Press(key, term, selection)
      PROVE  Inv'
  <2>1. IsMessage(Key(key, term))
    BY DEF IsMessage, Key
  <2> QED
    BY <1>1, <1>5, <2>1, InvAfterBar DEF Press, Unmoved
<1>6. ASSUME ToTopicsPage PROVE Inv'
  BY <1>6 DEF Inv, ToTopicsPage, TypeOK, ActiveBarIsOpen, RowsFollow
<1>7. ASSUME NEW refresh \in BOOLEAN, LoadTopicsPage(refresh) PROVE Inv'
  <2> DEFINE msg == [type |-> "loadTopicsPage"]
             listed == IF refresh THEN {} ELSE topics
             reqs == IF refresh THEN Append(requests, Listing) ELSE requests
  <2>1. IsMessage(msg) /\ listed \in SUBSET Items
    BY <1>1 DEF IsMessage
  <2>2. reqs \in Seq(Requests)
    <3>1. Append(requests, Listing) \in Seq(Requests)
      BY <1>1 DEF Listing, Requests
    <3> QED
      BY <1>1, <3>1
  <2>3. PICK selection \in Selections : Bar(tcb, msg, selection, listed, state, reqs)
    BY <1>7 DEF LoadTopicsPage
  <2>4. /\ showInternal' = showInternal /\ onPage' \in BOOLEAN /\ onTab' \in BOOLEAN
        /\ hides' \in Nat
    BY <1>1, <1>7 DEF LoadTopicsPage
  <2> HIDE DEF msg, listed, reqs
  <2> QED
    BY <1>1, <2>1, <2>2, <2>3, <2>4, InvAfterBar
<1>8. ASSUME LeaveTab PROVE Inv'
  BY <1>8 DEF Inv, LeaveTab, TypeOK, ActiveBarIsOpen, RowsFollow
<1>9. ASSUME RegainFocus PROVE Inv'
  <2>1. /\ showInternal' = showInternal /\ onPage' \in BOOLEAN /\ onTab' \in BOOLEAN
        /\ hides' \in Nat
    BY <1>1, <1>9 DEF RegainFocus
  <2>2. CASE onPage
    <3> DEFINE msg == [type |-> "regainedFocus"]
    <3>1. IsMessage(msg)
      BY DEF IsMessage
    <3>2. PICK selection \in Selections : Bar(tcb, msg, selection, topics, state, requests)
      BY <1>9, <2>2 DEF RegainFocus
    <3> HIDE DEF msg
    <3> QED
      BY <1>1, <2>1, <3>1, <3>2, InvAfterBar
  <2>3. CASE ~onPage
    BY <1>9, <2>3 DEF Inv, RegainFocus, TypeOK, ActiveBarIsOpen, RowsFollow
  <2> QED
    BY <2>2, <2>3
<1>10. ASSUME NEW i \in DOMAIN requests, Started(i) PROVE Inv'
  <2>1. /\ showInternal' = showInternal /\ onPage' \in BOOLEAN /\ onTab' \in BOOLEAN
        /\ hides' \in Nat
    BY <1>1, <1>10 DEF Started, Unmoved
  <2>2. i \in DOMAIN requests
    BY <1>10
  <2>3. Finished(i) \in Seq(Requests) /\ [requests EXCEPT ![i].at = "awaited"] \in Seq(Requests)
    BY <1>1, <2>2, RequestsTyped
  <2> DEFINE listing == requests[i].kind = "list"
             msg == [type |-> IF listing THEN "listingStarted" ELSE "deletionStarted"]
             awaited == [requests EXCEPT ![i].at = "awaited"]
  <2>4. CASE onPage /\ (onTab \/ listing)
    <3>1. IsMessage(msg)
      BY DEF IsMessage
    <3>2. PICK selection \in Selections : Bar(tcb, msg, selection, topics, state, awaited)
      BY <1>10, <2>4 DEF Started
    <3> HIDE DEF msg, awaited
    <3>3. awaited \in Seq(Requests)
      BY <2>3 DEF awaited
    <3> QED
      BY <1>1, <2>1, <3>1, <3>2, <3>3, InvAfterBar
  <2>5. CASE ~(onPage /\ (onTab \/ listing))
    <3>1. Unheard(i)
      BY <1>10, <2>5 DEF Started
    <3> QED
      BY <2>1, <2>3, <3>1, UnheardKeeps
  <2> QED
    BY <2>4, <2>5
<1>11. ASSUME NEW i \in DOMAIN requests, NEW found \in SUBSET Items, Listed(i, found)
      PROVE  Inv'
  <2>1. /\ showInternal' = showInternal /\ onPage' \in BOOLEAN /\ onTab' \in BOOLEAN
        /\ hides' \in Nat
    BY <1>1, <1>11 DEF Listed, Unmoved
  <2>2. i \in DOMAIN requests
    BY <1>11
  <2>3. Finished(i) \in Seq(Requests) /\ [requests EXCEPT ![i].at = "awaited"] \in Seq(Requests)
    BY <1>1, <2>2, RequestsTyped
  <2> DEFINE msg == [type |-> "listed"]
             bars == ResetSearch(tcb)
  <2>4. IsMessage(msg)
    BY DEF IsMessage
  <2>5. bars \in Bars /\ IsOpen(bars)
    BY <1>1, ResetSearchKeeps
  <2>6. PICK selection \in Selections : Bar(bars, msg, selection, found, "loaded", Finished(i))
    BY <1>11 DEF Listed
  <2>7. "loaded" \in States
    BY DEF States
  <2> HIDE DEF msg, bars
  <2> QED
    BY <2>1, <2>3, <2>4, <2>5, <2>6, <2>7, InvAfterBar
<1>12. ASSUME NEW i \in DOMAIN requests, ListingFailed(i) PROVE Inv'
  <2>1. /\ showInternal' = showInternal /\ onPage' \in BOOLEAN /\ onTab' \in BOOLEAN
        /\ hides' \in Nat
    BY <1>1, <1>12 DEF ListingFailed, Unmoved
  <2>2. i \in DOMAIN requests
    BY <1>12
  <2>3. Finished(i) \in Seq(Requests) /\ [requests EXCEPT ![i].at = "awaited"] \in Seq(Requests)
    BY <1>1, <2>2, RequestsTyped
  <2>4. CASE Shown
    <3> DEFINE msg == [type |-> "listErr"]
               listed == topics
    <3>1. IsMessage(msg) /\ listed \in SUBSET Items
      BY <1>1 DEF IsMessage
    <3>2. PICK selection \in Selections : Bar(tcb, msg, selection, listed, state, Finished(i))
      BY <1>12, <2>4 DEF ListingFailed
    <3> HIDE DEF msg, listed
    <3> QED
      BY <1>1, <2>1, <2>3, <3>1, <3>2, InvAfterBar
  <2>5. CASE ~Shown
    BY <1>12, <2>1, <2>3, <2>5, UnheardKeeps DEF ListingFailed
  <2> QED
    BY <2>4, <2>5
<1>13. ASSUME NEW i \in DOMAIN requests, Deleted(i) PROVE Inv'
  <2>1. /\ showInternal' = showInternal /\ onPage' \in BOOLEAN /\ onTab' \in BOOLEAN
        /\ hides' \in Nat
    BY <1>1, <1>13 DEF Deleted, Unmoved
  <2>2. i \in DOMAIN requests
    BY <1>13
  <2>3. Finished(i) \in Seq(Requests) /\ [requests EXCEPT ![i].at = "awaited"] \in Seq(Requests)
    BY <1>1, <2>2, RequestsTyped
  <2>4. CASE Shown
    <3> DEFINE msg == [type |-> "deleted"]
               listed == topics \ {requests[i].topic}
    <3>1. IsMessage(msg) /\ listed \in SUBSET Items
      BY <1>1 DEF IsMessage
    <3>2. PICK selection \in Selections : Bar(tcb, msg, selection, listed, state, Finished(i))
      BY <1>13, <2>4 DEF Deleted
    <3> HIDE DEF msg, listed
    <3> QED
      BY <1>1, <2>1, <2>3, <3>1, <3>2, InvAfterBar
  <2>5. CASE ~Shown
    BY <1>13, <2>1, <2>3, <2>5, UnheardKeeps DEF Deleted
  <2> QED
    BY <2>4, <2>5
<1>14. ASSUME NEW i \in DOMAIN requests, DeletionFailed(i) PROVE Inv'
  <2>1. /\ showInternal' = showInternal /\ onPage' \in BOOLEAN /\ onTab' \in BOOLEAN
        /\ hides' \in Nat
    BY <1>1, <1>14 DEF DeletionFailed, Unmoved
  <2>2. i \in DOMAIN requests
    BY <1>14
  <2>3. Finished(i) \in Seq(Requests) /\ [requests EXCEPT ![i].at = "awaited"] \in Seq(Requests)
    BY <1>1, <2>2, RequestsTyped
  <2>4. CASE Shown
    <3> DEFINE msg == [type |-> "deletionErr"]
               listed == topics
    <3>1. IsMessage(msg) /\ listed \in SUBSET Items
      BY <1>1 DEF IsMessage
    <3>2. PICK selection \in Selections : Bar(tcb, msg, selection, listed, state, Finished(i))
      BY <1>14, <2>4 DEF DeletionFailed
    <3> HIDE DEF msg, listed
    <3> QED
      BY <1>1, <2>1, <2>3, <3>1, <3>2, InvAfterBar
  <2>5. CASE ~Shown
    BY <1>14, <2>1, <2>3, <2>5, UnheardKeeps DEF DeletionFailed
  <2> QED
    BY <2>4, <2>5
<1>15. ASSUME SpinnerTick PROVE Inv'
  <2>1. CASE Shown
    <3> DEFINE o == TableUpdate(tcb, Tick, NoItem, Handlers(state), Items)
               p == TableUpdate(o.next, Tick, NoItem, Handlers(state), Items)
    <3>1. IsMessage(Tick) /\ AreHandlers(Handlers(state)) /\ NoItem \in Items \cup {NoItem}
      BY <1>1, HandlersTyped DEF IsMessage, Tick
    <3>2. o.next \in Bars /\ IsOpen(o.next)
      BY <1>1, <3>1, TableUpdateKeeps
    <3>3. /\ tcb' = p.next
          /\ ticking' = (SpinCmd \in o.cmds)
          /\ rows' = RowsOf(topics, showInternal, p.next.search.term)
      BY <1>15, <2>1 DEF SpinnerTick
    <3> HIDE DEF o
    <3>4. p.next \in Bars /\ IsOpen(p.next)
      BY <3>1, <3>2, TableUpdateKeeps
    <3> HIDE DEF p
    <3>5. ticking' \in BOOLEAN
      BY <3>3
    <3>6. rows' \subseteq Items
      BY <1>1, <3>3 DEF RowsOf
    <3>7. UNCHANGED <<topics, state, requests, timers, hides, showInternal, onPage, onTab>>
      BY <1>15 DEF SpinnerTick, Unmoved
    <3>8. TypeOK'
      BY <1>1, <3>3, <3>4, <3>5, <3>6, <3>7 DEF TypeOK
    <3>9. ActiveBarIsOpen' /\ RowsFollow'
      BY <3>3, <3>4, <3>7 DEF ActiveBarIsOpen, IsOpen, RowsFollow
    <3> QED
      BY <3>8, <3>9 DEF Inv
  <2>2. CASE ~Shown
    BY <1>15, <2>2 DEF Inv, SpinnerTick, Unmoved, TypeOK, ActiveBarIsOpen, RowsFollow
  <2> QED
    BY <2>1, <2>2
<1>16. ASSUME TimerEnds PROVE Inv'
  <2>1. timers' \in Nat /\ hides' \in Nat
    BY <1>1, <1>16 DEF TimerEnds
  <2> QED
    BY <1>16, <2>1 DEF Inv, TimerEnds, Unmoved, TypeOK, ActiveBarIsOpen, RowsFollow
<1>17. ASSUME HideNotification PROVE Inv'
  <2>1. /\ showInternal' = showInternal /\ onPage' \in BOOLEAN /\ onTab' \in BOOLEAN
        /\ hides' \in Nat
    BY <1>1, <1>17 DEF HideNotification, Unmoved
  <2>2. CASE Shown
    <3>1. IsMessage(Hide)
      BY DEF IsMessage, Hide
    <3>2. PICK selection \in Selections : Bar(tcb, Hide, selection, topics, state, requests)
      BY <1>17, <2>2 DEF HideNotification
    <3> QED
      BY <1>1, <2>1, <3>1, <3>2, InvAfterBar
  <2>3. CASE ~Shown
    BY <1>17, <2>1, <2>3
       DEF Inv, HideNotification, Unmoved, TypeOK, ActiveBarIsOpen, RowsFollow
  <2> QED
    BY <2>2, <2>3
<1>18. CASE UNCHANGED vars
  BY <1>18 DEF Inv, vars, TypeOK, ActiveBarIsOpen, RowsFollow
<1> QED
  BY <1>2, <1>3, <1>4, <1>5, <1>6, <1>7, <1>8, <1>9, <1>10, <1>11, <1>12, <1>13,
     <1>14, <1>15, <1>16, <1>17, <1>18
     DEF Next, OpenTopic, OpenOther

-----------------------------------------------------------------------------
(* Deletions                                                               *)

(* What a confirmed deletion of t is, of the step that requests it.        *)
Confirms(t) ==
  /\ tcb.active = "delete" /\ tcb.del.active /\ tcb.del.affirmed
  /\ t = tcb.del.value
  /\ ~tcb'.del.affirmed

(* Appending is injective.                                                 *)
LEMMA AppendedLast ==
  ASSUME NEW s \in Seq(Requests), NEW r \in Seq(Requests),
         NEW x \in Requests, NEW y \in Requests, Append(s, x) = Append(r, y)
  PROVE  x = y
<1>1. Len(Append(s, x)) = Len(s) + 1 /\ Len(Append(r, y)) = Len(r) + 1
  OBVIOUS
<1>2. Append(s, x)[Len(s) + 1] = x /\ Append(r, y)[Len(r) + 1] = y
  OBVIOUS
<1>3. Len(s) \in Nat /\ Len(r) \in Nat
  OBVIOUS
<1>4. Len(s) = Len(r)
  BY <1>1, <1>3
<1> QED
  BY <1>2, <1>4

LEMMA DeletionIsRequest ==
  ASSUME NEW t \in Items
  PROVE  /\ Deletion(t) \in Requests /\ Listing \in Requests
         /\ Deletion(t) # Listing
         /\ \A u : Deletion(u) = Deletion(t) => u = t
BY DEF Deletion, Listing, Requests

(* The common part of Update adds a deletion only if it was confirmed.     *)
LEMMA BarConfirms ==
  ASSUME Inv,
         NEW bars \in Bars, bars.active = tcb.active, bars.del = tcb.del,
         NEW msg, NEW selection, NEW listed, NEW newState \in States,
         NEW reqs \in Seq(Requests),
         Bar(bars, msg, selection, listed, newState, reqs),
         NEW t \in Items, requests' = Append(requests, Deletion(t)),
         reqs # Append(requests, Deletion(t))
  PROVE  Confirms(t)
<1> DEFINE o == TableUpdate(bars, msg, selection, Handlers(newState), Items)
           u == CHOOSE v \in Deletions(o.cmds) : TRUE
<1>1. requests' = WithDeletion(reqs, o.cmds) /\ tcb' = o.next
  BY DEF Bar
<1>2. Deletions(o.cmds) # {} /\ requests' = Append(reqs, Deletion(u))
  BY <1>1 DEF WithDeletion
<1>3. u \in Items /\ DeleteCmd(u) \in o.cmds
  BY <1>2 DEF Deletions
<1> HIDE DEF u
<1>4. u = t
  <2>1. requests \in Seq(Requests)
    BY DEF Inv, TypeOK
  <2>2. Deletion(u) = Deletion(t)
    BY <1>2, <1>3, <2>1, AppendedLast, DeletionIsRequest
  <2> QED
    BY <2>2, DeletionIsRequest
<1>5. /\ bars.active = "delete" /\ bars.del.affirmed /\ t = bars.del.value
      /\ ~o.next.del.affirmed
  BY <1>3, <1>4, HandlersTyped, TableUpdateConfirmed
<1> HIDE DEF o
<1> QED
  BY <1>1, <1>5 DEF Confirms, Inv, ActiveBarIsOpen

(* Of the other ways the requests change none looks like a deletion added. *)
LEMMA NotAppended ==
  ASSUME TypeOK, NEW t \in Items
  PROVE  /\ requests # Append(requests, Deletion(t))
         /\ Append(requests, Listing) # Append(requests, Deletion(t))
         /\ \A i \in DOMAIN requests :
              /\ Finished(i) # Append(requests, Deletion(t))
              /\ [requests EXCEPT ![i].at = "awaited"] # Append(requests, Deletion(t))
<1>1. requests \in Seq(Requests) /\ Len(requests) \in Nat
  BY DEF TypeOK
<1>2. Len(Append(requests, Deletion(t))) = Len(requests) + 1
  BY <1>1, DeletionIsRequest
<1>3. requests # Append(requests, Deletion(t))
  BY <1>1, <1>2
<1>4. Append(requests, Listing) # Append(requests, Deletion(t))
  BY <1>1, AppendedLast, DeletionIsRequest
<1>5. ASSUME NEW i \in DOMAIN requests
      PROVE  /\ Finished(i) # Append(requests, Deletion(t))
             /\ [requests EXCEPT ![i].at = "awaited"] # Append(requests, Deletion(t))
  <2>1. i \in 1..Len(requests)
    BY <1>1
  <2>2. Len(Finished(i)) < Len(requests) + 1
    <3> DEFINE before == SubSeq(requests, 1, i - 1)
               after == SubSeq(requests, i + 1, Len(requests))
    <3>1. before \in Seq(Requests) /\ Len(before) = i - 1
      BY <1>1, <2>1, SubSeqProperties
    <3>2. after \in Seq(Requests) /\ Len(after) = Len(requests) - i
      BY <1>1, <2>1, SubSeqProperties
    <3>3. Finished(i) = before \o after
      BY DEF Finished, RemoveAt
    <3> HIDE DEF before, after
    <3>4. Len(Finished(i)) = Len(before) + Len(after)
      BY <3>1, <3>2, <3>3, ConcatProperties
    <3> QED
      BY <1>1, <2>1, <3>1, <3>2, <3>4
  <2>3. DOMAIN [requests EXCEPT ![i].at = "awaited"] = DOMAIN requests
    BY Zenon
  <2>4. DOMAIN Append(requests, Deletion(t)) # DOMAIN requests
    BY <1>1, <1>2, DeletionIsRequest
  <2> QED
    BY <1>1, <1>2, <2>2, <2>3, <2>4
<1> QED
  BY <1>3, <1>4, <1>5

LEMMA StepConfirms ==
  ASSUME Inv, Next, NEW t \in Items, requests' = Append(requests, Deletion(t))
  PROVE  Confirms(t)
<1>1. TypeOK /\ tcb \in Bars /\ state \in States /\ requests \in Seq(Requests)
  BY DEF Inv, TypeOK, States
<1>2. /\ requests # Append(requests, Deletion(t))
      /\ Append(requests, Listing) # Append(requests, Deletion(t))
  BY <1>1, NotAppended
<1>3. requests' # requests /\ requests' # Append(requests, Listing)
  BY <1>2
<1>4. CASE ToggleInternal \/ Refresh \/ LeavePage \/ ToTopicsPage \/ LeaveTab \/ TimerEnds
           \/ SpinnerTick
  BY <1>3, <1>4 DEF ToggleInternal, Refresh, LeavePage, ToTopicsPage, LeaveTab, TimerEnds,
                    SpinnerTick
<1>5. ASSUME NEW msg, NEW selection, NEW reqs \in {requests, Append(requests, Listing)},
             NEW listed, Bar(tcb, msg, selection, listed, state, reqs)
      PROVE  Confirms(t)
  <2>1. Append(requests, Listing) \in Seq(Requests)
    BY <1>1, DeletionIsRequest
  <2>2. reqs \in Seq(Requests) /\ reqs # Append(requests, Deletion(t))
    BY <1>1, <1>2, <2>1
  <2> QED
    BY <1>1, <1>5, <2>2, BarConfirms
<1>6. ASSUME NEW key \in Keys, NEW term \in Terms, NEW selection \in Selections,
             Press(key, term, selection)
      PROVE  Confirms(t)
  BY <1>5, <1>6 DEF Press
<1>7. ASSUME NEW refresh \in BOOLEAN, LoadTopicsPage(refresh) PROVE Confirms(t)
  BY <1>5, <1>7 DEF LoadTopicsPage
<1>8. CASE RegainFocus
  BY <1>3, <1>5, <1>8 DEF RegainFocus
<1>9. CASE HideNotification
  BY <1>3, <1>5, <1>9 DEF HideNotification
<1>10. ASSUME NEW i \in DOMAIN requests, NEW bars \in {tcb, ResetSearch(tcb)}, NEW msg,
              NEW selection, NEW listed, NEW newState \in States,
              NEW reqs \in {Finished(i), [requests EXCEPT ![i].at = "awaited"]},
              Bar(bars, msg, selection, listed, newState, reqs)
       PROVE  Confirms(t)
  <2>1. reqs \in Seq(Requests) /\ reqs # Append(requests, Deletion(t))
    BY <1>1, RequestsTyped, NotAppended
  <2>2. bars \in Bars /\ bars.active = tcb.active /\ bars.del = tcb.del
    <3>1. IsOpen(tcb)
      BY DEF Inv, ActiveBarIsOpen, IsOpen
    <3>2. ResetSearch(tcb) \in Bars
      BY <1>1, <3>1, ResetSearchKeeps
    <3>3. ResetSearch(tcb).active = tcb.active /\ ResetSearch(tcb).del = tcb.del
      BY <1>1, BarsFields DEF ResetSearch
    <3> QED
      BY <1>1, <3>2, <3>3
  <2> QED
    BY <1>10, <2>1, <2>2, BarConfirms
<1>11. ASSUME NEW i \in DOMAIN requests, Unheard(i) PROVE FALSE
  BY <1>1, <1>11, NotAppended DEF Unheard
<1>12. ASSUME NEW i \in DOMAIN requests,
              Started(i) \/ ListingFailed(i) \/ Deleted(i) \/ DeletionFailed(i)
       PROVE  Confirms(t)
  BY <1>1, <1>10, <1>11, <1>12 DEF Started, ListingFailed, Deleted, DeletionFailed
<1>13. ASSUME NEW i \in DOMAIN requests, NEW found, Listed(i, found) PROVE Confirms(t)
  <2>1. "loaded" \in States
    BY DEF States
  <2> QED
    BY <1>10, <1>13, <2>1 DEF Listed
<1> QED
  BY <1>4, <1>6, <1>7, <1>8, <1>9, <1>12, <1>13 DEF Next, OpenTopic, OpenOther

-----------------------------------------------------------------------------
(* Notifications                                                           *)

(* What the common part of Update makes of the notifier, the requests and  *)
(* the timers.                                                             *)
LEMMA BarNotes ==
  ASSUME Inv,
         NEW bars \in Bars, IsOpen(bars), NEW msg, IsMessage(msg),
         NEW selection, NEW listed, NEW newState \in States, NEW reqs \in Seq(Requests),
         Bar(bars, msg, selection, listed, newState, reqs)
  PROVE  /\ tcb'.note = NoteAfter(bars.note, msg, Handlers(newState))
         /\ requests' = <<>> => reqs = <<>>
         /\ timers' \in Nat /\ timers' >= timers
         /\ msg.type \in {"deleted", "deletionErr"} => timers' > 0
<1> DEFINE o == TableUpdate(bars, msg, selection, Handlers(newState), Items)
<1>1. /\ tcb' = o.next
      /\ requests' = WithDeletion(reqs, o.cmds)
      /\ timers' = timers + (IF AutoHideCmd \in o.cmds THEN 1 ELSE 0)
  BY DEF Bar
<1>2. tcb'.note = NoteAfter(bars.note, msg, Handlers(newState))
  BY <1>1, HandlersTyped, TableUpdateNote
<1>3. msg.type \in {"deleted", "deletionErr"} => AutoHideCmd \in o.cmds
  <2> SUFFICES ASSUME msg.type \in {"deleted", "deletionErr"}
               PROVE  AutoHideCmd \in o.cmds
    OBVIOUS
  <2>1. /\ msg.type \notin {"tick", "hide"} /\ msg.type \in DOMAIN Handlers(newState)
        /\ Handlers(newState)[msg.type].active /\ Handlers(newState)[msg.type].autoHide
    BY DEF Handlers, Handler
  <2> QED
    BY <2>1, TableUpdateStartsTimer
<1> HIDE DEF o
<1>4. requests' = <<>> => reqs = <<>>
  <2>1. Append(reqs, Deletion(CHOOSE t \in Deletions(o.cmds) : TRUE)) # <<>>
    OBVIOUS
  <2> QED
    BY <1>1, <2>1 DEF WithDeletion
<1>5. timers \in Nat
  BY DEF Inv, TypeOK
<1> QED
  BY <1>1, <1>2, <1>3, <1>4, <1>5

(* A message the page hears leaves it neither stuck nor with a stale       *)
(* notification, if it was not so before.                                  *)
LEMMA HeardSettles ==
  ASSUME Inv,
         NEW bars \in Bars, IsOpen(bars), bars.note = tcb.note, NEW msg, IsMessage(msg),
         NEW selection, NEW listed, NEW newState \in States, NEW reqs \in Seq(Requests),
         Bar(bars, msg, selection, listed, newState, reqs),
         msg.type \in {"key", "hide", "listingStarted", "deletionStarted",
                       "listed", "listErr", "deleted", "deletionErr"},
         msg.type = "key" => reqs = requests,
         msg.type \in {"listingStarted", "deletionStarted"} => reqs # <<>>,
         hides' \in Nat, msg.type = "hide" \/ hides' = hides
  PROVE  (Stuck' => Stuck) /\ (Stale' => Stale)
<1>1. /\ tcb'.note = NoteAfter(tcb.note, msg, Handlers(newState))
      /\ requests' = <<>> => reqs = <<>>
      /\ timers' \in Nat /\ timers' >= timers
      /\ msg.type \in {"deleted", "deletionErr"} => timers' > 0
  BY BarNotes
<1>2. timers \in Nat /\ hides \in Nat /\ tcb.note \in NoteType
  BY BarsFields DEF Inv, TypeOK
<1>3. CASE msg.type = "key"
  <2>1. tcb'.note = tcb.note
    BY <1>1, <1>3 DEF NoteAfter, Handlers
  <2>2. hides' = hides /\ reqs = requests
    BY <1>3
  <2>3. timers' + hides' = 0 => timers + hides = 0
    BY <1>1, <1>2, <2>2
  <2> QED
    BY <1>1, <2>1, <2>2, <2>3 DEF Stuck, Stale, HasPriority
<1>4. CASE msg.type = "hide"
  <2> DEFINE idle == [tcb.note EXCEPT !.state = "idle"]
  <2>1. tcb'.note = [idle EXCEPT !.autoHide = FALSE]
    BY <1>1, <1>4, Zenon DEF NoteAfter
  <2>2. tcb'.note.state = "idle" /\ ~tcb'.note.autoHide
    BY <1>2, <2>1 DEF NoteType
  <2> QED
    BY <2>2 DEF Stuck, Stale, HasPriority
<1>5. CASE msg.type \in {"listingStarted", "deletionStarted"}
  <2>1. ~tcb'.note.autoHide
    BY <1>1, <1>5 DEF NoteAfter, Handlers, Handler, Spin
  <2> QED
    BY <1>1, <1>5, <2>1 DEF Stuck, Stale
<1>6. CASE msg.type \in {"listed", "listErr"}
  <2>1. tcb'.note.state # "spinning" /\ ~tcb'.note.autoHide
    BY <1>1, <1>6 DEF NoteAfter, Handlers, Handler, Idle
  <2> QED
    BY <2>1 DEF Stuck, Stale, HasPriority
<1>7. CASE msg.type \in {"deleted", "deletionErr"}
  <2>1. tcb'.note.state # "spinning"
    BY <1>1, <1>7 DEF NoteAfter, Handlers, Handler
  <2>2. timers' + hides' # 0
    <3>1. \A m \in Nat, n \in Nat : m > 0 => m + n # 0
      OBVIOUS
    <3>2. timers' \in Nat /\ timers' > 0 /\ hides' \in Nat
      BY <1>1, <1>7
    <3> QED
      BY <3>1, <3>2, Zenon
  <2> QED
    BY <2>1, <2>2 DEF Stuck, Stale, HasPriority
<1> QED
  BY <1>3, <1>4, <1>5, <1>6, <1>7

(* So does every step made while the page is shown.                        *)
LEMMA ShownSettles ==
  ASSUME Inv, Next, Shown
  PROVE  (Stuck' => Stuck) /\ (Stale' => Stale)
<1>1. /\ TypeOK /\ tcb \in Bars /\ IsOpen(tcb) /\ state \in States
      /\ requests \in Seq(Requests) /\ timers \in Nat /\ hides \in Nat
      /\ onPage /\ onTab
  BY DEF Inv, TypeOK, ActiveBarIsOpen, IsOpen, States, Shown
<1>2. CASE ToggleInternal \/ LeavePage \/ LeaveTab
  BY <1>2 DEF ToggleInternal, LeavePage, LeaveTab, Stuck, Stale
<1>3. CASE Refresh
  <2>1. requests' # <<>>
    BY <1>1, <1>3 DEF Refresh
  <2> QED
    BY <1>3, <2>1 DEF Refresh, Stuck, Stale
<1>4. ASSUME NEW key \in Keys, NEW term \in Terms, NEW selection \in Selections,
             Press(key, term, selection)
      PROVE  (Stuck' => Stuck) /\ (Stale' => Stale)
  <2>1. IsMessage(Key(key, term)) /\ Key(key, term).type = "key"
    BY DEF IsMessage, Key
  <2>2. Bar(tcb, Key(key, term), selection, topics, state, requests) /\ hides' = hides
    BY <1>4 DEF Press
  <2> QED
    BY <1>1, <2>1, <2>2, HeardSettles
<1>5. ~ToTopicsPage /\ ~RegainFocus /\ \A refresh : ~LoadTopicsPage(refresh)
  BY <1>1 DEF ToTopicsPage, RegainFocus, LoadTopicsPage
<1>6. ASSUME NEW i \in DOMAIN requests, Started(i)
      PROVE  (Stuck' => Stuck) /\ (Stale' => Stale)
  <2> DEFINE msg == [type |-> IF requests[i].kind = "list" THEN "listingStarted"
                              ELSE "deletionStarted"]
             reqs == [requests EXCEPT ![i].at = "awaited"]
  <2>1. PICK selection \in Selections : Bar(tcb, msg, selection, topics, state, reqs)
    BY <1>1, <1>6 DEF Started
  <2>2. IsMessage(msg) /\ msg.type \in {"listingStarted", "deletionStarted"}
    BY DEF IsMessage
  <2>3. reqs \in Seq(Requests)
    BY <1>1, RequestsTyped
  <2>4. reqs # <<>>
    <3>1. DOMAIN reqs = DOMAIN requests
      BY Zenon
    <3>2. i \in DOMAIN reqs
      BY <3>1, Zenon
    <3> QED
      BY <3>2
  <2>5. hides' = hides
    BY <1>6 DEF Started
  <2> HIDE DEF msg, reqs
  <2> QED
    BY <1>1, <2>1, <2>2, <2>3, <2>4, <2>5, HeardSettles
<1>7. ASSUME NEW i \in DOMAIN requests, NEW bars \in Bars, IsOpen(bars),
             bars.note = tcb.note,
             NEW type \in {"listed", "listErr", "deleted", "deletionErr"},
             NEW selection, NEW listed, NEW newState \in States,
             Bar(bars, [type |-> type], selection, listed, newState, Finished(i)),
             hides' = hides
      PROVE  (Stuck' => Stuck) /\ (Stale' => Stale)
  <2> DEFINE msg == [type |-> type]
  <2>1. IsMessage(msg) /\ msg.type = type
    BY DEF IsMessage
  <2>2. Finished(i) \in Seq(Requests)
    BY <1>1, RequestsTyped
  <2>3. Bar(bars, msg, selection, listed, newState, Finished(i)) /\ hides' \in Nat
    BY <1>1, <1>7
  <2> HIDE DEF msg
  <2> QED
    BY <1>7, <2>1, <2>2, <2>3, HeardSettles
<1>8. ASSUME NEW i \in DOMAIN requests, NEW found, Listed(i, found)
      PROVE  (Stuck' => Stuck) /\ (Stale' => Stale)
  <2>1. PICK selection : Bar(ResetSearch(tcb), [type |-> "listed"], selection, found,
                             "loaded", Finished(i))
    BY <1>8 DEF Listed
  <2>2. ResetSearch(tcb) \in Bars /\ IsOpen(ResetSearch(tcb))
    BY <1>1, ResetSearchKeeps
  <2>3. ResetSearch(tcb).note = tcb.note
    BY <1>1, BarsFields DEF ResetSearch
  <2>4. hides' = hides /\ "loaded" \in States
    BY <1>8 DEF Listed, States
  <2> QED
    BY <1>7, <2>1, <2>2, <2>3, <2>4
<1>9. ASSUME NEW i \in DOMAIN requests,
             ListingFailed(i) \/ Deleted(i) \/ DeletionFailed(i)
      PROVE  (Stuck' => Stuck) /\ (Stale' => Stale)
  BY <1>1, <1>7, <1>9 DEF ListingFailed, Deleted, DeletionFailed, Shown
<1>10. CASE SpinnerTick
  <2> DEFINE o == TableUpdate(tcb, Tick, NoItem, Handlers(state), Items)
             p == TableUpdate(o.next, Tick, NoItem, Handlers(state), Items)
  <2>1. /\ IsMessage(Tick) /\ Tick.type = "tick"
        /\ AreHandlers(Handlers(state)) /\ NoItem \in Items \cup {NoItem}
    BY <1>1, HandlersTyped DEF IsMessage, Tick
  <2>2. o.next \in Bars /\ IsOpen(o.next)
    BY <1>1, <2>1, TableUpdateKeeps
  <2>3. o.next.note = tcb.note
    <3>1. o.next.note = NoteAfter(tcb.note, Tick, Handlers(state))
      BY <1>1, <2>1, TableUpdateNote
    <3> QED
      BY <2>1, <3>1 DEF NoteAfter
  <2>4. tcb' = p.next
    BY <1>10 DEF SpinnerTick
  <2>5. requests' = requests /\ timers' = timers /\ hides' = hides
    BY <1>10 DEF SpinnerTick
  <2> HIDE DEF o
  <2>6. tcb'.note = tcb.note
    <3>1. p.next.note = NoteAfter(o.next.note, Tick, Handlers(state))
      BY <1>1, <2>1, <2>2, TableUpdateNote
    <3> QED
      BY <2>1, <2>3, <2>4, <3>1 DEF NoteAfter
  <2> QED
    BY <2>5, <2>6 DEF Stuck, Stale, HasPriority
<1>11. CASE TimerEnds
  <2>1. tcb' = tcb /\ requests' = requests
    BY <1>11 DEF TimerEnds
  <2>2. tcb.note.autoHide => timers' + hides' = timers + hides
    BY <1>1, <1>11 DEF TimerEnds
  <2> QED
    BY <2>1, <2>2 DEF Stuck, Stale
<1>12. CASE HideNotification
  <2>1. PICK selection \in Selections : Bar(tcb, Hide, selection, topics, state, requests)
    BY <1>12 DEF HideNotification
  <2>2. IsMessage(Hide) /\ Hide.type = "hide"
    BY DEF IsMessage, Hide
  <2>3. hides' \in Nat
    BY <1>1, <1>12 DEF HideNotification
  <2> QED
    BY <1>1, <2>1, <2>2, <2>3, HeardSettles
<1> QED
  BY <1>2, <1>3, <1>4, <1>5, <1>6, <1>8, <1>9, <1>10, <1>11, <1>12
     DEF Next, OpenTopic, OpenOther

-----------------------------------------------------------------------------
(* The bars, the rows and the requests keep their types, in every state.   *)
THEOREM TypeCorrect ==
  Spec => []TypeOK
<1>1. Inv => TypeOK
  BY DEF Inv
<1> QED
  BY <1>1, InvInitially, InvPreserved, PTL DEF Spec

(* The bar TableCmdsBar gives the keys to, and draws, is never one that    *)
(* has been closed.                                                        *)
THEOREM ActiveBarsOpen ==
  Spec => []ActiveBarIsOpen
<1>1. Inv => ActiveBarIsOpen
  BY DEF Inv
<1> QED
  BY <1>1, InvInitially, InvPreserved, PTL DEF Spec

(* The rows shown follow from the list, the choice of internal topics and  *)
(* the search term, whatever message came last.                            *)
THEOREM RowsAlwaysFollow ==
  Spec => []RowsFollow
<1>1. Inv => RowsFollow
  BY DEF Inv
<1> QED
  BY <1>1, InvInitially, InvPreserved, PTL DEF Spec

(* Whatever the order of keys, messages and ticks, a deletion is requested *)
(* only of the topic the open prompt names and with "Delete!" chosen since *)
(* the last one.                                                           *)
THEOREM DeletionsConfirmed ==
  Spec => DeletionConfirmed
<1>1. Inv /\ [Next]_vars =>
        [\A t \in Items :
           requests' = Append(requests, Deletion(t)) =>
             /\ tcb.active = "delete" /\ tcb.del.active /\ tcb.del.affirmed
             /\ t = tcb.del.value
             /\ ~tcb'.del.affirmed]_vars
  BY StepConfirms DEF Confirms
<1> QED
  BY <1>1, InvInitially, InvPreserved, PTL DEF Spec, DeletionConfirmed

(* A page that is shown when a step is made does not come to spin with     *)
(* nothing under way, deaf to its keys, by that step.                      *)
THEOREM StuckOnlyByMissing ==
  Spec => StuckOnlyIfLeft
<1>1. Inv /\ [Next]_vars => [~Stuck /\ Stuck' => ~Shown]_vars
  BY ShownSettles
<1> QED
  BY <1>1, InvInitially, InvPreserved, PTL DEF Spec, StuckOnlyIfLeft

(* Nor does it come to show a notification that nothing will hide, though  *)
(* it was to hide itself.                                                  *)
THEOREM StaleOnlyByMissing ==
  Spec => StaleOnlyIfLeft
<1>1. Inv /\ [Next]_vars => [~Stale /\ Stale' => ~Shown]_vars
  BY ShownSettles
<1> QED
  BY <1>1, InvInitially, InvPreserved, PTL DEF Spec, StaleOnlyIfLeft
=============================================================================
