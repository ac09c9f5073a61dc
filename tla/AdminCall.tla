----------------------------- MODULE AdminCall ------------------------------
(***************************************************************************)
(* What a call of the admin clients promises to the page that made it: it  *)
(* is answered once, with an error only if a request to the server failed, *)
(* with its result only if none did.                                       *)
(***************************************************************************)
VARIABLES called,  \* the started message has been returned
          failed,  \* a request the call depends on has failed
          answer   \* "none", or what the await command returned

callVars == <<called, failed, answer>>

Init == called = FALSE /\ failed = FALSE /\ answer = "none"

Call == ~called /\ called' = TRUE /\ UNCHANGED <<failed, answer>>

RequestFails ==
  /\ called /\ answer = "none"
  /\ failed' = TRUE
  /\ UNCHANGED <<called, answer>>

Answer ==
  /\ called /\ answer = "none"
  /\ answer' = IF failed THEN "error" ELSE "done"
  /\ UNCHANGED <<called, failed>>

Next == Call \/ RequestFails \/ Answer

Safety == Init /\ [][Next]_callVars

Spec == Safety /\ WF_callVars(Answer)
=============================================================================
