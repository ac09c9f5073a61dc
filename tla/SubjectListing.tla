--------------------------- MODULE SubjectListing ---------------------------
(***************************************************************************)
(* ListSubjects (sradmin/subject_lister.go): all subjects, then those that *)
(* are not deleted, then per subject its versions and its compatibility,   *)
(* while others register and delete subjects.                              *)
(***************************************************************************)
EXTENDS ListingParameters

VARIABLES
  registry,   \* schema registry: "none", "active" or "soft" (deleted) per name
  everDeleted,\* history: the names that were deleted at some time
  main,       \* where doListSubject is
  names,      \* subjectNames, by GetSubjectsIncludingDeleted
  active,     \* by GetSubjects, nil when that request failed
  activeRead, \* history: GetSubjects succeeded
  versions,   \* per name: where the goroutine of GetSchemaVersions is
  compat,     \* per name: where the goroutine of GetCompatibilityLevel is
  errs,       \* number of errors in the buffered channel errs
  failed,     \* history: a request the listing depends on has failed
  answer,     \* the message AwaitCompletion returned
  delivered   \* the subjects of that message

registryVars == <<registry, everDeleted>>
listVars     == <<names, active, activeRead>>
taskVars     == <<versions, compat, errs>>
callVars     == <<failed, answer, delivered>>
vars         == <<registryVars, main, listVars, taskVars, callVars>>

Init ==
  /\ registry \in [Subjects -> {"none", "active", "soft"}]
  /\ everDeleted = {s \in Subjects : registry[s] = "soft"}
  /\ main = "idle"
  /\ names = {} /\ active = {} /\ activeRead = FALSE
  /\ versions = [s \in Subjects |-> "off"]
  /\ compat = [s \in Subjects |-> "off"]
  /\ errs = 0
  /\ failed = FALSE
  /\ answer = "none"
  /\ delivered = {}

-----------------------------------------------------------------------------
(* The registry's other users: register, delete (first softly, then hard). *)

Register(s) ==
  /\ registry[s] # "active"
  /\ registry' = [registry EXCEPT ![s] = "active"]
  /\ UNCHANGED <<everDeleted, main, listVars, taskVars, callVars>>

Delete(s) ==
  /\ registry[s] # "none"
  /\ registry' = [registry EXCEPT ![s] = IF @ = "active" THEN "soft" ELSE "none"]
  /\ everDeleted' = everDeleted \union {s}
  /\ UNCHANGED <<main, listVars, taskVars, callVars>>

-----------------------------------------------------------------------------
(* doListSubject                                                           *)

ListSubjects ==
  /\ main = "idle"
  /\ main' = "listing"
  /\ UNCHANGED <<registryVars, listVars, taskVars, callVars>>

Stored == {s \in Subjects : registry[s] # "none"}
Active == {s \in Subjects : registry[s] = "active"}

\* GetSubjectsIncludingDeleted
GetAll ==
  /\ main = "listing"
  /\ main' = "gettingActive"
  /\ names' = Stored
  /\ UNCHANGED <<registryVars, active, activeRead, taskVars, callVars>>

GetAllFails ==
  /\ main = "listing"
  /\ main' = "reportErr"
  /\ failed' = TRUE
  /\ UNCHANGED <<registryVars, listVars, taskVars, answer, delivered>>

\* A bug: the test against the active subjects is the wrong way round.
IsActive(s, act) == s \in act

\* Deleted is what is missing from the active subjects; only a subject that
\* is not deleted is asked for its versions.
IsDeleted(s, act) == s \notin act

StartTasks(act) ==
  /\ main = "gettingActive"
  /\ main' = "waiting"
  /\ active' = act
  /\ versions' = [s \in Subjects |->
                    IF s \in names /\ ~IsDeleted(s, act) THEN "asking" ELSE "off"]
  /\ compat' = [s \in Subjects |-> IF s \in names THEN "asking" ELSE "off"]
  /\ UNCHANGED <<registryVars, names, errs, callVars>>

GetActive == StartTasks(Active) /\ activeRead' = TRUE

\* The error of GetSubjects is not looked at.
GetActiveFails == StartTasks({}) /\ UNCHANGED activeRead

Idle(s) == versions[s] \in {"off", "done"} /\ compat[s] \in {"off", "done"}

AwaitTasks ==
  /\ main = "waiting"
  /\ \A s \in names : Idle(s)
  /\ main' = IF errs > 0 THEN "reportErr" ELSE "delivering"
  /\ UNCHANGED <<registryVars, listVars, taskVars, callVars>>

Answered(message, subjects) ==
  /\ answer = "none"
  /\ answer' = message
  /\ delivered' = subjects

ReportError ==
  /\ main = "reportErr"
  /\ main' = "returned"
  /\ Answered("error", {})
  /\ UNCHANGED <<registryVars, listVars, taskVars, failed>>

Subject(s) == [name |-> s, deleted |-> IsDeleted(s, active),
               hasVersions |-> versions[s] = "done"]

DeliverSubjects ==
  /\ main = "delivering"
  /\ main' = "returned"
  /\ Answered("done", {Subject(s) : s \in names})
  /\ UNCHANGED <<registryVars, listVars, taskVars, failed>>

-----------------------------------------------------------------------------
(* The two goroutines of a subject                                         *)

\* Capacity of errs: every goroutine can report an error and end.
ErrsCapacity == 2 * Cardinality(names)

\* GetSchemaVersions succeeds only for a subject that is not deleted.
GetVersions(s) ==
  /\ versions[s] = "asking" /\ registry[s] = "active"
  /\ versions' = [versions EXCEPT ![s] = "done"]
  /\ UNCHANGED <<registryVars, main, listVars, compat, errs, callVars>>

GetVersionsFails(s) ==
  /\ versions[s] = "asking"
  /\ versions' = [versions EXCEPT ![s] = "reportErr"]
  /\ failed' = TRUE
  /\ UNCHANGED <<registryVars, main, listVars, compat, errs, answer, delivered>>

ReportVersionsError(s) ==
  /\ versions[s] = "reportErr" /\ errs < ErrsCapacity
  /\ versions' = [versions EXCEPT ![s] = "done"]
  /\ errs' = errs + 1
  /\ UNCHANGED <<registryVars, main, listVars, compat, callVars>>

GetCompatibility(s) ==
  /\ compat[s] = "asking"
  /\ compat' = [compat EXCEPT ![s] = "done"]
  /\ UNCHANGED <<registryVars, main, listVars, versions, errs, callVars>>

GetCompatibilityFails(s) ==
  /\ compat[s] = "asking"
  /\ compat' = [compat EXCEPT ![s] = "reportErr"]
  /\ failed' = TRUE
  /\ UNCHANGED <<registryVars, main, listVars, versions, errs, answer, delivered>>

ReportCompatibilityError(s) ==
  /\ compat[s] = "reportErr" /\ errs < ErrsCapacity
  /\ compat' = [compat EXCEPT ![s] = "done"]
  /\ errs' = errs + 1
  /\ UNCHANGED <<registryVars, main, listVars, versions, callVars>>

-----------------------------------------------------------------------------
Main == \/ GetAll \/ GetAllFails \/ GetActive \/ GetActiveFails
        \/ AwaitTasks \/ ReportError \/ DeliverSubjects

VersionsOf(s) == GetVersions(s) \/ GetVersionsFails(s) \/ ReportVersionsError(s)

CompatibilityOf(s) == \/ GetCompatibility(s) \/ GetCompatibilityFails(s)
                      \/ ReportCompatibilityError(s)

Goroutines == Main \/ \E s \in Subjects : VersionsOf(s) \/ CompatibilityOf(s)

OtherUsers == \E s \in Subjects : Register(s) \/ Delete(s)

Next == ListSubjects \/ Goroutines \/ OtherUsers

Spec == Init /\ [][Next]_vars

Fairness == /\ WF_vars(Main)
            /\ \A s \in Subjects : WF_vars(VersionsOf(s)) /\ WF_vars(CompatibilityOf(s))

-----------------------------------------------------------------------------
(* Properties                                                              *)

TaskSteps == {"off", "asking", "reportErr", "done"}

TypeOK ==
  /\ registry \in [Subjects -> {"none", "active", "soft"}]
  /\ everDeleted \subseteq Subjects
  /\ main \in {"idle", "listing", "gettingActive", "waiting", "reportErr",
               "delivering", "returned"}
  /\ names \subseteq Subjects
  /\ active \subseteq Subjects
  /\ activeRead \in BOOLEAN
  /\ versions \in [Subjects -> TaskSteps]
  /\ compat \in [Subjects -> TaskSteps]
  /\ errs \in Nat
  /\ failed \in BOOLEAN
  /\ answer \in {"none", "error", "done"}
  /\ delivered \subseteq [name : Subjects, deleted : BOOLEAN, hasVersions : BOOLEAN]

\* A delivered listing is complete and consistent: each subject found is in
\* it once, exactly those not shown as deleted have their versions, and one
\* shown as deleted has indeed been deleted by somebody, as long as the
\* request for the active subjects succeeded.
SubjectsTruthful ==
  answer = "done" =>
    /\ {s.name : s \in delivered} = names
    /\ \A s \in delivered : s.hasVersions = ~s.deleted
    /\ activeRead => \A s \in delivered : s.deleted => s.name \in everDeleted

\* The listing implements the contract of a call.
Contract == INSTANCE AdminCall WITH called <- main # "idle"
=============================================================================
